----------------------------- MODULE BlobUpload -----------------------------
(***************************************************************************)
(* Resumable blob uploads of one owner to one repository.                  *)
(*                                                                         *)
(* An upload session is a file that PATCH and PUT append to; PUT then      *)
(* hashes it, renames it to the blob store and links the blob to the       *)
(* repository (httpserver/server.go, storage/filesystem.go).  A goroutine  *)
(* works on a session under its path's mutex (module UploadLocks), counts  *)
(* and creates sessions under Server.uploadMu, and a ticker removes the    *)
(* sessions that nobody has written to for uploadTTL.  An action is one    *)
(* system call; a body is appended byte by byte.                           *)
(*                                                                         *)
(* A name ending in "Faulty" is a deliberately wrong variant of the        *)
(* definition that follows it; nothing uses it but the mutation runs.      *)
(***************************************************************************)
EXTENDS Naturals, Sequences, FiniteSets

CONSTANTS
    Clients,            \* the goroutines serving requests
    Cleaner,            \* the goroutine of runStaleUploadCleanup
    Sessions,           \* upload ids; bound: each is made once
    None,               \* no file, no holder, no session, no digest
    Requests,           \* the requests the clients may send
    MaxUploadBytes,     \* storage.maxUploadBytes
    MaxUploadSessions,  \* storage.maxUploadSessions
    MaxFaults,          \* bound: failing system calls and broken bodies
    MaxCrashes          \* bound: crashes, each followed by a restart

Threads == Clients \cup {Cleaner}
Contents == Seq(Nat)

\* Every client sends parts of one blob, whose bytes are 1, 2, 3, ...: a body is
\* the bytes from + 1 .. from + len.  A request is ranged when it has a
\* Content-Range, declared when it has a Content-Length; a digest stands for the
\* content it is the hash of.
Request == [op : {"start", "monolithic", "patch", "put", "cancel", "unlink"},
            from : Nat, len : Nat, ranged : BOOLEAN, declared : BOOLEAN,
            digest : Contents \cup {None}]

WellFormed(r) ==
    /\ r.op \in {"monolithic", "unlink"} => r.digest # None
    /\ r.op = "monolithic" => r.from = 0

ASSUME ConstantsAssumption ==
    /\ None \notin Contents \cup Threads \cup Sessions
    /\ Cleaner \notin Clients
    /\ IsFiniteSet(Sessions)
    /\ MaxUploadBytes \in Nat \ {0}
    /\ MaxUploadSessions \in Nat \ {0}
    /\ MaxFaults \in Nat
    /\ MaxCrashes \in Nat
    /\ \A r \in Requests : r \in Request /\ WellFormed(r)

VARIABLES
    file,      \* file[s]: the content of session s
    idle,      \* the sessions not written to for uploadTTL
    born,      \* the ids given out
    blob,      \* the blob store: the contents stored under each digest
    link,      \* the digests linked to the repository
    acked,     \* history: acked[s]: the content of s at the last 202 for a PATCH
    lock,      \* lock[s]: holder of the mutex of s's path
    uploadMu,  \* holder of Server.uploadMu
    pc,
    job,       \* job[p]: what p serves and its local variables
    walk,      \* the sessions the cleanup has listed and not visited yet
    faults, crashes

storage == <<file, idle, blob, link, acked>>
budget == <<faults, crashes>>
vars == <<storage, born, lock, uploadMu, pc, job, walk, budget>>

IdleJob == [op |-> "none", from |-> 0, len |-> 0, ranged |-> FALSE, declared |-> FALSE,
            digest |-> None, session |-> None, size |-> 0, written |-> 0]

Init ==
    /\ file = [s \in Sessions |-> None]
    /\ idle = {}
    /\ born = {}
    /\ blob = {}
    /\ link = {}
    /\ acked = [s \in Sessions |-> <<>>]
    /\ lock = [s \in Sessions |-> None]
    /\ uploadMu = None
    /\ pc = [p \in Threads |-> "idle"]
    /\ job = [p \in Threads |-> IdleJob]
    /\ walk = {}
    /\ faults = 0
    /\ crashes = 0

Active == {s \in Sessions : file[s] # None}

Goto(p, step) == pc' = [pc EXCEPT ![p] = step]

-----------------------------------------------------------------------------
(***************************************************************************)
(* Requests and the two locks.                                             *)
(***************************************************************************)
Creates(r) == r.op \in {"start", "monolithic"}

\* requestExceedsLimit; remaining is MaxUploadBytes - size and may be negative.
ExceedsLimit(r, size) == r.declared /\ size + r.len > MaxUploadBytes

Receive(c) ==
    /\ pc[c] = "idle"
    /\ \E r \in Requests, s \in Sessions :
          /\ r.op # "unlink"
          /\ IF Creates(r) THEN s \notin born /\ ~ExceedsLimit(r, 0) ELSE s \in born
          /\ born' = born \cup {s}
          /\ job' = [job EXCEPT ![c] =
                [op |-> r.op, from |-> r.from, len |-> r.len, ranged |-> r.ranged,
                 declared |-> r.declared, digest |-> r.digest, session |-> s,
                 size |-> 0, written |-> 0]]
    /\ Goto(c, "lock")
    /\ UNCHANGED <<storage, lock, uploadMu, walk, budget>>

LockFreeFaulty(s) == TRUE
LockFree(s) == lock[s] = None

AfterLock(p) ==
    CASE Creates(job[p])          -> "mu"
      [] job[p].op = "cancel"     -> "remove"
      [] job[p].op = "clean"      -> "inspect"
      [] OTHER                    -> "check"

LockUpload(p) ==
    /\ pc[p] = "lock"
    /\ LockFree(job[p].session)
    /\ lock' = [lock EXCEPT ![job[p].session] = p]
    /\ Goto(p, AfterLock(p))
    /\ UNCHANGED <<storage, born, uploadMu, job, walk, budget>>

MuFreeFaulty == TRUE
MuFree == uploadMu = None

LockMu(c) ==
    /\ pc[c] = "mu"
    /\ MuFree
    /\ uploadMu' = c
    /\ Goto(c, "count")
    /\ UNCHANGED <<storage, born, lock, job, walk, budget>>

\* releaseUpload, deferred by every handler.
Release(c) ==
    /\ pc[c] = "release"
    /\ lock' = [lock EXCEPT ![job[c].session] = None]
    /\ Goto(c, "idle")
    /\ job' = [job EXCEPT ![c] = IdleJob]
    /\ UNCHANGED <<storage, born, uploadMu, walk, budget>>

-----------------------------------------------------------------------------
(***************************************************************************)
(* POST: count and create under uploadMu.                                  *)
(***************************************************************************)
CountUploads(c) ==
    /\ pc[c] = "count"
    /\ \/ /\ Cardinality(Active) < MaxUploadSessions
          /\ Goto(c, "create")
          /\ UNCHANGED uploadMu
       \/ /\ Cardinality(Active) >= MaxUploadSessions
          /\ uploadMu' = None
          /\ Goto(c, "release")
    /\ UNCHANGED <<storage, born, lock, job, walk, budget>>

CreateFile(c) ==
    /\ pc[c] = "create"
    /\ file' = [file EXCEPT ![job[c].session] = <<>>]
    /\ uploadMu' = None
    /\ Goto(c, IF job[c].op = "monolithic" THEN "copy" ELSE "release")
    /\ UNCHANGED <<idle, born, blob, link, acked, lock, job, walk, budget>>

-----------------------------------------------------------------------------
(***************************************************************************)
(* PATCH and PUT: check, append, truncate what is too much.                *)
(***************************************************************************)
InOrderFaulty(r, size) == r.ranged => r.from <= size
InOrder(r, size) == r.ranged => r.from = size

\* The handler's checks, and appendUpload's of the file's size.
Accepts(j) ==
    /\ file[j.session] # None
    /\ LET size == Len(file[j.session]) IN
          /\ InOrder(j, size)
          /\ ~ExceedsLimit(j, size)
          /\ size <= MaxUploadBytes

CheckChunk(c) ==
    /\ pc[c] = "check"
    /\ \/ /\ Accepts(job[c])
          /\ job' = [job EXCEPT ![c].size = Len(file[job[c].session])]
          /\ Goto(c, "copy")
       \/ /\ ~Accepts(job[c])
          /\ Goto(c, "release")
          /\ UNCHANGED job
    /\ UNCHANGED <<storage, born, lock, uploadMu, walk, budget>>

\* io.LimitReader(body, remaining+1)
LimitedFaulty(j) == j.len
Limited(j) == IF j.size + j.len > MaxUploadBytes THEN MaxUploadBytes + 1 - j.size ELSE j.len

CopyByte(c) ==
    LET s == job[c].session IN
    /\ pc[c] = "copy"
    /\ job[c].written < Limited(job[c])
    /\ file[s] # None
    /\ file' = [file EXCEPT ![s] = Append(@, job[c].from + job[c].written + 1)]
    /\ idle' = idle \ {s}
    /\ job' = [job EXCEPT ![c].written = @ + 1]
    /\ UNCHANGED <<born, blob, link, acked, lock, uploadMu, pc, walk, budget>>

TooLargeFaulty(j) == j.size + j.written > MaxUploadBytes + 1
TooLarge(j) == j.size + j.written > MaxUploadBytes

EndCopy(c) ==
    /\ pc[c] = "copy"
    /\ job[c].written >= Limited(job[c])
    /\ \/ /\ TooLarge(job[c])
          /\ Goto(c, "truncate")
          /\ UNCHANGED acked
       \/ /\ ~TooLarge(job[c])
          /\ job[c].op = "patch"
          /\ acked' = [acked EXCEPT ![job[c].session] = file[job[c].session]]
          /\ Goto(c, "release")
       \/ /\ ~TooLarge(job[c])
          /\ job[c].op # "patch"
          /\ Goto(c, IF job[c].digest = None THEN "release" ELSE "hash")
          /\ UNCHANGED acked
    /\ UNCHANGED <<file, idle, blob, link, born, lock, uploadMu, job, walk, budget>>

\* What a failed append leads to: a monolithic POST removes its session.
AfterFailedAppendFaulty(c) == "remove"
AfterFailedAppend(c) == IF job[c].op = "monolithic" THEN "remove" ELSE "release"

Truncate(c) ==
    LET s == job[c].session IN
    /\ pc[c] = "truncate"
    /\ file[s] # None
    /\ file' = [file EXCEPT ![s] = SubSeq(@, 1, job[c].size)]
    /\ idle' = idle \ {s}
    /\ Goto(c, AfterFailedAppend(c))
    /\ UNCHANGED <<blob, link, acked, born, lock, uploadMu, job, walk, budget>>

\* os.Remove of a session by DELETE, or by a monolithic POST that failed.
RemoveUpload(c) ==
    LET s == job[c].session IN
    /\ pc[c] = "remove"
    /\ file' = [file EXCEPT ![s] = None]
    /\ idle' = idle \ {s}
    /\ acked' = IF job[c].op = "cancel" THEN [acked EXCEPT ![s] = <<>>] ELSE acked
    /\ Goto(c, "release")
    /\ UNCHANGED <<blob, link, born, lock, uploadMu, job, walk, budget>>

-----------------------------------------------------------------------------
(***************************************************************************)
(* commitBlobUpload: hash, rename into the blob store, link.               *)
(***************************************************************************)
DigestMatches(c) == file[job[c].session] = job[c].digest

HashUpload(c) ==
    /\ pc[c] = "hash"
    /\ Goto(c, IF DigestMatches(c) THEN "rename" ELSE "release")
    /\ UNCHANGED <<storage, born, lock, uploadMu, job, walk, budget>>

RenameUpload(c) ==
    LET s == job[c].session IN
    /\ pc[c] = "rename"
    /\ file[s] # None
    /\ blob' = {b \in blob : b.digest # job[c].digest}
                  \cup {[digest |-> job[c].digest, content |-> file[s]]}
    /\ file' = [file EXCEPT ![s] = None]
    /\ idle' = idle \ {s}
    /\ acked' = [acked EXCEPT ![s] = <<>>]
    /\ Goto(c, "link")
    /\ UNCHANGED <<link, born, lock, uploadMu, job, walk, budget>>

HasBlob(d) == \E b \in blob : b.digest = d

LinkRepositoryBlob(c) ==
    /\ pc[c] = "link"
    /\ link' = IF HasBlob(job[c].digest) THEN link \cup {job[c].digest} ELSE link
    /\ Goto(c, "release")
    /\ UNCHANGED <<file, idle, blob, acked, born, lock, uploadMu, job, walk, budget>>

\* DELETE of a blob takes no lock and removes the repository's link only.
DeleteRepositoryBlob(c) ==
    /\ pc[c] = "idle"
    /\ \E r \in Requests :
          /\ r.op = "unlink" /\ r.digest \in link /\ HasBlob(r.digest)
          /\ link' = link \ {r.digest}
    /\ UNCHANGED <<file, idle, blob, acked, born, lock, uploadMu, pc, job, walk, budget>>

-----------------------------------------------------------------------------
(***************************************************************************)
(* CleanupStaleUploads.  The cutoff is fixed when a pass starts, so a      *)
(* session that grows old during a pass is young for that pass: sessions   *)
(* age between passes only.                                                *)
(***************************************************************************)
Age(s) ==
    /\ pc[Cleaner] = "idle"
    /\ file[s] # None
    /\ s \notin idle
    /\ idle' = idle \cup {s}
    /\ UNCHANGED <<file, blob, link, acked, born, lock, uploadMu, pc, job, walk, budget>>

ListUploads ==
    /\ pc[Cleaner] = "idle"
    /\ Active # {}
    /\ walk' = Active
    /\ Goto(Cleaner, "visit")
    /\ UNCHANGED <<storage, born, lock, uploadMu, job, budget>>

Visit ==
    /\ pc[Cleaner] = "visit"
    /\ \/ \E s \in walk :
             /\ walk' = walk \ {s}
             /\ job' = [job EXCEPT ![Cleaner] = [IdleJob EXCEPT !.op = "clean", !.session = s]]
             /\ Goto(Cleaner, "lock")
       \/ /\ walk = {}
          /\ Goto(Cleaner, "idle")
          /\ job' = [job EXCEPT ![Cleaner] = IdleJob]
          /\ UNCHANGED walk
    /\ UNCHANGED <<storage, born, lock, uploadMu, budget>>

\* "Inspect its expiry again while holding the same lifecycle lock."
ExpiredFaulty(s) == s \notin idle
Expired(s) == s \in idle

Inspect ==
    /\ pc[Cleaner] = "inspect"
    /\ Goto(Cleaner, IF Expired(job[Cleaner].session) THEN "expire" ELSE "passed")
    /\ UNCHANGED <<storage, born, lock, uploadMu, job, walk, budget>>

RemoveExpired ==
    LET s == job[Cleaner].session IN
    /\ pc[Cleaner] = "expire"
    /\ file' = [file EXCEPT ![s] = None]
    /\ idle' = idle \ {s}
    /\ acked' = IF s \in idle THEN [acked EXCEPT ![s] = <<>>] ELSE acked
    /\ Goto(Cleaner, "passed")
    /\ UNCHANGED <<blob, link, born, lock, uploadMu, job, walk, budget>>

ReleaseVisited ==
    /\ pc[Cleaner] = "passed"
    /\ lock' = [lock EXCEPT ![job[Cleaner].session] = None]
    /\ Goto(Cleaner, "visit")
    /\ UNCHANGED <<storage, born, uploadMu, job, walk, budget>>

-----------------------------------------------------------------------------
(***************************************************************************)
(* Failures.                                                               *)
(***************************************************************************)
MuAfterFailureFaulty(c) == IF pc[c] = "count" THEN None ELSE uploadMu
MuAfterFailure(c) == IF pc[c] \in {"count", "create"} THEN None ELSE uploadMu

\* A system call fails, or the body breaks off, and the handler gives up.
StepFails(c) ==
    /\ faults < MaxFaults
    /\ pc[c] \in {"count", "create", "copy", "truncate", "remove", "hash", "rename", "link"}
    /\ faults' = faults + 1
    /\ uploadMu' = MuAfterFailure(c)
    /\ Goto(c, IF pc[c] \in {"copy", "truncate"} THEN AfterFailedAppend(c) ELSE "release")
    /\ UNCHANGED <<storage, born, lock, job, walk, crashes>>

\* An error ends the pass; the next tick starts another one.
CleanupFails ==
    /\ faults < MaxFaults
    /\ pc[Cleaner] \in {"inspect", "expire"}
    /\ faults' = faults + 1
    /\ walk' = {}
    /\ Goto(Cleaner, "passed")
    /\ UNCHANGED <<storage, born, lock, uploadMu, job, crashes>>

\* Files and the ids that clients know survive; locks and goroutines do not.
Crash ==
    /\ crashes < MaxCrashes
    /\ crashes' = crashes + 1
    /\ lock' = [s \in Sessions |-> None]
    /\ uploadMu' = None
    /\ pc' = [p \in Threads |-> "idle"]
    /\ job' = [p \in Threads |-> IdleJob]
    /\ walk' = {}
    /\ UNCHANGED <<storage, born, faults>>

-----------------------------------------------------------------------------
ClientStep(c) ==
    \/ LockUpload(c) \/ LockMu(c) \/ Release(c)
    \/ CountUploads(c) \/ CreateFile(c)
    \/ CheckChunk(c) \/ CopyByte(c) \/ EndCopy(c) \/ Truncate(c) \/ RemoveUpload(c)
    \/ HashUpload(c) \/ RenameUpload(c) \/ LinkRepositoryBlob(c)

CleanerStep ==
    \/ ListUploads \/ Visit \/ LockUpload(Cleaner)
    \/ Inspect \/ RemoveExpired \/ ReleaseVisited

Next ==
    \/ \E c \in Clients :
          Receive(c) \/ ClientStep(c) \/ DeleteRepositoryBlob(c) \/ StepFails(c)
    \/ CleanerStep
    \/ \E s \in Sessions : Age(s)
    \/ CleanupFails
    \/ Crash

Spec == Init /\ [][Next]_vars

(***************************************************************************)
(* The scheduler runs every goroutine, http.readTimeout ends every body,   *)
(* the cleanup's ticker fires, and sync.Mutex hands over to a waiter that  *)
(* has waited for a millisecond.  No client has to send anything.          *)
(***************************************************************************)
Fairness ==
    /\ \A c \in Clients : SF_vars(ClientStep(c))
    /\ SF_vars(CleanerStep)

FairSpec == Spec /\ Fairness

-----------------------------------------------------------------------------
(***************************************************************************)
(* Properties.                                                             *)
(***************************************************************************)
IsPrefixOf(a, b) == Len(a) <= Len(b) /\ SubSeq(b, 1, Len(a)) = a

Steps == {"idle", "lock", "mu", "count", "create", "check", "copy", "truncate", "remove",
          "hash", "rename", "link", "release", "visit", "inspect", "expire", "passed"}

Job == [op : {"none", "start", "monolithic", "patch", "put", "cancel", "clean"},
        from : Nat, len : Nat, ranged : BOOLEAN, declared : BOOLEAN,
        digest : Contents \cup {None}, session : Sessions \cup {None},
        size : 0..MaxUploadBytes, written : 0..MaxUploadBytes + 1]

(* Every variable has its type; no session ever holds more than one byte beyond
   maxUploadBytes, the byte by which appendUpload notices the excess. *)
TypeOK ==
    /\ file \in [Sessions -> Contents \cup {None}]
    /\ \A s \in Sessions : file[s] # None => Len(file[s]) <= MaxUploadBytes + 1
    /\ idle \subseteq Active
    /\ Active \subseteq born /\ born \subseteq Sessions
    /\ blob \subseteq [digest : Contents, content : Contents]
    /\ link \subseteq Contents
    /\ acked \in [Sessions -> Contents]
    /\ lock \in [Sessions -> Threads \cup {None}]
    /\ uploadMu \in Clients \cup {None}
    /\ pc \in [Threads -> Steps]
    /\ job \in [Threads -> Job]
    /\ walk \subseteq born
    /\ faults \in 0..MaxFaults
    /\ crashes \in 0..MaxCrashes

(* README.md:160: an owner never has more than maxUploadSessions sessions in a
   repository, however many POSTs race. *)
SessionLimit == Cardinality(Active) <= MaxUploadSessions

(* A digest leads to the content that has it, although the hash is taken before
   the rename, and a link to a blob that is stored.  Nothing is stored beyond
   maxUploadBytes "per cumulative blob upload" (README.md:159), whatever a failed
   copy, a failed truncation or a crash has left in the session before. *)
StoredBlobsAreWhole ==
    /\ \A b \in blob : b.content = b.digest /\ Len(b.content) <= MaxUploadBytes
    /\ \A d \in link : HasBlob(d)

(* Clients that send a Content-Range may retry, race each other and resume after
   any failure: a session holds a prefix of the blob, each byte in its place. *)
RangedUploadsAreExact ==
    (\A r \in Requests : r.op \in {"patch", "put"} => r.ranged) =>
        \A s \in Sessions : file[s] # None =>
            \A i \in 1..Len(file[s]) : file[s][i] = i

(* Bytes acknowledged with 202 stay in their session until it is committed,
   cancelled, or removed by the cleanup for being idle. *)
AcknowledgedBytesStay ==
    \A s \in Sessions : acked[s] # <<>> =>
        file[s] # None /\ IsPrefixOf(acked[s], file[s])

(* Every request is answered: nobody waits forever for a session or uploadMu. *)
UploadsEnd == \A c \in Clients : pc[c] # "idle" ~> pc[c] = "idle"

(* README.md:161: a session that is idle for uploadTTL is removed, unless it is
   written to again. *)
IdleUploadsAreRemoved == \A s \in Sessions : []<>(s \notin idle)

=============================================================================
