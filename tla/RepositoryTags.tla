--------------------------- MODULE RepositoryTags ---------------------------
(***************************************************************************)
(* Manifests and tags of one repository.                                   *)
(*                                                                         *)
(* The registry keeps every manifest in a directory of its own and every   *)
(* tag in a small file holding a digest (storage/filesystem.go), and keeps *)
(* a second copy of the tags, with the overwrite policy, in SQLite         *)
(* (db/store.go).  Request goroutines change both under two locks taken in *)
(* the order tagMu, flock (httpserver/server.go); the manifest garbage     *)
(* collector takes only the flock; pulls, and the last step of the UI's    *)
(* repository deletion, take none.  An action below is one system call on  *)
(* the disk or one database transaction, so that the threads interleave,   *)
(* fail and crash between any two of them.                                 *)
(*                                                                         *)
(* A name ending in "Faulty" is a deliberately wrong variant of the        *)
(* definition that follows it; nothing uses it but the mutation runs.      *)
(***************************************************************************)
EXTENDS Naturals, FiniteSets

CONSTANTS
    Clients,     \* the goroutines serving requests
    Collector,   \* the goroutine of runGarbageCollector
    Tags,
    Digests,     \* digests of manifests; a digest stands for its content
    None,        \* no tag file, no row, no holder
    Requests,    \* the requests the clients may send
    MaxFaults,   \* bound: failing system calls and transactions
    MaxCrashes   \* bound: crashes, each followed by a restart

Threads == Clients \cup {Collector}
Files == {"content", "mediaType"}
Operations == {"none", "put", "addTag", "deleteTag", "deleteDigest", "setPolicy",
               "deleteRepository", "pull", "head", "collect"}

\* A policy is the set of the tags it protects from being moved: {} for mode
\* mutable, every tag for immutable, the matching ones for pattern.
Policies == SUBSET Tags

Request == [op : Operations, digest : Digests \cup {None},
            tags : SUBSET Tags, policy : Policies]

\* What the handlers have validated before the repository is touched.
WellFormed(r) ==
    /\ r.op \notin {"none", "collect"}
    /\ r.op \in {"put", "addTag", "deleteDigest"} => r.digest \in Digests
    /\ r.op \in {"addTag", "deleteTag"} => \E t \in Tags : r.tags = {t}
    /\ r.op \in {"pull", "head"} =>
           \/ r.digest \in Digests /\ r.tags = {}
           \/ r.digest = None /\ \E t \in Tags : r.tags = {t}

ASSUME ConstantsAssumption ==
    /\ None \notin Digests \cup Threads
    /\ Collector \notin Clients
    /\ MaxFaults \in Nat
    /\ MaxCrashes \in Nat
    /\ Requests \subseteq Request
    /\ \A r \in Requests : WellFormed(r)

VARIABLES
    dir,      \* dir[d]: manifests/<d>, and whether its mtime is past the GC cutoff
    file,     \* file[d][f]: the two files in it; "torn" = truncated, not yet written
    tag,      \* tag[t]: the digest in tags/<t>
    temps,    \* digests in .tag-* files that a crash left in tags/
    recent,   \* history: digests whose last push is younger than the grace period
    repo,     \* the repository has a row in repositories
    row,      \* row[t]: the digest of t's row in repository_tags
    policy,   \* its row in repository_tag_policies
    tagMu,    \* holder of Server.tagMu
    flock,    \* holder of the flock on .tag.lock
    pc,       \* pc[p]: the next step of thread p
    job,      \* job[p]: the request p serves and its local variables
    faults, crashes

disk == <<dir, file, tag, temps, recent>>
database == <<repo, row, policy>>
locks == <<tagMu, flock>>
budget == <<faults, crashes>>
vars == <<disk, database, locks, pc, job, budget>>

NoDigests == [t \in Tags |-> None]

\* todo: tags still to link or to roll back; prior: manifestTagState of each tag;
\* victims: digests still to delete; ok: no error so far (pulls: only whole files read).
IdleJob == [op |-> "none", digest |-> None, tags |-> {}, policy |-> {}, todo |-> {},
            prior |-> NoDigests, victims |-> {}, ok |-> TRUE]

\* Steps of a callback run under WithRepositoryLock whose error ends it at once,
\* and the steps of linkManifestTagsLocked whose error starts the rollback.
AbortPoints == {"mkdir", "openContent", "writeContent", "openMediaType", "writeMediaType",
                "getManifest", "check", "readBack", "stat", "removeAll", "untag",
                "removeTag", "forget", "policyCheck", "policyWrite", "scan", "sweep"}
LinkPoints == {"link", "rename", "upsert"}
Critical == AbortPoints \cup LinkPoints \cup {"rollback", "release"}
Unlocked == {"list", "nextVictim", "drop", "resolve", "readContent", "readMediaType", "mark"}

Init ==
    /\ dir = [d \in Digests |-> "absent"]
    /\ file = [d \in Digests |-> [f \in Files |-> "absent"]]
    /\ tag = NoDigests
    /\ temps = {}
    /\ recent = {}
    /\ repo = FALSE
    /\ row = NoDigests
    /\ policy = None
    /\ tagMu = None
    /\ flock = None
    /\ pc = [p \in Threads |-> "idle"]
    /\ job = [p \in Threads |-> IdleJob]
    /\ faults = 0
    /\ crashes = 0

-----------------------------------------------------------------------------
(***************************************************************************)
(* Requests and the two locks.                                             *)
(***************************************************************************)
Goto(p, step) == pc' = [pc EXCEPT ![p] = step]

Finish(p) ==
    /\ Goto(p, "idle")
    /\ job' = [job EXCEPT ![p] = IdleJob]

FinishFailed(p) ==
    /\ Goto(p, "release")
    /\ job' = [job EXCEPT ![p].ok = FALSE]

EntryStep(r) ==
    CASE r.op = "deleteRepository"                    -> "list"
      [] r.op \in {"pull", "head"} /\ r.tags = {}     -> "readContent"
      [] r.op \in {"pull", "head"} /\ r.tags # {}     -> "resolve"
      [] OTHER                                        -> "tagMu"

Receive(c) ==
    /\ pc[c] = "idle"
    /\ \E r \in Requests :
          /\ Goto(c, EntryStep(r))
          /\ job' = [job EXCEPT ![c] = [IdleJob EXCEPT !.op = r.op, !.digest = r.digest,
                                                       !.tags = r.tags, !.policy = r.policy]]
    /\ UNCHANGED <<disk, database, locks, budget>>

AcquireTagMu(c) ==
    /\ pc[c] = "tagMu"
    /\ tagMu = None
    /\ tagMu' = c
    /\ Goto(c, "flock")
    /\ UNCHANGED <<disk, database, flock, job, budget>>

FirstStep(op) ==
    CASE op = "put"          -> "mkdir"
      [] op = "addTag"       -> "getManifest"
      [] op = "deleteTag"    -> "removeTag"
      [] op = "setPolicy"    -> "policyCheck"
      [] op = "collect"      -> "scan"
      [] OTHER               -> "stat"

FlockFreeFaulty(p) == flock = None \/ p = Collector
FlockFree(p) == flock = None

AcquireFlock(p) ==
    /\ pc[p] = "flock"
    /\ FlockFree(p)
    /\ flock' = p
    /\ Goto(p, FirstStep(job[p].op))
    /\ UNCHANGED <<disk, database, tagMu, job, budget>>

MuAfterReleaseFaulty(p) == IF tagMu = p /\ job[p].ok THEN None ELSE tagMu
MuAfterRelease(p) == IF tagMu = p THEN None ELSE tagMu

Release(p) ==
    /\ pc[p] = "release"
    /\ flock' = None
    /\ tagMu' = MuAfterRelease(p)
    /\ IF job[p].op = "deleteRepository" /\ job[p].ok
          THEN Goto(p, "nextVictim") /\ UNCHANGED job
          ELSE Finish(p)
    /\ UNCHANGED <<disk, database, budget>>

-----------------------------------------------------------------------------
(***************************************************************************)
(* PUT of a manifest: PutManifestContent.  Creating or removing a file in  *)
(* the directory renews its mtime, truncating an existing one does not.    *)
(***************************************************************************)
AfterMkdirFaulty(c) ==
    IF dir[job[c].digest] # "absent" /\ job[c].tags # {} THEN "check" ELSE "openContent"
AfterMkdir(c) == "openContent"

MakeManifestDir(c) ==
    /\ pc[c] = "mkdir"
    /\ LET d == job[c].digest IN
          /\ dir' = [dir EXCEPT ![d] = IF @ = "absent" THEN "fresh" ELSE @]
          /\ recent' = recent \cup {d}
    /\ Goto(c, AfterMkdir(c))
    /\ UNCHANGED <<file, tag, temps, database, locks, job, budget>>

OpenFile(c, f) ==
    /\ pc[c] = IF f = "content" THEN "openContent" ELSE "openMediaType"
    /\ LET d == job[c].digest IN
          /\ file' = [file EXCEPT ![d][f] = "torn"]
          /\ dir' = [dir EXCEPT ![d] = IF file[d][f] = "absent" THEN "fresh" ELSE @]
    /\ Goto(c, IF f = "content" THEN "writeContent" ELSE "writeMediaType")
    /\ UNCHANGED <<tag, temps, recent, database, locks, job, budget>>

WriteFile(c, f) ==
    /\ pc[c] = IF f = "content" THEN "writeContent" ELSE "writeMediaType"
    /\ file' = [file EXCEPT ![job[c].digest][f] = "whole"]
    /\ Goto(c, IF f = "content" THEN "openMediaType"
               ELSE IF job[c].tags = {} THEN "release" ELSE "check")
    /\ UNCHANGED <<dir, tag, temps, recent, database, locks, job, budget>>

\* addRepositoryTag: the manifest must be readable before it can be tagged.
ReadManifest(c) ==
    /\ pc[c] = "getManifest"
    /\ IF \A f \in Files : file[job[c].digest][f] # "absent"
          THEN Goto(c, "check") /\ UNCHANGED job
          ELSE FinishFailed(c)
    /\ UNCHANGED <<disk, database, locks, budget>>

-----------------------------------------------------------------------------
(***************************************************************************)
(* linkManifestTagsLocked: policy, links one by one, database, rollback.   *)
(***************************************************************************)
\* GetRepositoryTagPolicy answers the default for a repository without a row.
EffectivePolicy == IF repo /\ policy # None THEN policy ELSE {}

\* A tag that exists with another digest may not be moved when it is protected.
RejectedFaulty(c) == \E t \in job[c].tags : tag[t] = job[c].digest /\ t \in EffectivePolicy
Rejected(c) ==
    \E t \in job[c].tags :
        tag[t] \notin {None, job[c].digest} /\ t \in EffectivePolicy

CheckPolicy(c) ==
    /\ pc[c] = "check"
    /\ IF Rejected(c)
          THEN FinishFailed(c)
          ELSE /\ Goto(c, "link")
               /\ job' = [job EXCEPT ![c] = [@ EXCEPT !.todo = job[c].tags, !.prior = tag]]
    /\ UNCHANGED <<disk, database, locks, budget>>

StartRollbackFaulty(c) ==
    /\ Goto(c, "rollback")
    /\ job' = [job EXCEPT ![c] = [@ EXCEPT !.todo = {}, !.ok = FALSE]]
StartRollback(c) ==
    /\ Goto(c, "rollback")
    /\ job' = [job EXCEPT ![c] = [@ EXCEPT !.todo = job[c].tags \ job[c].todo, !.ok = FALSE]]

\* LinkManifestTag asks for the directory only, then writes a .tag-* file ...
StatAndWriteTemp(c) ==
    /\ pc[c] = "link"
    /\ IF dir[job[c].digest] = "absent"
          THEN StartRollback(c)
          ELSE Goto(c, "rename") /\ UNCHANGED job
    /\ UNCHANGED <<disk, database, locks, budget>>

\* ... and renames it over the tag.
RenameTag(c) ==
    /\ pc[c] = "rename"
    /\ \E t \in job[c].todo :
          /\ tag' = [tag EXCEPT ![t] = job[c].digest]
          /\ job' = [job EXCEPT ![c].todo = @ \ {t}]
          /\ Goto(c, IF job[c].todo = {t} THEN "upsert" ELSE "link")
    /\ UNCHANGED <<dir, file, temps, recent, database, locks, budget>>

RowsAfterUpsertFaulty(c) ==
    [t \in Tags |-> IF t \in job[c].tags /\ row[t] = None THEN job[c].digest ELSE row[t]]
RowsAfterUpsert(c) ==
    [t \in Tags |-> IF t \in job[c].tags THEN job[c].digest ELSE row[t]]

UpsertTags(c) ==
    /\ pc[c] = "upsert"
    /\ repo' = TRUE
    /\ row' = RowsAfterUpsert(c)
    /\ Goto(c, IF job[c].op = "addTag" THEN "readBack" ELSE "release")
    /\ UNCHANGED <<disk, policy, locks, job, budget>>

\* A tag linked to a digest that has gone meanwhile is left where it is.
RolledBackFaulty(c, t) == None
RolledBack(c, t) ==
    LET d == job[c].prior[t] IN
    IF d = None \/ dir[d] # "absent" THEN d ELSE tag[t]

RollbackTag(c) ==
    /\ pc[c] = "rollback"
    /\ \E t \in job[c].todo :
          /\ tag' = [tag EXCEPT ![t] = RolledBack(c, t)]
          /\ job' = [job EXCEPT ![c].todo = @ \ {t}]
    /\ UNCHANGED <<dir, file, temps, recent, database, locks, pc, budget>>

RollbackDone(c) ==
    /\ pc[c] = "rollback"
    /\ job[c].todo = {}
    /\ Goto(c, "release")
    /\ UNCHANGED <<disk, database, locks, job, budget>>

\* addRepositoryTag answers with the row it reads back.
ReadBackTag(c) ==
    /\ pc[c] = "readBack"
    /\ IF \A t \in job[c].tags : row[t] # None
          THEN Goto(c, "release") /\ UNCHANGED job
          ELSE FinishFailed(c)
    /\ UNCHANGED <<disk, database, locks, budget>>

-----------------------------------------------------------------------------
(***************************************************************************)
(* Deletions: DeleteManifest, then DeleteRepositoryManifestReference.      *)
(***************************************************************************)
\* The repository deletion ignores ErrNotFound, the other callers return it.
StatManifest(c) ==
    /\ pc[c] = "stat"
    /\ IF dir[job[c].digest] # "absent"
          THEN Goto(c, "removeAll") /\ UNCHANGED job
          ELSE IF job[c].op = "deleteRepository"
                  THEN Goto(c, "release") /\ UNCHANGED job
                  ELSE FinishFailed(c)
    /\ UNCHANGED <<disk, database, locks, budget>>

\* os.RemoveAll unlinks the files in any order, then the directory.
RemoveFile(p, f) ==
    /\ pc[p] = "removeAll"
    /\ file[job[p].digest][f] # "absent"
    /\ file' = [file EXCEPT ![job[p].digest][f] = "absent"]
    /\ dir' = [dir EXCEPT ![job[p].digest] = "fresh"]
    /\ UNCHANGED <<tag, temps, recent, database, locks, pc, job, budget>>

AfterRemovalFaulty(p) == IF p = Collector THEN "sweep" ELSE "forget"
AfterRemoval(p) == IF p = Collector THEN "sweep" ELSE "untag"

RemoveDirectory(p) ==
    /\ pc[p] = "removeAll"
    /\ \A f \in Files : file[job[p].digest][f] = "absent"
    /\ dir' = [dir EXCEPT ![job[p].digest] = "absent"]
    /\ recent' = recent \ {job[p].digest}
    /\ Goto(p, AfterRemoval(p))
    /\ UNCHANGED <<file, tag, temps, database, locks, job, budget>>

\* deleteTagReferences: every file of tags/ that holds the digest.
Untag(c) ==
    /\ pc[c] = "untag"
    /\ \/ \E t \in Tags : /\ tag[t] = job[c].digest
                          /\ tag' = [tag EXCEPT ![t] = None]
                          /\ UNCHANGED <<temps, pc>>
       \/ /\ job[c].digest \in temps
          /\ temps' = temps \ {job[c].digest}
          /\ UNCHANGED <<tag, pc>>
       \/ /\ \A t \in Tags : tag[t] # job[c].digest
          /\ job[c].digest \notin temps
          /\ Goto(c, "forget")
          /\ UNCHANGED <<tag, temps>>
    /\ UNCHANGED <<dir, file, recent, database, locks, job, budget>>

RemoveTagFile(c) ==
    /\ pc[c] = "removeTag"
    /\ \E t \in job[c].tags :
          IF tag[t] = None
             THEN FinishFailed(c) /\ UNCHANGED tag
             ELSE /\ tag' = [tag EXCEPT ![t] = None]
                  /\ job' = [job EXCEPT ![c].digest = tag[t]]
                  /\ Goto(c, "forget")
    /\ UNCHANGED <<dir, file, temps, recent, database, locks, budget>>

ForgottenFaulty(c) == {t \in Tags : row[t] = job[c].digest /\ t \in job[c].tags}
Forgotten(c) ==
    IF job[c].op = "deleteTag" THEN job[c].tags ELSE {t \in Tags : row[t] = job[c].digest}

\* One transaction: the rows, then the repository if no row is left, then the
\* policy if the repository is gone.
ForgetReference(c) ==
    /\ pc[c] = "forget"
    /\ row' = [t \in Tags |-> IF t \in Forgotten(c) THEN None ELSE row[t]]
    /\ repo' = (repo /\ \E t \in Tags : row'[t] # None)
    /\ policy' = IF repo' THEN policy ELSE None
    /\ Goto(c, "release")
    /\ UNCHANGED <<disk, locks, job, budget>>

-----------------------------------------------------------------------------
(***************************************************************************)
(* The overwrite policy: UpdateRepositoryTagPolicy, two statements.        *)
(***************************************************************************)
RepositoryKnown == repo

CheckRepository(c) ==
    /\ pc[c] = "policyCheck"
    /\ IF RepositoryKnown
          THEN Goto(c, "policyWrite") /\ UNCHANGED job
          ELSE FinishFailed(c)
    /\ UNCHANGED <<disk, database, locks, budget>>

WritePolicy(c) ==
    /\ pc[c] = "policyWrite"
    /\ policy' = job[c].policy
    /\ Goto(c, "release")
    /\ UNCHANGED <<disk, repo, row, locks, job, budget>>

-----------------------------------------------------------------------------
(***************************************************************************)
(* The UI's repository deletion: handleUIRepositoryDelete.                 *)
(***************************************************************************)
\* The list is read without a lock; each digest is then deleted under the locks.
ListTags(c) ==
    /\ pc[c] = "list"
    /\ LET listed == {row[t] : t \in Tags} \ {None} IN
          /\ job' = [job EXCEPT ![c].victims = listed]
          /\ Goto(c, IF listed = {} THEN "drop" ELSE "nextVictim")
    /\ UNCHANGED <<disk, database, locks, budget>>

NextVictim(c) ==
    /\ pc[c] = "nextVictim"
    /\ \/ \E d \in job[c].victims :
             /\ job' = [job EXCEPT ![c] = [@ EXCEPT !.digest = d, !.victims = job[c].victims \ {d}]]
             /\ Goto(c, "tagMu")
       \/ /\ job[c].victims = {}
          /\ Finish(c)
    /\ UNCHANGED <<disk, database, locks, budget>>

\* DeleteRepository, without a lock; the rows go by ON DELETE CASCADE.  Without
\* a repository row the transaction is rolled back.
RowsAfterDropFaulty == row
RowsAfterDrop == NoDigests

DropRepository(c) ==
    /\ pc[c] = "drop"
    /\ IF repo
          THEN repo' = FALSE /\ row' = RowsAfterDrop /\ policy' = None
          ELSE UNCHANGED database
    /\ Finish(c)
    /\ UNCHANGED <<disk, locks, budget>>

-----------------------------------------------------------------------------
(***************************************************************************)
(* GET and HEAD of a manifest, without a lock.                             *)
(***************************************************************************)
ResolveTag(c) ==
    /\ pc[c] = "resolve"
    /\ \E t \in job[c].tags :
          IF tag[t] = None
             THEN Finish(c)
             ELSE /\ job' = [job EXCEPT ![c].digest = tag[t]]
                  /\ Goto(c, "readContent")
    /\ UNCHANGED <<disk, database, locks, budget>>

ReadFile(c, f) ==
    /\ pc[c] = IF f = "content" THEN "readContent" ELSE "readMediaType"
    /\ LET found == file[job[c].digest][f] IN
          IF found = "absent" \/ (f = "mediaType" /\ job[c].op = "head")
             THEN Finish(c)
             ELSE /\ job' = [job EXCEPT ![c].ok = @ /\ found = "whole"]
                  /\ Goto(c, IF f = "content" THEN "readMediaType" ELSE "mark")
    /\ UNCHANGED <<disk, database, locks, budget>>

MarkRepositoryPulled(c) ==
    /\ pc[c] = "mark"
    /\ repo' = TRUE
    /\ Finish(c)
    /\ UNCHANGED <<disk, row, policy, locks, budget>>

-----------------------------------------------------------------------------
(***************************************************************************)
(* CollectGarbage, run by the timer of runGarbageCollector.                *)
(***************************************************************************)
StartCollection ==
    /\ pc[Collector] = "idle"
    /\ Goto(Collector, "flock")
    /\ job' = [job EXCEPT ![Collector].op = "collect"]
    /\ UNCHANGED <<disk, database, locks, budget>>

\* referencedManifestDigests reads every file of tags/, the .tag-* files too.
Referenced == {tag[t] : t \in Tags} \cup temps

ScanReferences ==
    /\ pc[Collector] = "scan"
    /\ job' = [job EXCEPT ![Collector].victims = {d \in Digests : dir[d] # "absent"} \ Referenced]
    /\ Goto(Collector, "sweep")
    /\ UNCHANGED <<disk, database, locks, budget>>

ExpiredFaulty(d) == dir[d] = "fresh"
Expired(d) == dir[d] = "aged"

Sweep ==
    /\ pc[Collector] = "sweep"
    /\ \/ \E d \in job[Collector].victims :
             /\ job' = [job EXCEPT ![Collector] = [@ EXCEPT !.victims = job[Collector].victims \ {d}, !.digest = d]]
             /\ IF Expired(d) THEN Goto(Collector, "removeAll") ELSE UNCHANGED pc
       \/ /\ job[Collector].victims = {}
          /\ Goto(Collector, "release")
          /\ UNCHANGED job
    /\ UNCHANGED <<disk, database, locks, budget>>

\* The grace period of d's last push ends: its mtime, never later, is past the
\* cutoff, which a collection computes once, when it starts.
Age(d) ==
    /\ pc[Collector] = "idle"
    /\ dir[d] # "absent"
    /\ dir[d] = "fresh" \/ d \in recent
    /\ dir' = [dir EXCEPT ![d] = "aged"]
    /\ recent' = recent \ {d}
    /\ UNCHANGED <<file, tag, temps, database, locks, pc, job, budget>>

-----------------------------------------------------------------------------
(***************************************************************************)
(* Failing system calls and transactions (a full disk, a cancelled request *)
(* context), and a crash of the process with its restart.                  *)
(***************************************************************************)
CountFault ==
    /\ faults < MaxFaults
    /\ faults' = faults + 1
    /\ UNCHANGED crashes

LockedStepFails(p) ==
    /\ pc[p] \in AbortPoints
    /\ CountFault
    /\ FinishFailed(p)
    /\ UNCHANGED <<disk, database, locks>>

LinkStepFails(c) ==
    /\ pc[c] \in LinkPoints
    /\ CountFault
    /\ StartRollback(c)
    /\ UNCHANGED <<disk, database, locks>>

\* rollbackManifestTags notes the error and goes on with the next tag.
RollbackStepFails(c) ==
    /\ pc[c] = "rollback"
    /\ CountFault
    /\ \E t \in job[c].todo : job' = [job EXCEPT ![c].todo = @ \ {t}]
    /\ UNCHANGED <<disk, database, locks, pc>>

UnlockedStepFails(c) ==
    /\ pc[c] \in Unlocked \ {"nextVictim"}
    /\ CountFault
    /\ Finish(c)
    /\ UNCHANGED <<disk, database, locks>>

FlockFails(p) ==
    /\ pc[p] = "flock"
    /\ CountFault
    /\ tagMu' = MuAfterRelease(p)
    /\ Finish(p)
    /\ UNCHANGED <<disk, database, flock>>

\* The .tag-* file a crash may leave: one exists just before the rename, with the
\* tag's new digest or, in the rollback, with its prior one.
MayBeTemp(d) ==
    \E c \in Clients :
        \/ pc[c] = "rename" /\ job[c].digest = d
        \/ pc[c] = "rollback" /\ \E t \in job[c].todo : job[c].prior[t] = d

LeftTemps == {{}} \cup {{d} : d \in {e \in Digests : MayBeTemp(e)}}

Crash ==
    /\ crashes < MaxCrashes
    /\ crashes' = crashes + 1
    /\ \E left \in LeftTemps : temps' = temps \cup left
    /\ tagMu' = None
    /\ flock' = None
    /\ pc' = [p \in Threads |-> "idle"]
    /\ job' = [p \in Threads |-> IdleJob]
    /\ UNCHANGED <<dir, file, tag, recent, database, faults>>

-----------------------------------------------------------------------------
ManifestStep(c) ==
    \/ MakeManifestDir(c) \/ ReadManifest(c)
    \/ \E f \in Files : OpenFile(c, f) \/ WriteFile(c, f)

TagStep(c) ==
    \/ CheckPolicy(c) \/ StatAndWriteTemp(c) \/ RenameTag(c) \/ UpsertTags(c)
    \/ RollbackTag(c) \/ RollbackDone(c) \/ ReadBackTag(c)

DeleteStep(c) ==
    \/ StatManifest(c) \/ RemoveDirectory(c) \/ Untag(c)
    \/ RemoveTagFile(c) \/ ForgetReference(c)
    \/ \E f \in Files : RemoveFile(c, f)

PolicyStep(c) == CheckRepository(c) \/ WritePolicy(c)

RepositoryDeleteStep(c) == ListTags(c) \/ NextVictim(c) \/ DropRepository(c)

PullStep(c) ==
    \/ ResolveTag(c) \/ MarkRepositoryPulled(c)
    \/ \E f \in Files : ReadFile(c, f)

ClientStep(c) ==
    \/ AcquireTagMu(c) \/ AcquireFlock(c) \/ Release(c)
    \/ ManifestStep(c) \/ TagStep(c) \/ DeleteStep(c) \/ PolicyStep(c)
    \/ RepositoryDeleteStep(c) \/ PullStep(c)

CollectorStep ==
    \/ StartCollection \/ ScanReferences \/ Sweep
    \/ AcquireFlock(Collector) \/ Release(Collector) \/ RemoveDirectory(Collector)
    \/ \E f \in Files : RemoveFile(Collector, f)

Fault ==
    \/ \E p \in Threads : LockedStepFails(p) \/ FlockFails(p)
    \/ \E c \in Clients : LinkStepFails(c) \/ RollbackStepFails(c) \/ UnlockedStepFails(c)

Next ==
    \/ \E c \in Clients : Receive(c) \/ ClientStep(c)
    \/ CollectorStep
    \/ \E d \in Digests : Age(d)
    \/ Fault
    \/ Crash

Spec == Init /\ [][Next]_vars

(***************************************************************************)
(* The scheduler runs every goroutine; sync.Mutex hands the lock to a      *)
(* waiter that has waited for a millisecond, and the collector's timer     *)
(* leaves the flock free for an interval after each collection, so a       *)
(* waiter gets either lock when it is free again and again.  Time passes   *)
(* between collections and the timer fires.  Nothing makes a client send a *)
(* request.                                                                *)
(***************************************************************************)
Fairness ==
    /\ \A c \in Clients : SF_vars(ClientStep(c))
    /\ SF_vars(CollectorStep)
    /\ \A d \in Digests : SF_vars(Age(d))

FairSpec == Spec /\ Fairness

-----------------------------------------------------------------------------
(***************************************************************************)
(* Properties.                                                             *)
(***************************************************************************)
Job == [op : Operations, digest : Digests \cup {None}, tags : SUBSET Tags,
        policy : Policies, todo : SUBSET Tags, prior : [Tags -> Digests \cup {None}],
        victims : SUBSET Digests, ok : BOOLEAN]

Steps == Critical \cup Unlocked \cup {"idle", "tagMu", "flock"}

DiskTypeOK ==
    /\ dir \in [Digests -> {"absent", "fresh", "aged"}]
    /\ file \in [Digests -> [Files -> {"absent", "torn", "whole"}]]
    /\ tag \in [Tags -> Digests \cup {None}]
    /\ temps \subseteq Digests
    /\ recent \subseteq Digests
    /\ \A d \in Digests : dir[d] = "absent" => \A f \in Files : file[d][f] = "absent"

DatabaseTypeOK ==
    /\ repo \in BOOLEAN
    /\ row \in [Tags -> Digests \cup {None}]
    /\ policy \in Policies \cup {None}
    /\ \A t \in Tags : row[t] # None => repo

ThreadTypeOK ==
    /\ tagMu \in Clients \cup {None}
    /\ flock \in Threads \cup {None}
    /\ pc \in [Threads -> Steps]
    /\ job \in [Threads -> Job]
    /\ faults \in 0..MaxFaults
    /\ crashes \in 0..MaxCrashes

(* Every variable has its type; a file lies in an existing directory and a row
   of repository_tags refers to an existing repository, as the file system and
   the foreign key of db/schema.go demand. *)
TypeOK == DiskTypeOK /\ DatabaseTypeOK /\ ThreadTypeOK

(* withTagMutationLock: a thread is inside a callback exactly while it holds the
   flock, a client holds tagMu exactly from before it asks for the flock until it
   has returned it, and so no two threads are ever inside together. *)
LocksGuardCallbacks ==
    /\ \A p \in Threads : flock = p <=> pc[p] \in Critical
    /\ \A c \in Clients : tagMu = c <=> pc[c] \in Critical \cup {"flock"}

(* CollectGarbage reads the tags once and deletes afterwards: nothing it is
   deleting, or still has on its list, has become the target of a tag. *)
CollectorSparesReferenced ==
    pc[Collector] \in {"sweep", "removeAll"} =>
        /\ job[Collector].victims \cap Referenced = {}
        /\ pc[Collector] = "removeAll" => job[Collector].digest \notin Referenced

(* README.md:226: only manifests older than the grace period are collected. *)
CollectorHonoursGrace ==
    pc[Collector] = "removeAll" => job[Collector].digest \notin recent

(* Tag policies are overwrite-only: a tag that exists and is protected at the
   time is never moved to another digest, by a push, a link or a rollback. *)
ProtectedTagsStay ==
    [][\A t \in Tags :
          tag[t] # None /\ tag'[t] \notin {None, tag[t]} => t \notin EffectivePolicy]_vars

(* A push renames a tag to its manifest only when both files of it are written,
   whatever failed or crashed before and whatever the collector does. *)
PublishedManifestsAreWhole ==
    \A c \in Clients : pc[c] = "rename" /\ job[c].op = "put" =>
        \A f \in Files : file[job[c].digest][f] = "whole"

(* Without failures, between two mutations every tag leads to a manifest that can
   be served. *)
TaggedManifestsAreWhole ==
    tagMu = None /\ faults = 0 /\ crashes = 0 =>
        \A t \in Tags : tag[t] # None =>
            /\ dir[tag[t]] # "absent"
            /\ \A f \in Files : file[tag[t]][f] = "whole"

(* Without failures, between two mutations the rows of repository_tags, which the
   dashboard shows, are the tags on disk. *)
ReadModelAgrees ==
    tagMu = None /\ faults = 0 /\ crashes = 0 => row = tag

(* One failing step of a push or link, the upsert included, leaves disk and
   database in agreement, thanks to the rollback. *)
PushFailureKeepsAgreement ==
    tagMu = None /\ faults <= 1 /\ crashes = 0 => row = tag

(* ... and leaves the tags it named where it found them. *)
RollbackRestoresTags ==
    \A c \in Clients :
        pc[c] = "rollback" /\ job[c].todo = {} /\ faults <= 1 /\ crashes = 0 =>
            \A t \in job[c].tags : tag[t] = job[c].prior[t]

(* A push or link that is about to be acknowledged is visible: its tags have its
   digest on disk and in the database, and the manifest is there. *)
AcknowledgedPushIsVisible ==
    \A c \in Clients :
        pc[c] = "release" /\ job[c].op \in {"put", "addTag"} /\ job[c].ok =>
            /\ dir[job[c].digest] # "absent"
            /\ \A t \in job[c].tags : tag[t] = job[c].digest /\ row[t] = job[c].digest

(* db/store_test.go:194-200: the policy of a deleted repository is reset, so that
   a repository created later under its name starts mutable. *)
PolicyHasRepository == policy # None => repo

(* Every request is answered: nobody waits forever for tagMu or the flock. *)
RequestsEnd == \A c \in Clients : pc[c] # "idle" ~> pc[c] = "idle"

(* README.md:226: an untagged manifest past its grace period is removed. *)
GarbageIsCollected ==
    \A d \in Digests : []<>(dir[d] # "aged" \/ \E t \in Tags : tag[t] = d)

=============================================================================
