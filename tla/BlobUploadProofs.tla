-------------------------- MODULE BlobUploadProofs --------------------------
(***************************************************************************)
(* Proofs about BlobUpload, for any sets of clients, sessions and          *)
(* requests, any limits, and any number of faults and crashes.             *)
(*                                                                         *)
(* A thread that works on a session holds the mutex of its path: what it   *)
(* has found in the session stays true until it releases it, and a step    *)
(* (Local) writes to no other session.  Each invariant follows from what   *)
(* such a step does to its own session.                                    *)
(***************************************************************************)
EXTENDS BlobUpload, SequenceTheorems, FiniteSetTheorems, TLAPS

\* The steps of a thread that holds the mutex of its session.
Owns == {"mu", "count", "create", "check", "copy", "truncate", "remove", "hash", "rename",
         "link", "release", "inspect", "expire", "passed"}

OfCleaner == {"visit", "inspect", "expire", "passed"}
Away == {"idle", "visit"}

AllRanged == \A r \in Requests : r.op \in {"patch", "put"} => r.ranged

\* What is known of the job j of thread p whose next step is "step".
Knows(p, step, j) ==
    /\ step \in Steps /\ j \in Job
    /\ step \notin Away => j.session \in Sessions
    /\ p = Cleaner => step \in OfCleaner \cup {"idle", "lock"} /\ j.op \in {"none", "clean"}
    /\ p = Cleaner => (step \notin Away => j.op = "clean")
    /\ p # Cleaner => step \notin OfCleaner /\ j.op # "clean"
    /\ p # Cleaner => (step # "idle" => j.op # "none")
    /\ j.op \in {"patch", "put"} /\ AllRanged => j.ranged
    /\ j.op = "monolithic" => j.from = 0 /\ j.digest # None
    /\ step \in {"mu", "count", "create"} => Creates(j)
    /\ step = "check" => j.op \in {"patch", "put"}
    /\ step \in {"copy", "truncate"} => j.op \in {"monolithic", "patch", "put"}
    /\ step = "remove" => j.op \in {"monolithic", "cancel"}
    /\ step \in {"hash", "rename", "link"} => j.digest # None
    /\ step \in {"lock", "mu", "count", "create", "check"} => j.size = 0 /\ j.written = 0

\* What a thread with the job j has found in its session, whose content is f, whose
\* acknowledged bytes are a, and which is old or not.
Found(step, j, f, a, old) ==
    /\ step \in {"copy", "truncate", "hash", "rename"} => f # None
    /\ step \in {"copy", "truncate"} =>
          /\ Len(f) = j.size + j.written
          /\ Len(a) <= j.size
          /\ j.op = "monolithic" \/ AllRanged => j.from = j.size
    /\ step \in {"hash", "rename"} => Len(f) <= MaxUploadBytes
    /\ step = "rename" => f = j.digest
    /\ step \in {"copy", "truncate", "remove"} /\ j.op = "monolithic" => a = <<>>
    /\ step = "expire" => old

\* What every session is like.
Exact(f) == \A i \in 1..Len(f) : f[i] = i

Sound(f, a, old) ==
    /\ f \in Contents \cup {None} /\ a \in Contents
    /\ f # None => Len(f) <= MaxUploadBytes + 1
    /\ a # <<>> => f # None /\ IsPrefixOf(a, f)
    /\ old => f # None
    /\ AllRanged /\ f # None => Exact(f)

\* Whoever is to create a session.
Creating(p) == pc[p] \in {"lock", "mu", "count", "create"} /\ Creates(job[p])

Control ==
    /\ pc \in [Threads -> Steps]
    /\ job \in [Threads -> Job]
    /\ \A p \in Threads : Knows(p, pc[p], job[p])

Disk ==
    /\ file \in [Sessions -> Contents \cup {None}]
    /\ acked \in [Sessions -> Contents]
    /\ idle \subseteq Sessions
    /\ \A s \in Sessions : Sound(file[s], acked[s], s \in idle)

Locked ==
    /\ lock \in [Sessions -> Threads \cup {None}]
    /\ \A p \in Threads : pc[p] \in Owns =>
          LET s == job[p].session IN
          lock[s] = p /\ Found(pc[p], job[p], file[s], acked[s], s \in idle)

Ids ==
    /\ born \subseteq Sessions
    /\ Active \subseteq born
    /\ walk \subseteq born
    /\ \A p \in Threads : pc[p] \notin Away => job[p].session \in born
    /\ \A p \in Threads : Creating(p) => file[job[p].session] = None
    /\ \A p, q \in Threads :
          Creating(p) /\ Creating(q) /\ job[p].session = job[q].session => p = q

Store ==
    /\ blob \subseteq [digest : Contents, content : Contents]
    /\ link \subseteq Contents
    /\ StoredBlobsAreWhole

Limit ==
    /\ uploadMu \in Clients \cup {None}
    /\ \A p \in Threads : pc[p] \in {"count", "create"} => uploadMu = p
    /\ \A p \in Threads : pc[p] = "create" => Cardinality(Active) < MaxUploadSessions
    /\ SessionLimit

Budget == faults \in 0..MaxFaults /\ crashes \in 0..MaxCrashes

Base == Control /\ Disk /\ Locked /\ Ids

-----------------------------------------------------------------------------
(***************************************************************************)
(* Contents.                                                               *)
(***************************************************************************)
(* A prefix has its bytes at the same places. *)
LEMMA PrefixBytes ==
    ASSUME NEW a \in Contents, NEW b \in Contents
    PROVE  IsPrefixOf(a, b) <=> Len(a) <= Len(b) /\ \A i \in 1..Len(a) : a[i] = b[i]
<1> USE DEF Contents
<1>1. SUFFICES ASSUME Len(a) <= Len(b)
               PROVE  SubSeq(b, 1, Len(a)) = a <=> \A i \in 1..Len(a) : a[i] = b[i]
  BY DEF IsPrefixOf
<1>2. Len(a) \in Nat /\ Len(b) \in Nat BY LenProperties
<1>3. \A i \in 1..Len(a) : b[i] \in Nat BY <1>1, <1>2, ElementOfSeq
<1> DEFINE c == SubSeq(b, 1, Len(a))
<1>4. /\ c \in Seq(Nat) /\ Len(c) = Len(a)
      /\ \A i \in 1..Len(a) : c[i] = b[i]
  BY <1>2, <1>3, SubSeqProperties
<1>5. ASSUME \A i \in 1..Len(a) : a[i] = b[i] PROVE c = a
  BY <1>4, <1>5, SeqEqual
<1>. QED BY <1>4, <1>5

(* One byte more. *)
LEMMA AppendedByte ==
    ASSUME NEW f \in Contents, NEW n \in Nat
    PROVE  /\ Append(f, n) \in Contents
           /\ Len(Append(f, n)) = Len(f) + 1
           /\ \A a \in Contents : IsPrefixOf(a, f) => IsPrefixOf(a, Append(f, n))
           /\ Exact(f) /\ n = Len(f) + 1 => Exact(Append(f, n))
<1> USE DEF Contents
<1> DEFINE g == Append(f, n)
<1>1. /\ g \in Seq(Nat) /\ Len(g) = Len(f) + 1 /\ g[Len(f) + 1] = n
      /\ \A i \in 1..Len(f) : g[i] = f[i]
  BY AppendProperties
<1>2. Len(f) \in Nat BY LenProperties
<1>3. ASSUME NEW a \in Seq(Nat), IsPrefixOf(a, f) PROVE IsPrefixOf(a, g)
  <2>1. Len(a) \in Nat BY LenProperties
  <2>2. Len(a) <= Len(f) /\ \A i \in 1..Len(a) : a[i] = f[i] BY <1>3, PrefixBytes
  <2>3. Len(a) <= Len(g) /\ \A i \in 1..Len(a) : a[i] = g[i] BY <1>1, <1>2, <2>1, <2>2
  <2>. QED BY <1>1, <2>3, PrefixBytes
<1>4. Exact(f) /\ n = Len(f) + 1 => Exact(g)
  BY <1>1, <1>2 DEF Exact
<1>. QED BY <1>1, <1>3, <1>4

(* What a truncation leaves. *)
LEMMA TruncatedContent ==
    ASSUME NEW f \in Contents, NEW k \in Nat, k <= Len(f)
    PROVE  /\ SubSeq(f, 1, k) \in Contents
           /\ Len(SubSeq(f, 1, k)) = k
           /\ \A a \in Contents :
                 IsPrefixOf(a, f) /\ Len(a) <= k => IsPrefixOf(a, SubSeq(f, 1, k))
           /\ Exact(f) => Exact(SubSeq(f, 1, k))
<1> USE DEF Contents
<1> DEFINE g == SubSeq(f, 1, k)
<1>1. Len(f) \in Nat BY LenProperties
<1>2. \A i \in 1..k : f[i] \in Nat BY <1>1, ElementOfSeq
<1>3. g \in Seq(Nat) /\ Len(g) = k /\ \A i \in 1..k : g[i] = f[i]
  BY <1>2, SubSeqProperties
<1>4. ASSUME NEW a \in Seq(Nat), IsPrefixOf(a, f), Len(a) <= k PROVE IsPrefixOf(a, g)
  <2>1. Len(a) \in Nat BY LenProperties
  <2>2. \A i \in 1..Len(a) : a[i] = f[i] BY <1>4, PrefixBytes
  <2>3. Len(a) <= Len(g) /\ \A i \in 1..Len(a) : a[i] = g[i] BY <1>3, <1>4, <2>1, <2>2
  <2>. QED BY <1>3, <2>3, PrefixBytes
<1>5. Exact(f) => Exact(g) BY <1>1, <1>3 DEF Exact
<1>. QED BY <1>3, <1>4, <1>5

(* The empty content, and every content as a prefix of itself. *)
LEMMA EmptyContent ==
    /\ <<>> \in Contents /\ Len(<<>>) = 0 /\ Exact(<<>>)
    /\ \A a \in Contents : Len(a) \in Nat /\ IsPrefixOf(a, a)
<1>1. <<>> \in Seq(Nat) /\ Len(<<>>) = 0 BY EmptySeq
<1>2. Exact(<<>>) BY <1>1 DEF Exact
<1>3. ASSUME NEW a \in Contents PROVE Len(a) \in Nat /\ IsPrefixOf(a, a)
  <2>1. Len(a) \in Nat BY <1>3, LenProperties DEF Contents
  <2>. QED BY <2>1, <1>3, PrefixBytes
<1>. QED BY <1>1, <1>2, <1>3 DEF Contents

-----------------------------------------------------------------------------
(***************************************************************************)
(* Steps on one's own session.                                             *)
(***************************************************************************)
\* Only thread p moves, and control knows of it what it should.
Turn(p) ==
    /\ pc' \in [Threads -> Steps] /\ job' \in [Threads -> Job]
    /\ \A q \in Threads \ {p} : pc'[q] = pc[q] /\ job'[q] = job[q]
    /\ Knows(p, pc'[p], job'[p])

\* Where p goes on with its session, and what it has found there then.
Stays(p) ==
    LET s == job[p].session IN
    /\ pc'[p] \in Owns
    /\ job'[p].session = s
    /\ lock' = lock
    /\ Found(pc'[p], job'[p], file'[s], acked'[s], s \in idle')
    /\ Creating(p)' => Creating(p) /\ file'[s] = None

Leaves(p) ==
    /\ pc'[p] \in Away
    /\ lock' = [lock EXCEPT ![job[p].session] = None]

Local(p) ==
    LET s == job[p].session IN
    /\ pc[p] \in Owns
    /\ Turn(p)
    /\ Stays(p) \/ Leaves(p)
    /\ file' = [file EXCEPT ![s] = file'[s]]
    /\ acked' = [acked EXCEPT ![s] = acked'[s]]
    /\ idle' = idle \/ idle' = idle \ {s}
    /\ Sound(file'[s], acked'[s], s \in idle')
    /\ file'[s] # None => file[s] # None \/ pc[p] = "create"
    /\ born' = born /\ walk' \subseteq walk

(* What the owner of a session knows. *)
LEMMA OwnerKnows ==
    ASSUME Base, NEW p \in Threads, pc[p] \in Owns
    PROVE  LET s == job[p].session IN
           /\ s \in Sessions /\ s \in born
           /\ job[p] \in Job /\ Knows(p, pc[p], job[p])
           /\ lock[s] = p
           /\ Found(pc[p], job[p], file[s], acked[s], s \in idle)
           /\ Sound(file[s], acked[s], s \in idle)
<1>1. pc[p] \notin Away BY DEF Owns, Away
<1>2. Knows(p, pc[p], job[p]) BY DEF Base, Control
<1>3. job[p].session \in Sessions BY <1>1, <1>2 DEF Knows
<1>. QED BY <1>1, <1>2, <1>3 DEF Base, Control, Disk, Locked, Ids

(* A step that changes nothing on the disk is local when it knows and has found what
   it should. *)
LEMMA QuietIsLocal ==
    ASSUME Base, NEW p \in Threads, pc[p] \in Owns, Turn(p), Stays(p) \/ Leaves(p),
           UNCHANGED <<file, idle, acked, born>>, walk' \subseteq walk
    PROVE  Local(p)
BY OwnerKnows DEF Local, Base, Disk

(* How such a step is usually made: to another step with the same job. *)
LEMMA GotoTurns ==
    ASSUME Base, NEW p \in Threads, NEW step, Goto(p, step), Knows(p, step, job[p]),
           UNCHANGED job
    PROVE  Turn(p) /\ pc'[p] = step /\ job'[p] = job[p]
BY DEF Goto, Turn, Base, Control, Knows

(* The two ways out. *)
LEMMA ReleaseKnows ==
    ASSUME Base, NEW c \in Clients, Cleaner \notin Clients, pc[c] \in Owns
    PROVE  Knows(c, "release", job[c])
<1>1. c \in Threads /\ c # Cleaner BY DEF Threads
<1>. QED
  BY <1>1, OwnerKnows DEF Knows, OfCleaner, Away, Owns, Steps

(* POST: before and after it counts. *)
LEMMA MuLocal ==
    ASSUME ConstantsAssumption, Base, NEW c \in Clients, LockMu(c) \/ CountUploads(c)
    PROVE  Local(c)
<1>1. c \in Threads /\ c # Cleaner /\ pc[c] \in Owns
  BY DEF ConstantsAssumption, Threads, LockMu, CountUploads, Owns
<1>2. Knows(c, pc[c], job[c]) BY <1>1, OwnerKnows
<1>3. ASSUME NEW step \in {"count", "create", "release"}, Goto(c, step), UNCHANGED job,
             pc[c] \in {"mu", "count"}, UNCHANGED <<file, idle, acked, born, lock>>, walk' = walk
      PROVE  Local(c)
  <2>1. Knows(c, step, job[c])
    BY <1>1, <1>2, <1>3 DEF Knows, OfCleaner, Away, Steps
  <2>2. Turn(c) /\ pc'[c] = step /\ job'[c] = job[c] BY <1>1, <1>3, <2>1, GotoTurns
  <2>3. Creating(c) /\ file[job[c].session] = None
    BY <1>1, <1>2, <1>3 DEF Creating, Knows, Base, Ids
  <2>4. Stays(c) BY <1>3, <2>2, <2>3 DEF Stays, Found, Owns
  <2>. QED BY <1>1, <1>3, <2>2, <2>4, QuietIsLocal
<1>. QED BY <1>3 DEF LockMu, CountUploads, storage

(* The new session is empty. *)
LEMMA CreateLocal ==
    ASSUME ConstantsAssumption, Base, NEW c \in Clients, CreateFile(c)
    PROVE  Local(c)
<1> DEFINE s == job[c].session
<1>1. c \in Threads /\ c # Cleaner /\ pc[c] \in Owns
  BY DEF ConstantsAssumption, Threads, CreateFile, Owns
<1>2. Knows(c, "create", job[c]) /\ s \in Sessions /\ Sound(file[s], acked[s], s \in idle)
  BY <1>1, OwnerKnows DEF CreateFile
<1>3. file[s] = None BY <1>1, <1>2 DEF CreateFile, Creating, Knows, Base, Ids
<1>4. acked[s] = <<>> /\ s \notin idle BY <1>2, <1>3 DEF Sound
<1>5. file'[s] = <<>> /\ file' = [file EXCEPT ![s] = <<>>] /\ acked' = acked /\ idle' = idle
  BY <1>2 DEF CreateFile, Base, Disk
<1> DEFINE step == IF job[c].op = "monolithic" THEN "copy" ELSE "release"
<1>6. Knows(c, step, job[c])
  BY <1>1, <1>2 DEF Knows, OfCleaner, Away, Steps
<1>7. Turn(c) /\ pc'[c] = step /\ job'[c] = job[c]
  BY <1>1, <1>6, GotoTurns DEF CreateFile
<1>8. Sound(file'[s], acked'[s], s \in idle')
  BY <1>4, <1>5, EmptyContent DEF Sound, ConstantsAssumption, Exact, IsPrefixOf
<1>9. Found(step, job[c], file'[s], acked'[s], s \in idle')
  <2>1. file'[s] # None BY <1>5, EmptyContent DEF ConstantsAssumption
  <2>2. step = "copy" => job[c].op = "monolithic" /\ job[c].from = 0 BY <1>2 DEF Knows
  <2>3. job[c].size = 0 /\ job[c].written = 0 BY <1>2 DEF Knows
  <2>4. acked'[s] = <<>> BY <1>4, <1>5
  <2>. QED BY <1>5, <2>1, <2>2, <2>3, <2>4, EmptyContent DEF Found
<1>10. Stays(c)
  <2>1. ~Creating(c)' BY <1>7 DEF Creating
  <2>. QED BY <1>7, <1>9, <2>1 DEF Stays, CreateFile, Owns
<1>. QED BY <1>1, <1>5, <1>7, <1>8, <1>10 DEF Local, CreateFile, Base, Disk

(* A chunk that is accepted begins where the session ends. *)
LEMMA CheckLocal ==
    ASSUME ConstantsAssumption, Base, NEW c \in Clients, CheckChunk(c)
    PROVE  Local(c)
<1> DEFINE s == job[c].session
<1>1. c \in Threads /\ c # Cleaner /\ pc[c] \in Owns
  BY DEF ConstantsAssumption, Threads, CheckChunk, Owns
<1>2. /\ Knows(c, "check", job[c]) /\ s \in Sessions
      /\ Sound(file[s], acked[s], s \in idle) /\ job[c] \in Job
  BY <1>1, OwnerKnows DEF CheckChunk
<1>3. CASE Goto(c, "release") /\ UNCHANGED job
  <2>1. Turn(c) /\ pc'[c] = "release" /\ job'[c] = job[c]
    BY <1>1, <1>3, ReleaseKnows, GotoTurns DEF ConstantsAssumption
  <2>2. Stays(c) BY <2>1 DEF Stays, Found, Owns, Creating, CheckChunk
  <2>. QED BY <1>1, <2>1, <2>2, QuietIsLocal DEF CheckChunk, storage
<1>4. CASE /\ Accepts(job[c]) /\ Goto(c, "copy")
           /\ job' = [job EXCEPT ![c].size = Len(file[s])]
  <2>1. /\ file[s] # None /\ file[s] \in Contents
        /\ InOrder(job[c], Len(file[s])) /\ Len(file[s]) <= MaxUploadBytes
    BY <1>2, <1>4 DEF Accepts, Sound
  <2>2. Len(file[s]) \in 0..MaxUploadBytes
    BY <2>1, EmptyContent DEF ConstantsAssumption
  <2> DEFINE k == [job[c] EXCEPT !.size = Len(file[s])]
  <2>3. /\ k \in Job /\ k.op = job[c].op /\ k.session = s /\ k.digest = job[c].digest
        /\ k.from = job[c].from /\ k.ranged = job[c].ranged /\ k.written = job[c].written
        /\ k.size = Len(file[s])
    BY <1>2, <2>2 DEF Job
  <2>4. job' = [job EXCEPT ![c] = k] /\ job'[c] = k BY <1>1, <1>4 DEF Base, Control
  <2>5. Knows(c, "copy", k)
    BY <1>1, <1>2, <2>3 DEF Knows, OfCleaner, Away, Steps
  <2>6. Turn(c) /\ pc'[c] = "copy"
    BY <1>1, <1>4, <2>3, <2>4, <2>5 DEF Turn, Goto, Base, Control, Steps
  <2>7. Len(acked[s]) <= Len(file[s])
    BY <1>2, <2>1, <2>2, EmptyContent DEF Sound, IsPrefixOf
  <2>8. k.op = "monolithic" \/ AllRanged => k.from = k.size
    BY <1>2, <2>1, <2>3 DEF Knows, InOrder
  <2>9. Found("copy", k, file[s], acked[s], s \in idle)
    BY <1>2, <2>1, <2>2, <2>3, <2>7, <2>8 DEF Found, Knows
  <2>10. Stays(c)
    BY <2>3, <2>4, <2>6, <2>9 DEF Stays, Owns, Creating, CheckChunk, storage
  <2>. QED BY <1>1, <2>6, <2>10, QuietIsLocal DEF CheckChunk, storage
<1>. QED BY <1>3, <1>4 DEF CheckChunk

(* One more byte, the next one of the body. *)
LEMMA CopyLocal ==
    ASSUME ConstantsAssumption, Base, NEW c \in Clients, CopyByte(c)
    PROVE  Local(c)
<1> DEFINE s == job[c].session
<1> DEFINE n == job[c].from + job[c].written + 1
<1>1. c \in Threads /\ c # Cleaner /\ pc[c] \in Owns
  BY DEF ConstantsAssumption, Threads, CopyByte, Owns
<1>2. /\ Knows(c, "copy", job[c]) /\ s \in Sessions /\ job[c] \in Job
      /\ Sound(file[s], acked[s], s \in idle)
      /\ Found("copy", job[c], file[s], acked[s], s \in idle)
  BY <1>1, OwnerKnows DEF CopyByte
<1>3. /\ file[s] \in Contents /\ n \in Nat /\ Len(file[s]) = job[c].size + job[c].written
      /\ Len(file[s]) \in Nat
  BY <1>2, EmptyContent DEF Found, Sound, Job
<1>4. job[c].written < Limited(job[c]) BY DEF CopyByte
<1>5. job[c].size + job[c].written + 1 <= MaxUploadBytes + 1
  BY <1>2, <1>4 DEF Limited, Job, ConstantsAssumption
<1>6. /\ file' = [file EXCEPT ![s] = Append(file[s], n)] /\ file'[s] = Append(file[s], n)
      /\ acked' = acked /\ idle' = idle \ {s}
  BY <1>2 DEF CopyByte, Base, Disk
<1> DEFINE k == [job[c] EXCEPT !.written = job[c].written + 1]
<1>7. /\ k \in Job /\ k.op = job[c].op /\ k.session = s /\ k.digest = job[c].digest
      /\ k.from = job[c].from /\ k.ranged = job[c].ranged /\ k.size = job[c].size
      /\ k.written = job[c].written + 1
  BY <1>2, <1>5 DEF Job, ConstantsAssumption
<1>8. job' = [job EXCEPT ![c] = k] /\ job'[c] = k /\ pc' = pc
  BY <1>1 DEF CopyByte, Base, Control
<1>9. Turn(c)
  <2>1. Knows(c, "copy", k) BY <1>2, <1>7 DEF Knows
  <2>. QED BY <1>1, <1>7, <1>8, <2>1 DEF Turn, CopyByte, Base, Control
<1>10. AllRanged => n = Len(file[s]) + 1
  BY <1>2, <1>3 DEF Found, Job
<1>11. /\ Append(file[s], n) \in Contents /\ Len(Append(file[s], n)) = Len(file[s]) + 1
       /\ IsPrefixOf(acked[s], file[s]) => IsPrefixOf(acked[s], Append(file[s], n))
       /\ Exact(file[s]) /\ n = Len(file[s]) + 1 => Exact(Append(file[s], n))
  BY <1>2, <1>3, AppendedByte DEF Sound
<1>12. Sound(file'[s], acked'[s], s \in idle')
  BY <1>2, <1>3, <1>5, <1>6, <1>10, <1>11 DEF Sound, ConstantsAssumption
<1>13. Found("copy", k, file'[s], acked'[s], s \in idle')
  <2>1. file'[s] # None BY <1>6, <1>11 DEF ConstantsAssumption
  <2>2. Len(file'[s]) = k.size + k.written
    <3>1. job[c].size \in Nat /\ job[c].written \in Nat
      BY <1>2 DEF Job, ConstantsAssumption
    <3>2. Len(file'[s]) = job[c].size + job[c].written + 1 BY <1>3, <1>6, <1>11
    <3>. QED BY <1>7, <3>1, <3>2
  <2>3. /\ Len(acked'[s]) <= k.size
        /\ k.op = "monolithic" \/ AllRanged => k.from = k.size
        /\ k.op = "monolithic" => acked'[s] = <<>>
    BY <1>2, <1>6, <1>7 DEF Found
  <2>. QED BY <2>1, <2>2, <2>3 DEF Found
<1>14. Stays(c)
  BY <1>7, <1>8, <1>13 DEF Stays, Owns, Creating, CopyByte
<1>. QED BY <1>1, <1>6, <1>9, <1>12, <1>14 DEF Local, CopyByte, Base, Disk, Found, Sound

(* The copy ends with all of the body, or with the byte that is too much. *)
LEMMA EndCopyLocal ==
    ASSUME ConstantsAssumption, Base, NEW c \in Clients, EndCopy(c)
    PROVE  Local(c)
<1> DEFINE s == job[c].session
<1>1. c \in Threads /\ c # Cleaner /\ pc[c] \in Owns
  BY DEF ConstantsAssumption, Threads, EndCopy, Owns
<1>2. /\ Knows(c, "copy", job[c]) /\ s \in Sessions /\ job[c] \in Job
      /\ Sound(file[s], acked[s], s \in idle)
      /\ Found("copy", job[c], file[s], acked[s], s \in idle)
  BY <1>1, OwnerKnows DEF EndCopy
<1>3. /\ file[s] \in Contents /\ file[s] # None /\ Len(file[s]) = job[c].size + job[c].written
      /\ IsPrefixOf(file[s], file[s])
  BY <1>2, EmptyContent DEF Found, Sound
<1>4. file' = file /\ idle' = idle /\ born' = born /\ walk' = walk /\ lock' = lock /\ job' = job
  BY DEF EndCopy
<1>5. CASE TooLarge(job[c]) /\ Goto(c, "truncate") /\ UNCHANGED acked
  <2>1. Knows(c, "truncate", job[c]) BY <1>2 DEF Knows, OfCleaner, Away, Steps
  <2>2. Turn(c) /\ pc'[c] = "truncate" /\ job'[c] = job[c] BY <1>1, <1>4, <1>5, <2>1, GotoTurns
  <2>3. Stays(c)
    BY <1>2, <1>4, <1>5, <2>2 DEF Stays, Found, Owns, Creating
  <2>. QED BY <1>1, <1>4, <1>5, <2>2, <2>3, QuietIsLocal
<1>6. CASE ~TooLarge(job[c]) /\ job[c].op = "patch" /\ Goto(c, "release")
           /\ acked' = [acked EXCEPT ![s] = file[s]]
  <2>1. Turn(c) /\ pc'[c] = "release" /\ job'[c] = job[c]
    BY <1>1, <1>4, <1>6, ReleaseKnows, GotoTurns DEF ConstantsAssumption
  <2>2. acked'[s] = file[s] BY <1>2, <1>6 DEF Base, Disk
  <2>3. Sound(file'[s], acked'[s], s \in idle') BY <1>2, <1>3, <1>4, <2>2 DEF Sound
  <2>4. Stays(c) BY <1>4, <2>1 DEF Stays, Found, Owns, Creating
  <2>. QED BY <1>1, <1>3, <1>4, <1>6, <2>1, <2>2, <2>3, <2>4 DEF Local, Base, Disk
<1>7. CASE /\ ~TooLarge(job[c]) /\ job[c].op # "patch" /\ UNCHANGED acked
           /\ Goto(c, IF job[c].digest = None THEN "release" ELSE "hash")
  <2>1. CASE job[c].digest = None
    <3>1. Turn(c) /\ pc'[c] = "release" /\ job'[c] = job[c]
      BY <1>1, <1>4, <1>7, <2>1, ReleaseKnows, GotoTurns DEF ConstantsAssumption
    <3>2. Stays(c) BY <1>4, <3>1 DEF Stays, Found, Owns, Creating
    <3>. QED BY <1>1, <1>4, <1>7, <3>1, <3>2, QuietIsLocal
  <2>2. CASE job[c].digest # None
    <3>1. Knows(c, "hash", job[c]) BY <1>1, <1>2, <2>2 DEF Knows, OfCleaner, Away, Steps
    <3>2. Turn(c) /\ pc'[c] = "hash" /\ job'[c] = job[c]
      BY <1>1, <1>4, <1>7, <2>2, <3>1, GotoTurns
    <3>3. Len(file[s]) <= MaxUploadBytes
      BY <1>2, <1>3, <1>7 DEF TooLarge, Job, ConstantsAssumption
    <3>4. Stays(c) BY <1>3, <1>4, <3>2, <3>3 DEF Stays, Found, Owns, Creating
    <3>. QED BY <1>1, <1>4, <1>7, <3>2, <3>4, QuietIsLocal
  <2>. QED BY <2>1, <2>2
<1>. QED BY <1>5, <1>6, <1>7 DEF EndCopy

(* What a truncation leaves was there before the request, and all that was
   acknowledged is of it. *)
LEMMA TruncateLocal ==
    ASSUME ConstantsAssumption, Base, NEW c \in Clients, Truncate(c)
    PROVE  Local(c)
<1> DEFINE s == job[c].session
<1> DEFINE g == SubSeq(file[s], 1, job[c].size)
<1>1. c \in Threads /\ c # Cleaner /\ pc[c] \in Owns
  BY DEF ConstantsAssumption, Threads, Truncate, Owns
<1>2. /\ Knows(c, "truncate", job[c]) /\ s \in Sessions /\ job[c] \in Job
      /\ Sound(file[s], acked[s], s \in idle)
      /\ Found("truncate", job[c], file[s], acked[s], s \in idle)
  BY <1>1, OwnerKnows DEF Truncate
<1>3. /\ file[s] \in Contents /\ file[s] # None
      /\ job[c].size \in Nat /\ job[c].size <= Len(file[s]) /\ job[c].size <= MaxUploadBytes
  BY <1>2 DEF Found, Sound, Job, ConstantsAssumption
<1>4. /\ g \in Contents /\ Len(g) = job[c].size
      /\ IsPrefixOf(acked[s], file[s]) => IsPrefixOf(acked[s], g)
      /\ Exact(file[s]) => Exact(g)
  BY <1>2, <1>3, TruncatedContent DEF Found, Sound
<1>5. /\ file' = [file EXCEPT ![s] = g] /\ file'[s] = g
      /\ acked' = acked /\ idle' = idle \ {s}
  BY <1>2 DEF Truncate, Base, Disk
<1>6. Sound(file'[s], acked'[s], s \in idle')
  <2>1. g # None BY <1>4 DEF ConstantsAssumption
  <2>2. Len(g) <= MaxUploadBytes + 1
    <3>1. MaxUploadBytes \in Nat BY DEF ConstantsAssumption
    <3> HIDE DEF g
    <3>. QED BY <1>3, <1>4, <3>1
  <2>3. /\ acked[s] \in Contents
        /\ acked[s] # <<>> => IsPrefixOf(acked[s], g)
        /\ AllRanged => Exact(g)
    BY <1>2, <1>3, <1>4 DEF Sound
  <2>. QED BY <1>4, <1>5, <2>1, <2>2, <2>3 DEF Sound
<1> DEFINE step == IF job[c].op = "monolithic" THEN "remove" ELSE "release"
<1>7. Knows(c, step, job[c])
  BY <1>1, <1>2 DEF Knows, OfCleaner, Away, Steps
<1>8. Turn(c) /\ pc'[c] = step /\ job'[c] = job[c]
  BY <1>1, <1>7, GotoTurns DEF Truncate, AfterFailedAppend
<1>9. Stays(c)
  BY <1>2, <1>5, <1>8 DEF Stays, Found, Owns, Creating, Truncate
<1>. QED BY <1>1, <1>3, <1>5, <1>6, <1>8, <1>9 DEF Local, Truncate, Base, Disk

(* A session that is removed leaves nothing acknowledged behind. *)
LEMMA RemoveLocal ==
    ASSUME ConstantsAssumption, Base, NEW c \in Clients, RemoveUpload(c)
    PROVE  Local(c)
<1> DEFINE s == job[c].session
<1>1. c \in Threads /\ c # Cleaner /\ pc[c] \in Owns
  BY DEF ConstantsAssumption, Threads, RemoveUpload, Owns
<1>2. /\ Knows(c, "remove", job[c]) /\ s \in Sessions
      /\ Sound(file[s], acked[s], s \in idle)
      /\ Found("remove", job[c], file[s], acked[s], s \in idle)
  BY <1>1, OwnerKnows DEF RemoveUpload
<1>3. /\ file' = [file EXCEPT ![s] = None] /\ file'[s] = None /\ idle' = idle \ {s}
      /\ acked' = [acked EXCEPT ![s] = acked'[s]] /\ acked'[s] = <<>>
  BY <1>2 DEF RemoveUpload, Base, Disk, Knows, Found
<1>4. Sound(file'[s], acked'[s], s \in idle')
  BY <1>3, EmptyContent DEF Sound, ConstantsAssumption
<1>5. Turn(c) /\ pc'[c] = "release" /\ job'[c] = job[c]
  BY <1>1, ReleaseKnows, GotoTurns DEF RemoveUpload, ConstantsAssumption
<1>6. Stays(c) BY <1>5 DEF Stays, Found, Owns, Creating, RemoveUpload
<1>. QED BY <1>1, <1>3, <1>4, <1>5, <1>6 DEF Local, RemoveUpload, Base, Disk

(* What was hashed under the lock is what is renamed. *)
LEMMA HashLocal ==
    ASSUME ConstantsAssumption, Base, NEW c \in Clients, HashUpload(c)
    PROVE  Local(c)
<1> DEFINE s == job[c].session
<1>1. c \in Threads /\ c # Cleaner /\ pc[c] \in Owns
  BY DEF ConstantsAssumption, Threads, HashUpload, Owns
<1>2. /\ Knows(c, "hash", job[c])
      /\ Found("hash", job[c], file[s], acked[s], s \in idle)
  BY <1>1, OwnerKnows DEF HashUpload
<1>3. UNCHANGED <<file, idle, acked, born, walk, lock, job>> BY DEF HashUpload, storage
<1>4. CASE Goto(c, "release")
  <2>1. Turn(c) /\ pc'[c] = "release" /\ job'[c] = job[c]
    BY <1>1, <1>3, <1>4, ReleaseKnows, GotoTurns DEF ConstantsAssumption
  <2>2. Stays(c) BY <1>3, <2>1 DEF Stays, Found, Owns, Creating
  <2>. QED BY <1>1, <1>3, <2>1, <2>2, QuietIsLocal
<1>5. CASE DigestMatches(c) /\ Goto(c, "rename")
  <2>1. Knows(c, "rename", job[c]) BY <1>1, <1>2 DEF Knows, OfCleaner, Away, Steps
  <2>2. Turn(c) /\ pc'[c] = "rename" /\ job'[c] = job[c] BY <1>1, <1>3, <1>5, <2>1, GotoTurns
  <2>3. Stays(c)
    BY <1>2, <1>3, <1>5, <2>2 DEF Stays, Found, Owns, Creating, DigestMatches
  <2>. QED BY <1>1, <1>3, <2>2, <2>3, QuietIsLocal
<1>. QED BY <1>4, <1>5 DEF HashUpload

(* The rename takes the session away. *)
LEMMA RenameLocal ==
    ASSUME ConstantsAssumption, Base, NEW c \in Clients, RenameUpload(c)
    PROVE  Local(c)
<1> DEFINE s == job[c].session
<1>1. c \in Threads /\ c # Cleaner /\ pc[c] \in Owns
  BY DEF ConstantsAssumption, Threads, RenameUpload, Owns
<1>2. Knows(c, "rename", job[c]) /\ s \in Sessions
  BY <1>1, OwnerKnows DEF RenameUpload
<1>3. /\ file' = [file EXCEPT ![s] = None] /\ file'[s] = None /\ idle' = idle \ {s}
      /\ acked' = [acked EXCEPT ![s] = <<>>] /\ acked'[s] = <<>>
  BY <1>2 DEF RenameUpload, Base, Disk
<1>4. Sound(file'[s], acked'[s], s \in idle')
  BY <1>3, EmptyContent DEF Sound, ConstantsAssumption
<1>5. Knows(c, "link", job[c]) BY <1>1, <1>2 DEF Knows, OfCleaner, Away, Steps
<1>6. Turn(c) /\ pc'[c] = "link" /\ job'[c] = job[c]
  BY <1>1, <1>5, GotoTurns DEF RenameUpload
<1>7. Stays(c) BY <1>6 DEF Stays, Found, Owns, Creating, RenameUpload
<1>. QED BY <1>1, <1>3, <1>4, <1>6, <1>7 DEF Local, RenameUpload, Base, Disk

(* A request that ends, whether it has failed or not, leaves its session sound. *)
LEMMA EndLocal ==
    ASSUME ConstantsAssumption, Base, NEW c \in Clients,
           StepFails(c) \/ LinkRepositoryBlob(c) \/ Release(c)
    PROVE  Local(c)
<1> DEFINE s == job[c].session
<1>1. c \in Threads /\ c # Cleaner /\ pc[c] \in Owns
  BY DEF ConstantsAssumption, Threads, StepFails, LinkRepositoryBlob, Release, Owns
<1>2. /\ Knows(c, pc[c], job[c])
      /\ Found(pc[c], job[c], file[s], acked[s], s \in idle)
  BY <1>1, OwnerKnows
<1>3. CASE Release(c)
  <2>1. Knows(c, "idle", IdleJob)
    BY <1>1 DEF Knows, IdleJob, Job, Steps, OfCleaner, Away, ConstantsAssumption
  <2>2. pc' = [pc EXCEPT ![c] = "idle"] /\ job' = [job EXCEPT ![c] = IdleJob]
    BY <1>3 DEF Release, Goto
  <2>3. Turn(c) /\ pc'[c] = "idle"
    BY <1>1, <2>1, <2>2 DEF Turn, Base, Control, Knows
  <2>4. Leaves(c) BY <1>3, <2>3 DEF Leaves, Release, Away
  <2>. QED BY <1>1, <1>3, <2>3, <2>4, QuietIsLocal DEF Release, storage
<1>4. CASE LinkRepositoryBlob(c)
  <2>1. Turn(c) /\ pc'[c] = "release" /\ job'[c] = job[c]
    BY <1>1, <1>4, ReleaseKnows, GotoTurns DEF LinkRepositoryBlob, ConstantsAssumption
  <2>2. Stays(c) BY <1>4, <2>1 DEF LinkRepositoryBlob, Stays, Found, Owns, Creating
  <2>. QED BY <1>1, <1>4, <2>1, <2>2, QuietIsLocal DEF LinkRepositoryBlob
<1>5. CASE StepFails(c)
  <2>1. UNCHANGED <<file, idle, acked, born, walk, lock, job>> BY <1>5 DEF StepFails, storage
  <2>2. CASE Goto(c, "release")
    <3>1. Turn(c) /\ pc'[c] = "release" /\ job'[c] = job[c]
      BY <1>1, <2>1, <2>2, ReleaseKnows, GotoTurns DEF ConstantsAssumption
    <3>2. Stays(c) BY <2>1, <3>1 DEF Stays, Found, Owns, Creating
    <3>. QED BY <1>1, <2>1, <3>1, <3>2, QuietIsLocal
  <2>3. CASE Goto(c, "remove") /\ pc[c] \in {"copy", "truncate"} /\ job[c].op = "monolithic"
    <3>1. Knows(c, "remove", job[c]) BY <1>1, <1>2, <2>3 DEF Knows, OfCleaner, Away, Steps
    <3>2. Turn(c) /\ pc'[c] = "remove" /\ job'[c] = job[c] BY <1>1, <2>1, <2>3, <3>1, GotoTurns
    <3>3. Stays(c) BY <1>2, <2>1, <2>3, <3>2 DEF Stays, Found, Owns, Creating
    <3>. QED BY <1>1, <2>1, <3>2, <3>3, QuietIsLocal
  <2>. QED BY <1>5, <2>2, <2>3 DEF StepFails, AfterFailedAppend
<1>. QED BY <1>3, <1>4, <1>5

(* The cleanup removes what it has found to be old under the lock. *)
LEMMA CleanerLocal ==
    ASSUME ConstantsAssumption, Base,
           Inspect \/ RemoveExpired \/ ReleaseVisited \/ CleanupFails
    PROVE  Local(Cleaner)
<1> DEFINE s == job[Cleaner].session
<1>1. Cleaner \in Threads /\ pc[Cleaner] \in Owns
  BY DEF Threads, Inspect, RemoveExpired, ReleaseVisited, CleanupFails, Owns
<1>2. /\ Knows(Cleaner, pc[Cleaner], job[Cleaner]) /\ s \in Sessions
      /\ Found(pc[Cleaner], job[Cleaner], file[s], acked[s], s \in idle)
  BY <1>1, OwnerKnows
<1>3. ASSUME NEW step \in {"expire", "passed", "visit"} PROVE Knows(Cleaner, step, job[Cleaner])
  BY <1>1, <1>2 DEF Knows, OfCleaner, Away, Owns, Steps
<1>4. ASSUME NEW step \in {"expire", "passed", "visit"}, Goto(Cleaner, step), UNCHANGED job
      PROVE  Turn(Cleaner) /\ pc'[Cleaner] = step /\ job'[Cleaner] = job[Cleaner]
  BY <1>1, <1>3, <1>4, GotoTurns
<1>5. CASE Inspect
  <2>1. CASE Goto(Cleaner, "passed")
    <3>1. Stays(Cleaner) BY <1>4, <1>5, <2>1 DEF Inspect, Stays, Found, Owns, Creating
    <3>. QED BY <1>1, <1>4, <1>5, <2>1, <3>1, QuietIsLocal DEF Inspect, storage
  <2>2. CASE Goto(Cleaner, "expire") /\ s \in idle
    <3>1. Stays(Cleaner) BY <1>4, <1>5, <2>2 DEF Inspect, Stays, Found, Owns, Creating, storage
    <3>. QED BY <1>1, <1>4, <1>5, <2>2, <3>1, QuietIsLocal DEF Inspect, storage
  <2>. QED BY <1>5, <2>1, <2>2 DEF Inspect, Expired
<1>6. CASE RemoveExpired
  <2>1. s \in idle BY <1>2, <1>6 DEF RemoveExpired, Found
  <2>2. /\ file' = [file EXCEPT ![s] = None] /\ file'[s] = None /\ idle' = idle \ {s}
        /\ acked' = [acked EXCEPT ![s] = <<>>] /\ acked'[s] = <<>>
    BY <1>2, <1>6, <2>1 DEF RemoveExpired, Base, Disk
  <2>3. Sound(file'[s], acked'[s], s \in idle')
    BY <2>2, EmptyContent DEF Sound, ConstantsAssumption
  <2>4. Turn(Cleaner) /\ pc'[Cleaner] = "passed" /\ job'[Cleaner] = job[Cleaner]
    BY <1>4, <1>6 DEF RemoveExpired
  <2>5. Stays(Cleaner) BY <1>6, <2>4 DEF RemoveExpired, Stays, Found, Owns, Creating
  <2>. QED BY <1>1, <1>6, <2>2, <2>3, <2>4, <2>5 DEF Local, RemoveExpired, Base, Disk
<1>7. CASE ReleaseVisited
  <2>1. Turn(Cleaner) /\ pc'[Cleaner] = "visit" BY <1>4, <1>7 DEF ReleaseVisited
  <2>2. Leaves(Cleaner) BY <1>7, <2>1 DEF ReleaseVisited, Leaves, Away
  <2>. QED BY <1>1, <1>7, <2>1, <2>2, QuietIsLocal DEF ReleaseVisited, storage
<1>8. CASE CleanupFails
  <2>1. Turn(Cleaner) /\ pc'[Cleaner] = "passed" /\ job'[Cleaner] = job[Cleaner]
    BY <1>4, <1>8 DEF CleanupFails
  <2>2. Stays(Cleaner) BY <1>8, <2>1 DEF CleanupFails, Stays, Found, Owns, Creating
  <2>. QED BY <1>1, <1>8, <2>1, <2>2, QuietIsLocal DEF CleanupFails, storage
<1>. QED BY <1>5, <1>6, <1>7, <1>8

-----------------------------------------------------------------------------
(* A local step disturbs nobody. *)
LEMMA LocalKeepsBase ==
    ASSUME Base, NEW p \in Threads, Local(p)
    PROVE  Base'
<1> DEFINE s == job[p].session
<1>1. /\ pc[p] \in Owns /\ s \in Sessions /\ s \in born /\ lock[s] = p
      /\ Knows(p, pc[p], job[p]) /\ Turn(p)
  BY OwnerKnows DEF Local
<1>2. /\ \A t \in Sessions \ {s} :
            file'[t] = file[t] /\ acked'[t] = acked[t] /\ (t \in idle' <=> t \in idle)
      /\ file'[s] \in Contents \cup {None} /\ acked'[s] \in Contents
  BY DEF Local, Base, Disk, Sound
<1>3. Control'
  <2>1. \A q \in Threads : Knows(q, pc'[q], job'[q]) BY <1>1 DEF Turn, Base, Control
  <2>. QED BY <1>1, <2>1 DEF Turn, Control, Knows, Creates
<1>4. Disk'
  <2>1. file' \in [Sessions -> Contents \cup {None}] /\ acked' \in [Sessions -> Contents]
        /\ idle' \subseteq Sessions
    BY <1>2 DEF Local, Base, Disk
  <2>2. \A t \in Sessions : Sound(file'[t], acked'[t], t \in idle')
    <3>1. Sound(file'[s], acked'[s], s \in idle') BY DEF Local
    <3>2. ASSUME NEW t \in Sessions \ {s} PROVE Sound(file'[t], acked'[t], t \in idle')
      BY <1>2 DEF Base, Disk, Sound
    <3>. QED BY <3>1, <3>2
  <2>. QED BY <2>1, <2>2 DEF Disk, Sound, IsPrefixOf, Exact, AllRanged
<1>5. Locked'
  <2>1. lock' \in [Sessions -> Threads \cup {None}]
    BY DEF Local, Stays, Leaves, Base, Locked
  <2>2. ASSUME NEW q \in Threads, pc'[q] \in Owns
        PROVE  LET t == job'[q].session IN
               lock'[t] = q /\ Found(pc'[q], job'[q], file'[t], acked'[t], t \in idle')
    <3>1. CASE q = p
      <4>1. Stays(p) BY <2>2, <3>1 DEF Local, Leaves, Away, Owns
      <4>. QED BY <1>1, <3>1, <4>1 DEF Stays
    <3>2. CASE q # p
      <4>1. pc'[q] = pc[q] /\ job'[q] = job[q] BY <1>1, <3>2 DEF Turn
      <4> DEFINE t == job[q].session
      <4>2. /\ t \in Sessions /\ lock[t] = q
            /\ Found(pc[q], job[q], file[t], acked[t], t \in idle)
        BY <2>2, <4>1, OwnerKnows
      <4>3. t # s BY <1>1, <3>2, <4>2
      <4>4. lock'[t] = q BY <1>1, <4>2, <4>3 DEF Local, Stays, Leaves, Base, Locked
      <4>5. Found(pc[q], job[q], file'[t], acked'[t], t \in idle')
        BY <1>2, <4>2, <4>3 DEF Found
      <4>. QED BY <4>1, <4>4, <4>5
    <3>. QED BY <3>1, <3>2
  <2>. QED BY <2>1, <2>2 DEF Locked, Found
<1>6. Ids'
  <2>1. born' = born /\ walk' \subseteq walk BY DEF Local
  <2>2. Active' \subseteq born BY <1>1, <1>2 DEF Active, Base, Ids
  <2>3. \A q \in Threads : pc'[q] \notin Away => job'[q].session \in born
    BY <1>1 DEF Local, Turn, Stays, Leaves, Base, Ids
  <2>4. ASSUME NEW q \in Threads, Creating(q)'
        PROVE  /\ Creating(q) /\ job'[q].session = job[q].session
               /\ file'[job[q].session] = None
    <3>1. CASE q = p
      <4>1. Stays(p) BY <2>4, <3>1 DEF Local, Leaves, Away, Creating
      <4>. QED BY <2>4, <3>1, <4>1 DEF Stays
    <3>2. CASE q # p
      <4>1. Creating(q) /\ job'[q] = job[q] BY <1>1, <2>4, <3>2 DEF Turn, Creating, Creates
      <4>2. job[q].session \in Sessions /\ file[job[q].session] = None
        BY <4>1 DEF Base, Ids, Control, Knows, Creating, Away
      <4>3. pc[p] = "create" => job[q].session # s
        BY <1>1, <3>2, <4>1 DEF Base, Ids, Creating, Knows
      <4>4. file'[job[q].session] = None BY <1>2, <4>2, <4>3 DEF Local
      <4>. QED BY <4>1, <4>4
    <3>. QED BY <3>1, <3>2
  <2>5. \A q, t \in Threads :
           Creating(q)' /\ Creating(t)' /\ job'[q].session = job'[t].session => q = t
    BY <2>4 DEF Base, Ids
  <2>. QED BY <2>1, <2>2, <2>3, <2>4, <2>5 DEF Base, Ids
<1>. QED BY <1>3, <1>4, <1>5, <1>6 DEF Base

-----------------------------------------------------------------------------
(***************************************************************************)
(* The other steps.                                                        *)
(***************************************************************************)
\* A thread that takes a request or a session, or the lock of its session, writes
\* nothing on the disk.
Entry(p) ==
    /\ Turn(p)
    /\ pc[p] \notin Owns
    /\ file' = file /\ acked' = acked /\ idle' = idle
    /\ born \subseteq born' /\ born' \subseteq Sessions
    /\ walk' \subseteq born'
    /\ pc'[p] \notin Away => job'[p].session \in born'
    /\ pc'[p] \in Owns => /\ lock[job'[p].session] = None
                          /\ lock' = [lock EXCEPT ![job'[p].session] = p]
                          /\ pc'[p] \in {"mu", "remove", "inspect", "check"}
                          /\ pc'[p] = "remove" => job'[p].op # "monolithic"
    /\ pc'[p] \notin Owns => lock' = lock
    /\ Creating(p)' =>
          \/ Creating(p) /\ job'[p].session = job[p].session
          \/ job'[p].session \notin born

(* Nor does it disturb anybody. *)
LEMMA EntryKeepsBase ==
    ASSUME ConstantsAssumption, Base, NEW p \in Threads, Entry(p)
    PROVE  Base'
<1>1. Turn(p) /\ pc[p] \notin Owns /\ file' = file /\ acked' = acked /\ idle' = idle
  BY DEF Entry
<1>2. Control'
  <2>1. \A q \in Threads : Knows(q, pc'[q], job'[q]) BY <1>1 DEF Turn, Base, Control
  <2>. QED BY <1>1, <2>1 DEF Turn, Control, Knows, Creates
<1>3. Disk' BY <1>1 DEF Base, Disk, Sound, IsPrefixOf, Exact, AllRanged
<1>4. \A q \in Threads : Knows(q, pc'[q], job'[q]) BY <1>1 DEF Turn, Base, Control
<1>5. Locked'
  <2>1. lock' \in [Sessions -> Threads \cup {None}] BY DEF Entry, Base, Locked
  <2>2. ASSUME NEW q \in Threads, pc'[q] \in Owns
        PROVE  LET t == job'[q].session IN
               lock'[t] = q /\ Found(pc'[q], job'[q], file'[t], acked'[t], t \in idle')
    <3> DEFINE t == job'[q].session
    <3>1. t \in Sessions BY <1>4, <2>2 DEF Knows, Owns, Away
    <3>2. CASE q = p
      <4>1. pc'[p] \in {"mu", "remove", "inspect", "check"} BY <2>2, <3>2 DEF Entry
      <4>2. pc'[p] = "remove" => job'[p].op # "monolithic"
        BY <2>2, <3>2 DEF Entry
      <4>3. lock'[t] = q BY <2>2, <3>1, <3>2 DEF Entry, Base, Locked
      <4>. QED BY <3>2, <4>1, <4>2, <4>3 DEF Found
    <3>3. CASE q # p
      <4>1. pc'[q] = pc[q] /\ job'[q] = job[q] BY <1>1, <3>3 DEF Turn
      <4>2. lock[t] = q /\ Found(pc[q], job[q], file[t], acked[t], t \in idle)
        BY <2>2, <4>1, OwnerKnows
      <4>3. lock'[t] = q
        BY <3>1, <4>2 DEF Entry, Base, Locked, ConstantsAssumption
      <4>. QED BY <1>1, <4>1, <4>2, <4>3
    <3>. QED BY <3>2, <3>3
  <2>. QED BY <2>1, <2>2 DEF Locked, Found
<1>6. Ids'
  <2>1. born' \subseteq Sessions /\ born \subseteq born' /\ walk' \subseteq born' BY DEF Entry
  <2>2. Active' \subseteq born' BY <1>1, <2>1 DEF Active, Base, Ids
  <2>3. \A q \in Threads : pc'[q] \notin Away => job'[q].session \in born'
    BY <1>1, <2>1 DEF Entry, Turn, Base, Ids
  <2>4. ASSUME NEW q \in Threads, Creating(q)'
        PROVE  \/ Creating(q) /\ job'[q].session = job[q].session
               \/ q = p /\ job'[q].session \notin born
    BY <1>1, <2>4 DEF Entry, Turn, Creating, Creates
  <2>5. ASSUME NEW q \in Threads, Creating(q)
        PROVE  job[q].session \in born /\ file[job[q].session] = None
    BY <2>5 DEF Base, Ids, Creating, Away
  <2>6. ASSUME NEW q \in Threads, Creating(q)' PROVE file'[job'[q].session] = None
    <3>1. job'[q].session \in Sessions BY <1>4, <2>6 DEF Knows, Creating, Away
    <3>2. job'[q].session \notin born => file[job'[q].session] = None
      BY <3>1 DEF Base, Ids, Active
    <3>. QED BY <1>1, <2>4, <2>5, <2>6, <3>2
  <2>7. \A q, t \in Threads :
           Creating(q)' /\ Creating(t)' /\ job'[q].session = job'[t].session => q = t
    BY <2>4, <2>5 DEF Base, Ids
  <2>. QED BY <2>1, <2>2, <2>3, <2>6, <2>7 DEF Ids
<1>. QED BY <1>2, <1>3, <1>5, <1>6 DEF Base

(* A new session has an id that nobody has; every other one has been given out. *)
LEMMA ReceiveEnters ==
    ASSUME ConstantsAssumption, Base, NEW c \in Clients, Receive(c)
    PROVE  Entry(c)
<1>1. PICK r \in Requests, s \in Sessions :
         /\ r.op # "unlink"
         /\ IF Creates(r) THEN s \notin born /\ ~ExceedsLimit(r, 0) ELSE s \in born
         /\ born' = born \cup {s}
         /\ job' = [job EXCEPT ![c] =
               [op |-> r.op, from |-> r.from, len |-> r.len, ranged |-> r.ranged,
                declared |-> r.declared, digest |-> r.digest, session |-> s,
                size |-> 0, written |-> 0]]
  BY DEF Receive
<1> DEFINE j == [op |-> r.op, from |-> r.from, len |-> r.len, ranged |-> r.ranged,
                 declared |-> r.declared, digest |-> r.digest, session |-> s,
                 size |-> 0, written |-> 0]
<1>2. r \in Request /\ WellFormed(r) BY DEF ConstantsAssumption
<1>3. c \in Threads /\ c # Cleaner BY DEF ConstantsAssumption, Threads
<1>4. j \in Job /\ j.op = r.op /\ j.session = s
  BY <1>1, <1>2 DEF Job, Request, ConstantsAssumption
<1>5. Knows(c, "lock", j)
  BY <1>1, <1>2, <1>3, <1>4 DEF Knows, OfCleaner, Away, Steps, WellFormed, AllRanged, Request
<1>6. job' = [job EXCEPT ![c] = j] /\ pc' = [pc EXCEPT ![c] = "lock"] BY <1>1 DEF Receive, Goto
<1>7. job'[c] = j /\ pc'[c] = "lock" BY <1>3, <1>6 DEF Base, Control
<1>8. Turn(c) BY <1>3, <1>4, <1>5, <1>6, <1>7 DEF Turn, Base, Control, Steps
<1>9. Creating(c)' => job'[c].session \notin born
  BY <1>1, <1>4, <1>7 DEF Creating, Creates
<1>. QED
  BY <1>1, <1>4, <1>7, <1>8, <1>9 DEF Entry, Receive, storage, Owns, Base, Ids

(* Whoever gets the lock is the only one. *)
LEMMA LockEnters ==
    ASSUME ConstantsAssumption, Base, NEW p \in Threads, LockUpload(p)
    PROVE  Entry(p)
<1>1. Knows(p, "lock", job[p]) /\ job[p].session \in born
  BY DEF Base, Control, Ids, LockUpload, Away
<1>2. job[p].op \in {"start", "monolithic", "patch", "put", "cancel", "clean"}
  BY <1>1 DEF Knows, Job, Away
<1>3. AfterLock(p) \in {"mu", "remove", "inspect", "check"}
  BY DEF AfterLock
<1>4. Knows(p, AfterLock(p), job[p])
  BY <1>1, <1>2 DEF Knows, AfterLock, OfCleaner, Away, Steps, Creates
<1>5. Turn(p) /\ pc'[p] = AfterLock(p) /\ job'[p] = job[p]
  BY <1>4, GotoTurns DEF LockUpload
<1>6. AfterLock(p) = "remove" => job[p].op = "cancel" BY DEF AfterLock
<1>7. Creating(p)' => Creating(p) BY <1>5 DEF Creating, Creates, LockUpload
<1>. QED
  BY <1>1, <1>3, <1>5, <1>6, <1>7
     DEF Entry, LockUpload, LockFree, storage, Owns, Base, Ids

(* The job of an idle thread. *)
LEMMA IdleJobIsJob ==
    ASSUME ConstantsAssumption PROVE IdleJob \in Job /\ IdleJob.size = 0 /\ IdleJob.written = 0
BY DEF IdleJob, Job, ConstantsAssumption

(* The cleanup visits sessions that it has listed. *)
LEMMA WalkEnters ==
    ASSUME ConstantsAssumption, Base, ListUploads \/ Visit
    PROVE  Entry(Cleaner)
<1>1. Cleaner \in Threads BY DEF Threads
<1>2. Knows(Cleaner, pc[Cleaner], job[Cleaner]) BY <1>1 DEF Base, Control
<1>3. CASE ListUploads
  <2>1. Knows(Cleaner, "visit", job[Cleaner])
    BY <1>2, <1>3 DEF Knows, OfCleaner, Away, Steps, ListUploads
  <2>2. Turn(Cleaner) /\ pc'[Cleaner] = "visit" BY <1>1, <1>3, <2>1, GotoTurns DEF ListUploads
  <2>. QED
    BY <1>3, <2>2 DEF Entry, ListUploads, storage, Owns, Away, Creating, Base, Ids
<1>4. ASSUME NEW s \in walk, walk' = walk \ {s}, Visit, Goto(Cleaner, "lock"),
             job' = [job EXCEPT ![Cleaner] = [IdleJob EXCEPT !.op = "clean", !.session = s]]
      PROVE  Entry(Cleaner)
  <2> DEFINE j == [IdleJob EXCEPT !.op = "clean", !.session = s]
  <2>1. s \in Sessions /\ s \in born BY DEF Base, Ids
  <2>2. j \in Job /\ j.op = "clean" /\ j.session = s /\ j.size = 0 /\ j.written = 0
    BY <2>1, IdleJobIsJob DEF Job
  <2>3. Knows(Cleaner, "lock", j) BY <2>1, <2>2 DEF Knows, OfCleaner, Away, Steps
  <2>4. job'[Cleaner] = j /\ pc'[Cleaner] = "lock"
    BY <1>1, <1>4 DEF Base, Control, Goto
  <2>5. Turn(Cleaner)
    BY <1>1, <1>4, <2>2, <2>3, <2>4 DEF Turn, Goto, Base, Control, Steps
  <2>6. ~Creating(Cleaner)' BY <2>2, <2>4 DEF Creating, Creates
  <2>. QED
    BY <1>4, <2>1, <2>2, <2>4, <2>5, <2>6 DEF Entry, Visit, storage, Owns, Base, Ids
<1>5. CASE Visit /\ Goto(Cleaner, "idle") /\ job' = [job EXCEPT ![Cleaner] = IdleJob]
           /\ UNCHANGED walk
  <2>1. Knows(Cleaner, "idle", IdleJob)
    BY DEF Knows, IdleJob, Job, Steps, OfCleaner, Away, ConstantsAssumption
  <2>2. Turn(Cleaner) /\ pc'[Cleaner] = "idle"
    BY <1>1, <1>5, <2>1 DEF Turn, Goto, Base, Control, Knows
  <2>. QED
    BY <1>5, <2>2 DEF Entry, Visit, storage, Owns, Away, Creating, Base, Ids
<1>. QED BY <1>3, <1>4, <1>5 DEF Visit

(* Only an idle cleanup lets sessions grow old, and then it has found nothing. *)
LEMMA AgeKeepsBase ==
    ASSUME ConstantsAssumption, Base, NEW s \in Sessions, Age(s)
    PROVE  Base'
<1>1. /\ file' = file /\ acked' = acked /\ pc' = pc /\ job' = job /\ lock' = lock
      /\ born' = born /\ walk' = walk /\ idle' = idle \cup {s} /\ file[s] # None
      /\ pc[Cleaner] = "idle"
  BY DEF Age
<1>2. Control' BY <1>1 DEF Base, Control, Knows, Creates
<1>3. Disk' BY <1>1 DEF Base, Disk, Sound, IsPrefixOf, Exact, AllRanged
<1>4. Locked'
  <2>1. ASSUME NEW p \in Threads, pc[p] \in Owns PROVE pc[p] # "expire"
    BY <1>1, <2>1 DEF Base, Control, Knows, OfCleaner
  <2>2. ASSUME NEW p \in Threads, pc[p] \in Owns
        PROVE  LET t == job[p].session IN
               lock[t] = p /\ Found(pc[p], job[p], file[t], acked[t], t \in idle')
    BY <2>1, <2>2 DEF Base, Locked, Found
  <2>. QED BY <1>1, <2>2 DEF Base, Locked, Found
<1>5. Ids' BY <1>1 DEF Base, Ids, Active, Creating, Creates
<1>. QED BY <1>2, <1>3, <1>4, <1>5 DEF Base

(* After a crash the files are there and everything else begins anew. *)
LEMMA CrashKeepsBase ==
    ASSUME ConstantsAssumption, Base, Crash
    PROVE  Base'
<1>1. /\ file' = file /\ acked' = acked /\ idle' = idle /\ born' = born /\ walk' = {}
      /\ \A p \in Threads : pc'[p] = "idle" /\ job'[p] = IdleJob
      /\ pc' = [p \in Threads |-> "idle"] /\ job' = [p \in Threads |-> IdleJob]
      /\ lock' = [s \in Sessions |-> None]
  BY DEF Crash, storage
<1>2. Control'
  <2>1. \A p \in Threads : Knows(p, "idle", IdleJob)
    BY DEF Knows, IdleJob, Job, Steps, OfCleaner, Away, ConstantsAssumption
  <2>2. "idle" \in Steps BY DEF Steps
  <2>. QED BY <1>1, <2>1, <2>2, IdleJobIsJob DEF Control, Knows, Creates
<1>3. Disk' BY <1>1 DEF Base, Disk, Sound, IsPrefixOf, Exact, AllRanged
<1>4. Locked' BY <1>1 DEF Locked, Owns
<1>5. Ids' BY <1>1 DEF Base, Ids, Active, Away, Creating
<1>. QED BY <1>2, <1>3, <1>4, <1>5 DEF Base

-----------------------------------------------------------------------------
\* A step of thread p.
StepKind(p) == Local(p) \/ Entry(p)

(* Every step is one of a thread, the unlinking of a blob, time, or a crash. *)
LEMMA StepKinds ==
    ASSUME ConstantsAssumption, Base, Next
    PROVE  \/ \E p \in Threads : StepKind(p)
           \/ \E c \in Clients : DeleteRepositoryBlob(c)
           \/ \E s \in Sessions : Age(s)
           \/ Crash
<1> USE DEF StepKind
<1>1. Cleaner \in Threads /\ Clients \subseteq Threads BY DEF Threads
<1>2. ASSUME NEW c \in Clients, Receive(c) \/ ClientStep(c) \/ StepFails(c) PROVE StepKind(c)
  BY <1>1, <1>2, ReceiveEnters, LockEnters, MuLocal, CreateLocal, CheckLocal, CopyLocal,
     EndCopyLocal, TruncateLocal, RemoveLocal, HashLocal, RenameLocal, EndLocal
     DEF ClientStep
<1>3. CleanerStep \/ CleanupFails => StepKind(Cleaner)
  BY <1>1, CleanerLocal, LockEnters, WalkEnters DEF CleanerStep
<1>. QED BY <1>1, <1>2, <1>3 DEF Next

(* Control, the disk, the locks and the ids hold at every step. *)
LEMMA BaseKept ==
    ASSUME ConstantsAssumption, Base, [Next]_vars
    PROVE  Base'
<1>1. CASE UNCHANGED <<file, idle, acked, born, lock, pc, job, walk>>
  BY <1>1
     DEF Base, Control, Disk, Locked, Ids, Knows, Creates, Creating, Found, Sound, IsPrefixOf,
         Exact, AllRanged, Active
<1>2. ASSUME NEW c \in Clients, DeleteRepositoryBlob(c) PROVE Base'
  BY <1>1, <1>2 DEF DeleteRepositoryBlob
<1>3. CASE UNCHANGED vars BY <1>1, <1>3 DEF vars, storage
<1>. QED
  BY <1>2, <1>3, StepKinds, LocalKeepsBase, EntryKeepsBase, AgeKeepsBase, CrashKeepsBase
     DEF StepKind

(* They hold at the start. *)
LEMMA BaseAtStart == ASSUME ConstantsAssumption, Init PROVE Base
<1>1. \A p \in Threads : Knows(p, "idle", IdleJob)
  BY IdleJobIsJob DEF Knows, IdleJob, Steps, OfCleaner, Away
<1>2. "idle" \in Steps BY DEF Steps
<1>3. Control BY <1>1, <1>2, IdleJobIsJob DEF Init, Control
<1>4. Disk BY EmptyContent DEF Init, Disk, Sound
<1>5. Locked BY DEF Init, Locked, Owns
<1>6. Ids BY DEF Init, Ids, Active, Away, Creating
<1>. QED BY <1>3, <1>4, <1>5, <1>6 DEF Base

(* Hence always. *)
LEMMA BaseAlways == Spec => []Base
<1>1. Init => Base BY ConstantsAssumption, BaseAtStart
<1>2. Base /\ [Next]_vars => Base' BY ConstantsAssumption, BaseKept
<1>. QED BY <1>1, <1>2, PTL DEF Spec

-----------------------------------------------------------------------------
(***************************************************************************)
(* The blob store.                                                         *)
(***************************************************************************)
(* Only what was hashed, under the lock that is still held, is stored. *)
LEMMA StoreKept ==
    ASSUME ConstantsAssumption, Base, Store, [Next]_vars
    PROVE  Store'
<1>1. CASE UNCHANGED <<blob, link>> BY <1>1 DEF Store, StoredBlobsAreWhole, HasBlob
<1>2. ASSUME NEW c \in Clients, RenameUpload(c) PROVE Store'
  <2> DEFINE s == job[c].session
  <2> DEFINE d == job[c].digest
  <2>1. c \in Threads /\ pc[c] \in Owns /\ pc[c] = "rename"
    BY <1>2 DEF Threads, RenameUpload, Owns
  <2>2. /\ file[s] \in Contents /\ file[s] = d /\ Len(file[s]) <= MaxUploadBytes
    BY <2>1, OwnerKnows DEF Found, Sound
  <2>3. blob' = {b \in blob : b.digest # d} \cup {[digest |-> d, content |-> file[s]]}
        /\ link' = link
    BY <1>2 DEF RenameUpload
  <2>4. blob' \subseteq [digest : Contents, content : Contents]
        /\ \A b \in blob' : b.content = b.digest /\ Len(b.content) <= MaxUploadBytes
    BY <2>2, <2>3 DEF Store, StoredBlobsAreWhole
  <2>5. ASSUME NEW e \in link PROVE \E b \in blob' : b.digest = e
    <3>1. PICK b \in blob : b.digest = e BY <2>5 DEF Store, StoredBlobsAreWhole, HasBlob
    <3>2. CASE e = d
      <4>1. [digest |-> d, content |-> file[s]] \in blob' BY <2>3
      <4>. QED BY <3>2, <4>1
    <3>3. CASE e # d BY <2>3, <3>1, <3>3
    <3>. QED BY <3>2, <3>3
  <2>. QED BY <2>3, <2>4, <2>5 DEF Store, StoredBlobsAreWhole, HasBlob
<1>3. ASSUME NEW c \in Clients, LinkRepositoryBlob(c) PROVE Store'
  <2>1. blob' = blob /\ link' = IF HasBlob(job[c].digest) THEN link \cup {job[c].digest} ELSE link
    BY <1>3 DEF LinkRepositoryBlob
  <2>2. HasBlob(job[c].digest) => job[c].digest \in Contents BY DEF HasBlob, Store
  <2>. QED BY <2>1, <2>2 DEF Store, StoredBlobsAreWhole, HasBlob
<1>4. ASSUME NEW c \in Clients, DeleteRepositoryBlob(c) PROVE Store'
  BY <1>4 DEF DeleteRepositoryBlob, Store, StoredBlobsAreWhole, HasBlob
<1>5. ASSUME NEW c \in Clients,
             \/ Receive(c) \/ StepFails(c)
             \/ ClientStep(c) /\ ~RenameUpload(c) /\ ~LinkRepositoryBlob(c)
      PROVE  UNCHANGED <<blob, link>>
  BY <1>5
     DEF Receive, StepFails, ClientStep, LockUpload, LockMu, Release, CountUploads, CreateFile,
         CheckChunk, CopyByte, EndCopy, Truncate, RemoveUpload, HashUpload, storage
<1>6. CASE CleanerStep \/ CleanupFails \/ Crash \/ UNCHANGED vars
  BY <1>1, <1>6
     DEF CleanerStep, ListUploads, Visit, LockUpload, Inspect, RemoveExpired, ReleaseVisited,
         CleanupFails, Crash, vars, storage
<1>7. ASSUME NEW s \in Sessions, Age(s) PROVE UNCHANGED <<blob, link>> BY <1>7 DEF Age
<1>. QED BY <1>1, <1>2, <1>3, <1>4, <1>5, <1>6, <1>7 DEF Next

-----------------------------------------------------------------------------
(***************************************************************************)
(* The number of sessions.                                                 *)
(***************************************************************************)
(* Sets of sessions have a size. *)
LEMMA ActiveSize ==
    ASSUME ConstantsAssumption
    PROVE  /\ IsFiniteSet(Active) /\ Cardinality(Active) \in Nat
           /\ \A A \in SUBSET Active : Cardinality(A) \in Nat /\ Cardinality(A) <= Cardinality(Active)
           /\ \A s : /\ Cardinality(Active \cup {s}) \in Nat
                     /\ Cardinality(Active \cup {s}) <= Cardinality(Active) + 1
<1>1. IsFiniteSet(Active) BY FS_Subset DEF Active, ConstantsAssumption
<1>2. Cardinality(Active) \in Nat BY <1>1, FS_CardinalityType
<1>3. ASSUME NEW A \in SUBSET Active
      PROVE  Cardinality(A) \in Nat /\ Cardinality(A) <= Cardinality(Active)
  <2>1. IsFiniteSet(A) /\ Cardinality(A) <= Cardinality(Active) BY <1>1, FS_Subset
  <2>. QED BY <2>1, FS_CardinalityType
<1>4. ASSUME NEW s
      PROVE  /\ Cardinality(Active \cup {s}) \in Nat
             /\ Cardinality(Active \cup {s}) <= Cardinality(Active) + 1
  <2>1. Cardinality(Active \cup {s}) =
           IF s \in Active THEN Cardinality(Active) ELSE Cardinality(Active) + 1
    BY <1>1, FS_AddElement
  <2>. QED BY <1>2, <2>1
<1>. QED BY <1>1, <1>2, <1>3, <1>4

(* A step that makes no session and brings nobody into the critical section. *)
LEMMA OthersKeepLimit ==
    ASSUME ConstantsAssumption, Limit, Active' \subseteq Active, uploadMu' = uploadMu,
           \A p \in Threads : pc'[p] \in {"count", "create"} => pc'[p] = pc[p]
    PROVE  Limit'
<1>1. Cardinality(Active') \in Nat /\ Cardinality(Active') <= Cardinality(Active)
      /\ Cardinality(Active) \in Nat
  BY ActiveSize
<1>2. MaxUploadSessions \in Nat BY DEF ConstantsAssumption
<1>3. SessionLimit' BY <1>1, <1>2 DEF Limit, SessionLimit
<1>4. \A p \in Threads : pc'[p] = "create" => Cardinality(Active') < MaxUploadSessions
  BY <1>1, <1>2 DEF Limit
<1>. QED BY <1>3, <1>4 DEF Limit

(* Whoever counts creates before anybody else counts. *)
LEMMA LimitKept ==
    ASSUME ConstantsAssumption, Base, Limit, [Next]_vars
    PROVE  Limit'
<1> USE DEF Goto
<1>1. /\ Clients \subseteq Threads /\ Cleaner \in Threads /\ None \notin Threads
      /\ pc \in [Threads -> Steps]
  BY DEF Threads, ConstantsAssumption, Base, Control
<1>2. ASSUME NEW c \in Clients, LockMu(c) PROVE Limit'
  <2>1. Active' = Active /\ \A p \in Threads : pc[p] \notin {"count", "create"}
    BY <1>1, <1>2 DEF LockMu, MuFree, Limit, storage, Active
  <2>2. uploadMu' = c /\ \A p \in Threads : pc'[p] \in {"count", "create"} => p = c /\ pc'[p] = "count"
    BY <1>1, <1>2, <2>1 DEF LockMu
  <2>. QED BY <2>1, <2>2 DEF Limit, SessionLimit
<1>3. ASSUME NEW c \in Clients, CountUploads(c) PROVE Limit'
  <2>1. Active' = Active /\ \A p \in Threads : pc[p] \in {"count", "create"} => p = c
    BY <1>1, <1>3 DEF CountUploads, Limit, storage, Active
  <2>2. uploadMu = c BY <1>1, <1>3 DEF CountUploads, Limit
  <2>. QED BY <1>1, <1>3, <2>1, <2>2 DEF CountUploads, Limit, SessionLimit
<1>4. ASSUME NEW c \in Clients, CreateFile(c) PROVE Limit'
  <2>1. \A p \in Threads : pc[p] \in {"count", "create"} => p = c
    BY <1>1, <1>4 DEF CreateFile, Limit
  <2>2. uploadMu' = None /\ \A p \in Threads : pc'[p] \notin {"count", "create"}
    BY <1>1, <1>4, <2>1 DEF CreateFile
  <2>3. Active' \subseteq Active \cup {job[c].session}
    BY <1>4 DEF CreateFile, Active, Base, Disk
  <2>4. Cardinality(Active) < MaxUploadSessions /\ MaxUploadSessions \in Nat
    BY <1>1, <1>4 DEF CreateFile, Limit, ConstantsAssumption
  <2>5. /\ Cardinality(Active \cup {job[c].session}) <= Cardinality(Active) + 1
        /\ Cardinality(Active) \in Nat /\ Cardinality(Active \cup {job[c].session}) \in Nat
    BY ActiveSize
  <2>6. Cardinality(Active') \in Nat
        /\ Cardinality(Active') <= Cardinality(Active \cup {job[c].session})
    <3>1. IsFiniteSet(Active \cup {job[c].session}) BY ActiveSize, FS_AddElement
    <3>2. IsFiniteSet(Active') /\ Cardinality(Active') <= Cardinality(Active \cup {job[c].session})
      BY <2>3, <3>1, FS_Subset
    <3>. QED BY <3>2, FS_CardinalityType
  <2>7. SessionLimit' BY <2>4, <2>5, <2>6 DEF SessionLimit
  <2>. QED BY <2>2, <2>7 DEF Limit
<1>5. ASSUME NEW c \in Clients, StepFails(c) PROVE Limit'
  <2>1. Active' = Active /\ pc'[c] \in {"release", "remove"}
        /\ \A p \in Threads \ {c} : pc'[p] = pc[p]
    BY <1>1, <1>5 DEF StepFails, AfterFailedAppend, storage, Active
  <2>2. CASE pc[c] \in {"count", "create"}
    <3>1. \A p \in Threads : pc[p] \in {"count", "create"} => p = c
      BY <1>1, <2>2 DEF Limit
    <3>2. uploadMu' = None BY <1>5, <2>2 DEF StepFails, MuAfterFailure
    <3>. QED BY <2>1, <3>1, <3>2 DEF Limit, SessionLimit
  <2>3. CASE pc[c] \notin {"count", "create"}
    <3>1. uploadMu' = uploadMu BY <1>5, <2>3 DEF StepFails, MuAfterFailure
    <3>. QED BY <2>1, <3>1, OthersKeepLimit
  <2>. QED BY <2>2, <2>3
<1>6. ASSUME NEW p \in Threads, StepKind(p), pc[p] # "create", uploadMu' = uploadMu,
             pc'[p] \notin {"count", "create"} \/ pc' = pc
      PROVE  Limit'
  <2>1. Active' \subseteq Active
    BY <1>6 DEF StepKind, Local, Entry, Active, Base, Disk
  <2>2. \A q \in Threads \ {p} : pc'[q] = pc[q]
    BY <1>6 DEF StepKind, Local, Entry, Turn
  <2>. QED BY <1>6, <2>1, <2>2, OthersKeepLimit
<1>7. ASSUME NEW c \in Clients,
             \/ Receive(c) \/ LockUpload(c) \/ Release(c)
             \/ CheckChunk(c) \/ CopyByte(c) \/ EndCopy(c) \/ Truncate(c) \/ RemoveUpload(c)
             \/ HashUpload(c) \/ RenameUpload(c) \/ LinkRepositoryBlob(c)
      PROVE  Limit'
  <2> DEFINE Elsewhere == /\ pc[c] # "create" /\ uploadMu' = uploadMu
                          /\ pc'[c] \notin {"count", "create"} \/ pc' = pc
  <2>1. StepKind(c)
    BY <1>1, <1>7, ReceiveEnters, LockEnters, CheckLocal, CopyLocal, EndCopyLocal,
       TruncateLocal, RemoveLocal, HashLocal, RenameLocal, EndLocal
       DEF StepKind
  <2>2. CASE Receive(c) \/ LockUpload(c) \/ Release(c)
    <3>1. Elsewhere BY <1>1, <2>2 DEF Receive, LockUpload, AfterLock, Release
    <3>. QED BY <1>1, <1>6, <2>1, <3>1
  <2>3. CASE CheckChunk(c) \/ CopyByte(c) \/ EndCopy(c)
    <3>1. Elsewhere BY <1>1, <2>3 DEF CheckChunk, CopyByte, EndCopy
    <3>. QED BY <1>1, <1>6, <2>1, <3>1
  <2>4. CASE Truncate(c) \/ RemoveUpload(c) \/ HashUpload(c)
    <3>1. Elsewhere BY <1>1, <2>4 DEF Truncate, AfterFailedAppend, RemoveUpload, HashUpload
    <3>. QED BY <1>1, <1>6, <2>1, <3>1
  <2>5. CASE RenameUpload(c) \/ LinkRepositoryBlob(c)
    <3>1. Elsewhere BY <1>1, <2>5 DEF RenameUpload, LinkRepositoryBlob
    <3>. QED BY <1>1, <1>6, <2>1, <3>1
  <2>. QED BY <1>7, <2>2, <2>3, <2>4, <2>5
<1>8. CASE CleanerStep \/ CleanupFails
  <2>1. StepKind(Cleaner)
    BY <1>1, <1>8, CleanerLocal, LockEnters, WalkEnters DEF CleanerStep, StepKind
  <2>2. /\ pc[Cleaner] # "create" /\ uploadMu' = uploadMu
        /\ pc'[Cleaner] \notin {"count", "create"}
    BY <1>1, <1>8
       DEF CleanerStep, CleanupFails, ListUploads, Visit, LockUpload, AfterLock, Inspect,
           RemoveExpired, ReleaseVisited
  <2>. QED BY <1>1, <1>6, <2>1, <2>2
<1>9. ASSUME NEW c \in Clients, DeleteRepositoryBlob(c) PROVE Limit'
  BY <1>9, OthersKeepLimit DEF DeleteRepositoryBlob, Active
<1>10. ASSUME NEW s \in Sessions, Age(s) PROVE Limit'
  BY <1>10, OthersKeepLimit DEF Age, Active
<1>11. CASE Crash
  <2>1. /\ Active' = Active /\ uploadMu' = None
        /\ \A p \in Threads : pc'[p] \notin {"count", "create"}
    BY <1>11 DEF Crash, storage, Active
  <2>. QED BY <2>1 DEF Limit, SessionLimit
<1>12. CASE UNCHANGED vars
  BY <1>12, OthersKeepLimit DEF vars, storage, Active
<1>. QED
  BY <1>2, <1>3, <1>4, <1>5, <1>7, <1>8, <1>9, <1>10, <1>11, <1>12 DEF Next, ClientStep

(* Faults and crashes are counted. *)
LEMMA BudgetKept ==
    ASSUME ConstantsAssumption, Budget, [Next]_vars
    PROVE  Budget'
<1> USE DEF Budget, budget
<1>1. ASSUME NEW c \in Clients, Receive(c) \/ ClientStep(c) \/ DeleteRepositoryBlob(c)
      PROVE  Budget'
  BY <1>1
     DEF Receive, DeleteRepositoryBlob, ClientStep, LockUpload, LockMu, Release, CountUploads,
         CreateFile, CheckChunk, CopyByte, EndCopy, Truncate, RemoveUpload, HashUpload,
         RenameUpload, LinkRepositoryBlob
<1>2. ASSUME NEW c \in Clients, StepFails(c) PROVE Budget'
  BY <1>2 DEF StepFails, ConstantsAssumption
<1>3. CASE CleanerStep \/ UNCHANGED vars
  BY <1>3
     DEF CleanerStep, ListUploads, Visit, LockUpload, Inspect, RemoveExpired, ReleaseVisited, vars
<1>4. CASE CleanupFails \/ Crash BY <1>4 DEF CleanupFails, Crash, ConstantsAssumption
<1>5. ASSUME NEW s \in Sessions, Age(s) PROVE Budget' BY <1>5 DEF Age
<1>. QED BY <1>1, <1>2, <1>3, <1>4, <1>5 DEF Next

(* The store, the number of sessions and the budget, always. *)
LEMMA RestAlways == Spec => [](Store /\ Limit /\ Budget)
<1>1. Init => Store /\ Limit /\ Budget
  <2> SUFFICES ASSUME Init PROVE Store /\ Limit /\ Budget OBVIOUS
  <2>1. Store BY DEF Init, Store, StoredBlobsAreWhole
  <2>2. Active = {} BY DEF Init, Active
  <2>3. Limit
    BY <2>2, ConstantsAssumption, FS_EmptySet
       DEF Init, Limit, SessionLimit, ConstantsAssumption
  <2>4. Budget BY ConstantsAssumption DEF Init, Budget, ConstantsAssumption
  <2>. QED BY <2>1, <2>3, <2>4
<1>2. Base /\ Store /\ Limit /\ Budget /\ [Next]_vars => (Store /\ Limit /\ Budget)'
  BY ConstantsAssumption, StoreKept, LimitKept, BudgetKept
<1>. QED BY <1>1, <1>2, BaseAlways, PTL DEF Spec

-----------------------------------------------------------------------------
(***************************************************************************)
(* The theorems.                                                           *)
(***************************************************************************)
(* TypeOK: no session ever holds more than one byte beyond maxUploadBytes, whatever
   bodies are sent and wherever they break off. *)
THEOREM TypeCorrect == Spec => []TypeOK
<1>1. Base /\ Store /\ Limit /\ Budget => TypeOK
  <2> SUFFICES ASSUME Base, Store, Limit, Budget PROVE TypeOK OBVIOUS
  <2>1. \A s \in Sessions : file[s] # None => Len(file[s]) <= MaxUploadBytes + 1
    BY DEF Base, Disk, Sound
  <2>2. idle \subseteq Active BY DEF Base, Disk, Sound, Active
  <2>. QED
    BY <2>1, <2>2 DEF TypeOK, Base, Control, Disk, Locked, Ids, Store, Limit, Budget
<1>. QED BY <1>1, BaseAlways, RestAlways, PTL

(* README.md:160: the count and the creation under Server.uploadMu keep the limit
   however many POSTs race, fail between them, or are cut short by a crash. *)
THEOREM SessionsAreLimited == Spec => []SessionLimit
<1>1. Limit => SessionLimit BY DEF Limit
<1>. QED BY <1>1, RestAlways, PTL

(* What commitBlobUpload stores under a digest has that digest and respects
   maxUploadBytes, though the session is hashed in one step and renamed in another. *)
THEOREM StoreIsWhole == Spec => []StoredBlobsAreWhole
<1>1. Store => StoredBlobsAreWhole BY DEF Store
<1>. QED BY <1>1, RestAlways, PTL

(* Clients that send a Content-Range may retry and race as they like: appendUpload
   puts every byte in its place. *)
THEOREM RangedUploads == Spec => []RangedUploadsAreExact
<1>1. Base => RangedUploadsAreExact
  BY DEF Base, Disk, Sound, AllRanged, Exact, RangedUploadsAreExact
<1>. QED BY <1>1, BaseAlways, PTL

(* No failed append, no truncation and no other request loses a byte that was
   acknowledged with 202. *)
THEOREM AcknowledgedBytes == Spec => []AcknowledgedBytesStay
<1>1. Base => AcknowledgedBytesStay BY DEF Base, Disk, Sound, AcknowledgedBytesStay
<1>. QED BY <1>1, BaseAlways, PTL

=============================================================================
