------------------------ MODULE RepositoryTagsProofs ------------------------
(***************************************************************************)
(* Proofs about RepositoryTags, for any number of clients, tags, digests,  *)
(* requests, faults and crashes: types, the lock discipline, the safety of *)
(* the garbage collector and the wholeness of what a push publishes.       *)
(*                                                                         *)
(* The steps are first sorted by what they may touch (who writes the       *)
(* database, who the disk, who moves inside a callback of the repository   *)
(* lock); the invariants then follow from the discipline of the locks.     *)
(***************************************************************************)
EXTENDS RepositoryTags, TLAPS

\* The five steps that write the database ...
DatabaseStep(c) ==
    UpsertTags(c) \/ ForgetReference(c) \/ WritePolicy(c) \/ DropRepository(c) \/ MarkRepositoryPulled(c)

\* ... and the steps by which threads write the disk.
DiskStep(p) ==
    \/ p \in Clients /\ \/ MakeManifestDir(p) \/ RenameTag(p) \/ RollbackTag(p) \/ Untag(p) \/ RemoveTagFile(p)
                        \/ \E f \in Files : OpenFile(p, f) \/ WriteFile(p, f)
    \/ RemoveDirectory(p)
    \/ \E f \in Files : RemoveFile(p, f)

(* Only the five database steps, one transaction each, change a row. *)
LEMMA DatabaseFootprint ==
    ASSUME [Next]_vars PROVE UNCHANGED database \/ \E c \in Clients : DatabaseStep(c)
<1>1. ASSUME NEW c \in Clients, Receive(c) \/ ManifestStep(c) PROVE UNCHANGED database
  BY <1>1 DEF Receive, ManifestStep, MakeManifestDir, ReadManifest, OpenFile, WriteFile
<1>2. ASSUME NEW c \in Clients, TagStep(c) PROVE UNCHANGED database \/ DatabaseStep(c)
  BY <1>2
       DEF TagStep, CheckPolicy, StatAndWriteTemp, RenameTag, RollbackTag, RollbackDone,
           ReadBackTag, DatabaseStep
<1>3. ASSUME NEW c \in Clients, DeleteStep(c) \/ PolicyStep(c) PROVE UNCHANGED database \/ DatabaseStep(c)
  BY <1>3
       DEF DeleteStep, PolicyStep, StatManifest, RemoveDirectory, Untag, RemoveTagFile,
           RemoveFile, CheckRepository, DatabaseStep
<1>4. ASSUME NEW c \in Clients, RepositoryDeleteStep(c) \/ PullStep(c) PROVE UNCHANGED database \/ DatabaseStep(c)
  BY <1>4
       DEF RepositoryDeleteStep, PullStep, ListTags, NextVictim, ResolveTag, ReadFile, DatabaseStep
<1>5. ASSUME NEW c \in Clients, AcquireTagMu(c) \/ AcquireFlock(c) \/ Release(c) PROVE UNCHANGED database
  BY <1>5 DEF AcquireTagMu, AcquireFlock, Release
<1>6. ASSUME CollectorStep PROVE UNCHANGED database
  BY <1>6
       DEF CollectorStep, StartCollection, ScanReferences, Sweep, AcquireFlock, Release,
           RemoveDirectory, RemoveFile
<1>7. ASSUME Fault PROVE UNCHANGED database
  BY <1>7
       DEF Fault, LockedStepFails, FlockFails, LinkStepFails, RollbackStepFails, UnlockedStepFails
<1>8. ASSUME Crash \/ (\E d \in Digests : Age(d)) \/ UNCHANGED vars PROVE UNCHANGED database
  BY <1>8 DEF Crash, Age, vars
<1> QED BY <1>1, <1>2, <1>3, <1>4, <1>5, <1>6, <1>7, <1>8 DEF Next, ClientStep

(* Only those disk steps, the passing of time and a crash change a file. *)
LEMMA DiskFootprint ==
    ASSUME [Next]_vars
    PROVE  \/ UNCHANGED disk
           \/ \E p \in Threads : DiskStep(p)
           \/ \E d \in Digests : Age(d)
           \/ Crash
<1> USE DEF disk
<1>1. ASSUME NEW c \in Clients, Receive(c) \/ ManifestStep(c) PROVE UNCHANGED disk \/ DiskStep(c)
  BY <1>1 DEF Receive, ManifestStep, ReadManifest, DiskStep
<1>2. ASSUME NEW c \in Clients, TagStep(c) PROVE UNCHANGED disk \/ DiskStep(c)
  BY <1>2
       DEF TagStep, CheckPolicy, StatAndWriteTemp, RollbackDone, ReadBackTag, UpsertTags, DiskStep
<1>3. ASSUME NEW c \in Clients, DeleteStep(c) \/ PolicyStep(c) PROVE UNCHANGED disk \/ DiskStep(c)
  BY <1>3
       DEF DeleteStep, PolicyStep, StatManifest, ForgetReference, CheckRepository, WritePolicy,
           DiskStep
<1>4. ASSUME NEW c \in Clients, RepositoryDeleteStep(c) \/ PullStep(c) PROVE UNCHANGED disk
  BY <1>4
       DEF RepositoryDeleteStep, PullStep, ListTags, NextVictim, DropRepository,
           MarkRepositoryPulled, ResolveTag, ReadFile
<1>5. ASSUME NEW c \in Clients, AcquireTagMu(c) \/ AcquireFlock(c) \/ Release(c) PROVE UNCHANGED disk
  BY <1>5 DEF AcquireTagMu, AcquireFlock, Release
<1>6. ASSUME CollectorStep PROVE UNCHANGED disk \/ DiskStep(Collector)
  BY <1>6 DEF CollectorStep, StartCollection, ScanReferences, Sweep, AcquireFlock, Release, DiskStep
<1>7. ASSUME Fault PROVE UNCHANGED disk
  BY <1>7
       DEF Fault, LockedStepFails, FlockFails, LinkStepFails, RollbackStepFails, UnlockedStepFails
<1>8. CASE UNCHANGED vars
  BY <1>8 DEF vars
<1> QED BY <1>1, <1>2, <1>3, <1>4, <1>5, <1>6, <1>7, <1>8 DEF Next, ClientStep, Threads

(* The transactions of db/store.go keep the types and the foreign key. *)
LEMMA DatabaseTyped == ASSUME TypeOK, [Next]_vars PROVE DatabaseTypeOK'
<1> USE DEF TypeOK, DatabaseTypeOK, Policies, NoDigests
<1>1. CASE UNCHANGED database
  BY <1>1 DEF database
<1>2. ASSUME NEW c \in Clients, DatabaseStep(c) PROVE DatabaseTypeOK'
  <2>0. c \in Threads /\ job[c] \in Job BY DEF ThreadTypeOK, Threads
  <2>1. CASE UpsertTags(c)
    BY <2>0, <2>1 DEF UpsertTags, RowsAfterUpsert, Job
  <2>2. CASE ForgetReference(c)
    BY <2>0, <2>2 DEF ForgetReference, Forgotten, Job
  <2>3. CASE WritePolicy(c)
    BY <2>0, <2>3 DEF WritePolicy, Job
  <2>4. CASE DropRepository(c)
    BY <2>4 DEF DropRepository, database, RowsAfterDrop
  <2>5. CASE MarkRepositoryPulled(c)
    BY <2>5 DEF MarkRepositoryPulled
  <2> QED BY <1>2, <2>1, <2>2, <2>3, <2>4, <2>5 DEF DatabaseStep
<1> QED BY <1>1, <1>2, DatabaseFootprint

-----------------------------------------------------------------------------
\* The control of a step inside a callback of WithRepositoryLock ...
Inside(p) ==
    /\ pc[p] \in Critical
    /\ \E s \in Critical : pc' = [pc EXCEPT ![p] = s]
    /\ UNCHANGED locks

\* ... and of a client's step outside of any lock.
Outside(c) ==
    /\ pc[c] \in Unlocked \cup {"idle"}
    /\ \E s \in Unlocked \cup {"idle", "tagMu"} : pc' = [pc EXCEPT ![c] = s]
    /\ UNCHANGED locks

(* A request starts with the locks or with a step that takes none. *)
LEMMA EntrySteps == ASSUME NEW r PROVE EntryStep(r) \in Unlocked \cup {"tagMu"}
BY DEF EntryStep, Unlocked

(* A callback starts with the first step of its handler. *)
LEMMA FirstSteps == ASSUME NEW op PROVE FirstStep(op) \in {"mkdir", "getManifest", "removeTag", "policyCheck", "scan", "stat"}
BY DEF FirstStep

(* Every step moves inside a callback, moves outside the locks, or takes or
   returns a lock: only these last change tagMu and flock. *)
LEMMA StepKinds ==
    ASSUME TypeOK, [Next]_vars
    PROVE  \/ UNCHANGED <<pc, locks>>
           \/ \E p \in Threads : Inside(p)
           \/ \E c \in Clients : Outside(c)
           \/ StartCollection
           \/ \E c \in Clients : AcquireTagMu(c)
           \/ \E p \in Threads : AcquireFlock(p) \/ Release(p) \/ FlockFails(p)
           \/ Crash
<1> USE DEF Goto, Finish, FinishFailed, locks
<1>0. pc \in [Threads -> Steps] /\ Clients \subseteq Threads /\ Collector \in Threads
  BY DEF TypeOK, ThreadTypeOK, Threads
<1> DEFINE Same == UNCHANGED <<pc, locks>>
<1>1. ASSUME NEW c \in Clients, Receive(c) PROVE Outside(c)
  BY <1>1, EntrySteps DEF Receive, Outside
<1>2. ASSUME NEW c \in Clients, ManifestStep(c) PROVE Inside(c)
  BY <1>0, <1>2
       DEF ManifestStep, MakeManifestDir, AfterMkdir, ReadManifest, OpenFile, WriteFile, Inside,
           Critical, AbortPoints
<1>3. ASSUME NEW c \in Clients, TagStep(c) PROVE Inside(c) \/ Same
  BY <1>0, <1>3
       DEF TagStep, CheckPolicy, StatAndWriteTemp, StartRollback, RenameTag, UpsertTags,
           RollbackTag, RollbackDone,
        ReadBackTag, Inside, Critical, AbortPoints, LinkPoints
<1>4. ASSUME NEW p \in Threads, NEW f \in Files, RemoveFile(p, f) PROVE Same
  BY <1>4 DEF RemoveFile
<1>5. ASSUME NEW p \in Threads, RemoveDirectory(p) PROVE Inside(p)
  BY <1>5 DEF RemoveDirectory, AfterRemoval, Inside, Critical, AbortPoints
<1>6. ASSUME NEW c \in Clients, StatManifest(c) \/ Untag(c) \/ RemoveTagFile(c) \/ ForgetReference(c) PROVE Inside(c) \/ Same
  BY <1>0, <1>6
       DEF StatManifest, Untag, RemoveTagFile, ForgetReference, Inside, Critical, AbortPoints
<1>7. ASSUME NEW c \in Clients, PolicyStep(c) PROVE Inside(c)
  BY <1>7 DEF PolicyStep, CheckRepository, WritePolicy, Inside, Critical, AbortPoints
<1>8. ASSUME NEW c \in Clients, RepositoryDeleteStep(c) PROVE Outside(c)
  BY <1>8 DEF RepositoryDeleteStep, ListTags, NextVictim, DropRepository, Outside, Unlocked
<1>9. ASSUME NEW c \in Clients, PullStep(c) PROVE Outside(c)
  BY <1>9 DEF PullStep, ResolveTag, ReadFile, MarkRepositoryPulled, Outside, Unlocked
<1>10. CASE ScanReferences \/ Sweep
  <2>1. Inside(Collector) \/ Same
    BY <1>10 DEF ScanReferences, Sweep, Inside, Critical, AbortPoints
  <2> QED BY <1>0, <2>1
<1>11. ASSUME NEW p \in Threads, LockedStepFails(p) PROVE Inside(p)
  BY <1>11 DEF LockedStepFails, Inside, Critical
<1>12. ASSUME NEW c \in Clients, LinkStepFails(c) \/ RollbackStepFails(c) PROVE Inside(c) \/ Same
  BY <1>12 DEF LinkStepFails, RollbackStepFails, StartRollback, Inside, Critical
<1>13. ASSUME NEW c \in Clients, UnlockedStepFails(c) PROVE Outside(c)
  BY <1>13 DEF UnlockedStepFails, Outside
<1>14. CASE (\E d \in Digests : Age(d)) \/ UNCHANGED vars
  BY <1>14 DEF Age, vars
<1> QED
  BY <1>0, <1>1, <1>2, <1>3, <1>4, <1>5, <1>6, <1>7, <1>8, <1>9, <1>10, <1>11, <1>12, <1>13, <1>14
     DEF Next, ClientStep, CollectorStep, DeleteStep, Fault

(* withTagMutationLock and WithRepositoryLock: no step breaks the lock discipline. *)
LEMMA LocksKept == ASSUME ConstantsAssumption, TypeOK, LocksGuardCallbacks, [Next]_vars PROVE LocksGuardCallbacks'
<1> USE DEF LocksGuardCallbacks, locks
<1>0. /\ pc \in [Threads -> Steps] /\ Clients \subseteq Threads /\ Collector \in Threads
      /\ tagMu \in Clients \cup {None} /\ None \notin Threads
      /\ Collector \notin Clients
      /\ "idle" \notin Critical /\ "tagMu" \notin Critical /\ "flock" \notin Critical /\ "release" \in Critical
      /\ Critical \cap Unlocked = {} /\ "flock" \notin Unlocked /\ "nextVictim" \notin Critical
  BY DEF TypeOK, ThreadTypeOK, Threads, Critical, AbortPoints, LinkPoints, Unlocked,
           ConstantsAssumption
<1>1. CASE UNCHANGED <<pc, locks>>
  BY <1>1
<1>2. ASSUME NEW p \in Threads, Inside(p) PROVE LocksGuardCallbacks'
  BY <1>0, <1>2 DEF Inside
<1>3. ASSUME NEW c \in Clients, Outside(c) PROVE LocksGuardCallbacks'
  BY <1>0, <1>3 DEF Outside
<1>4. CASE StartCollection
  BY <1>0, <1>4 DEF StartCollection, Goto
<1>5. ASSUME NEW c \in Clients, AcquireTagMu(c) PROVE LocksGuardCallbacks'
  BY <1>0, <1>5 DEF AcquireTagMu, Goto
<1>6. ASSUME NEW p \in Threads, AcquireFlock(p) PROVE LocksGuardCallbacks'
  <2>1. FirstStep(job[p].op) \in Critical
    BY FirstSteps DEF Critical, AbortPoints
  <2> QED BY <1>0, <1>6, <2>1 DEF AcquireFlock, FlockFree, Goto
<1>7. ASSUME NEW p \in Threads, Release(p) PROVE LocksGuardCallbacks'
  BY <1>0, <1>7 DEF Release, MuAfterRelease, Goto, Finish
<1>8. ASSUME NEW p \in Threads, FlockFails(p) PROVE LocksGuardCallbacks'
  BY <1>0, <1>8 DEF FlockFails, MuAfterRelease, Goto, Finish
<1>9. CASE Crash
  BY <1>0, <1>9 DEF Crash
<1> QED BY <1>1, <1>2, <1>3, <1>4, <1>5, <1>6, <1>7, <1>8, <1>9, StepKinds

-----------------------------------------------------------------------------
(* The local variables of a handler keep their types when a request arrives, ... *)
LEMMA JobReceived ==
    ASSUME job \in [Threads -> Job], NEW p \in Threads, NEW r \in Request,
           job' = [job EXCEPT ![p] = [IdleJob EXCEPT !.op = r.op, !.digest = r.digest,
                                                     !.tags = r.tags, !.policy = r.policy]]
    PROVE  job' \in [Threads -> Job]
BY DEF Job, IdleJob, NoDigests, Operations, Policies, Request

(* ... when a tag is resolved to its digest, ... *)
LEMMA JobDigestSet ==
    ASSUME job \in [Threads -> Job], NEW p \in Threads, NEW d \in Digests \cup {None},
           job' = [job EXCEPT ![p].digest = d]
    PROVE  job' \in [Threads -> Job]
BY DEF Job

(* ... when a tag is linked or rolled back, ... *)
LEMMA JobTodoSet ==
    ASSUME job \in [Threads -> Job], NEW p \in Threads, NEW T \in SUBSET Tags,
           job' = [job EXCEPT ![p].todo = T]
    PROVE  job' \in [Threads -> Job]
BY DEF Job

(* ... when digests are listed for deletion, ... *)
LEMMA JobVictimsSet ==
    ASSUME job \in [Threads -> Job], NEW p \in Threads, NEW S \in SUBSET Digests,
           job' = [job EXCEPT ![p].victims = S]
    PROVE  job' \in [Threads -> Job]
BY DEF Job

(* ... when the next of them is taken, ... *)
LEMMA JobVictimTaken ==
    ASSUME job \in [Threads -> Job], NEW p \in Threads, NEW d \in job[p].victims,
           \/ job' = [job EXCEPT ![p] = [@ EXCEPT !.digest = d, !.victims = job[p].victims \ {d}]]
           \/ job' = [job EXCEPT ![p] = [@ EXCEPT !.victims = job[p].victims \ {d}, !.digest = d]]
    PROVE  job' \in [Threads -> Job]
<1> DEFINE S == job[p].victims \ {d}
<1>1. d \in Digests /\ S \in SUBSET Digests BY DEF Job
<1>2. \/ job' = [job EXCEPT ![p] = [@ EXCEPT !.digest = d, !.victims = S]]
      \/ job' = [job EXCEPT ![p] = [@ EXCEPT !.victims = S, !.digest = d]]
  OBVIOUS
<1> HIDE DEF S
<1>3. CASE job' = [job EXCEPT ![p] = [@ EXCEPT !.digest = d, !.victims = S]]
  BY <1>1, <1>3 DEF Job
<1>4. CASE job' = [job EXCEPT ![p] = [@ EXCEPT !.victims = S, !.digest = d]]
  BY <1>1, <1>4 DEF Job
<1> QED BY <1>2, <1>3, <1>4

(* ... and so in every step. *)
LEMMA JobTyped == ASSUME ConstantsAssumption, TypeOK, [Next]_vars PROVE job' \in [Threads -> Job]
<1> USE DEF Goto, Finish, FinishFailed
<1>0. /\ job \in [Threads -> Job] /\ Clients \subseteq Threads /\ Collector \in Threads
      /\ tag \in [Tags -> Digests \cup {None}] /\ row \in [Tags -> Digests \cup {None}]
      /\ IdleJob \in Job
  BY DEF TypeOK, ThreadTypeOK, DiskTypeOK, DatabaseTypeOK, Threads, Job, IdleJob, Operations,
           Policies, NoDigests
<1> USE <1>0
<1>a. ASSUME NEW p \in Threads, FinishFailed(p) PROVE job' \in [Threads -> Job]
  BY <1>a DEF Job
<1>b. ASSUME NEW p \in Threads, Finish(p) PROVE job' \in [Threads -> Job]
  BY <1>b
<1>c. ASSUME NEW p \in Threads, StartRollback(p) PROVE job' \in [Threads -> Job]
  BY <1>c DEF StartRollback, Job
<1>d. ASSUME NEW p \in Threads, NEW t, job' = [job EXCEPT ![p].todo = @ \ {t}] PROVE job' \in [Threads -> Job]
  <2>1. job[p].todo \ {t} \in SUBSET Tags BY DEF Job
  <2> QED BY <1>d, <2>1, JobTodoSet
<1>1. ASSUME NEW c \in Clients, Receive(c) PROVE job' \in [Threads -> Job]
  <2>1. Requests \subseteq Request BY DEF ConstantsAssumption
  <2>2. PICK r \in Requests :
            job' = [job EXCEPT ![c] = [IdleJob EXCEPT !.op = r.op, !.digest = r.digest,
                                                      !.tags = r.tags, !.policy = r.policy]]
    BY <1>1 DEF Receive
  <2> QED BY <2>1, <2>2, JobReceived
<1>2. ASSUME NEW c \in Clients, ManifestStep(c) PROVE job' \in [Threads -> Job]
  BY <1>2, <1>a DEF ManifestStep, MakeManifestDir, ReadManifest, OpenFile, WriteFile
<1>3. ASSUME NEW c \in Clients, CheckPolicy(c) PROVE job' \in [Threads -> Job]
  <2>1. CASE FinishFailed(c) BY <2>1, <1>a
  <2>2. CASE job' = [job EXCEPT ![c] = [@ EXCEPT !.todo = job[c].tags, !.prior = tag]]
    BY <2>2 DEF Job
  <2> QED BY <1>3, <2>1, <2>2 DEF CheckPolicy
<1>4. ASSUME NEW c \in Clients, RenameTag(c) PROVE job' \in [Threads -> Job]
  BY <1>4, <1>d DEF RenameTag
<1>5. ASSUME NEW c \in Clients, StatAndWriteTemp(c) \/ UpsertTags(c) \/ RollbackTag(c) \/ RollbackDone(c) \/ ReadBackTag(c)
      PROVE job' \in [Threads -> Job]
  BY <1>5, <1>a, <1>c, <1>d DEF StatAndWriteTemp, UpsertTags, RollbackTag, RollbackDone, ReadBackTag
<1>6. ASSUME NEW c \in Clients, RemoveTagFile(c) PROVE job' \in [Threads -> Job]
  <2>0. PICK t \in job[c].tags : IF tag[t] = None THEN FinishFailed(c) ELSE job' = [job EXCEPT ![c].digest = tag[t]]
    BY <1>6 DEF RemoveTagFile
  <2>1. t \in Tags BY DEF Job
  <2>2. CASE tag[t] = None BY <2>0, <2>2, <1>a
  <2>3. CASE tag[t] # None BY <2>0, <2>1, <2>3, JobDigestSet
  <2> QED BY <2>2, <2>3
<1>7. ASSUME NEW p \in Threads, RemoveDirectory(p) \/ \E f \in Files : RemoveFile(p, f)
      PROVE job' \in [Threads -> Job]
  BY <1>7 DEF RemoveFile, RemoveDirectory
<1>8. ASSUME NEW c \in Clients, StatManifest(c) \/ Untag(c) \/ ForgetReference(c) \/ PolicyStep(c) PROVE job' \in [Threads -> Job]
  BY <1>8, <1>a DEF StatManifest, Untag, ForgetReference, PolicyStep, CheckRepository, WritePolicy
<1>9. ASSUME NEW c \in Clients, ListTags(c) PROVE job' \in [Threads -> Job]
  <2>1. {row[t] : t \in Tags} \ {None} \in SUBSET Digests
    OBVIOUS
  <2> QED BY <1>9, <2>1, JobVictimsSet DEF ListTags
<1>10. ASSUME NEW c \in Clients, NextVictim(c) PROVE job' \in [Threads -> Job]
  <2>1. ASSUME NEW d \in job[c].victims, job' = [job EXCEPT ![c] = [@ EXCEPT !.digest = d, !.victims = job[c].victims \ {d}]]
        PROVE job' \in [Threads -> Job]
    BY <2>1, JobVictimTaken
  <2> QED BY <1>10, <1>b, <2>1 DEF NextVictim
<1>11. ASSUME NEW c \in Clients, DropRepository(c) \/ MarkRepositoryPulled(c) PROVE job' \in [Threads -> Job]
  BY <1>11, <1>b DEF DropRepository, MarkRepositoryPulled
<1>12. ASSUME NEW c \in Clients, ResolveTag(c) PROVE job' \in [Threads -> Job]
  <2>0. PICK t \in job[c].tags : IF tag[t] = None THEN Finish(c) ELSE job' = [job EXCEPT ![c].digest = tag[t]]
    BY <1>12 DEF ResolveTag
  <2>1. t \in Tags BY DEF Job
  <2>2. CASE tag[t] = None BY <2>0, <2>2, <1>b
  <2>3. CASE tag[t] # None BY <2>0, <2>1, <2>3, JobDigestSet
  <2> QED BY <2>2, <2>3
<1>13. ASSUME NEW c \in Clients, NEW f \in Files, ReadFile(c, f) PROVE job' \in [Threads -> Job]
  <2>1. CASE Finish(c) BY <2>1, <1>b
  <2>2. CASE job' = [job EXCEPT ![c].ok = @ /\ file[job[c].digest][f] = "whole"]
    BY <2>2 DEF Job
  <2> QED BY <1>13, <2>1, <2>2 DEF ReadFile
<1>14. CASE StartCollection
  BY <1>14 DEF StartCollection, Job, Operations
<1>15. CASE ScanReferences
  BY <1>15 DEF ScanReferences, Job
<1>16. CASE Sweep
  <2>1. ASSUME NEW d \in job[Collector].victims,
               job' = [job EXCEPT ![Collector] = [@ EXCEPT !.victims = job[Collector].victims \ {d}, !.digest = d]]
        PROVE job' \in [Threads -> Job]
    BY <2>1, JobVictimTaken
  <2> QED BY <1>16, <2>1 DEF Sweep
<1>17. ASSUME NEW p \in Threads, AcquireFlock(p) \/ Release(p) \/ FlockFails(p) \/ LockedStepFails(p) PROVE job' \in [Threads -> Job]
  BY <1>17, <1>a, <1>b DEF AcquireFlock, Release, FlockFails, LockedStepFails
<1>18. ASSUME NEW c \in Clients, AcquireTagMu(c) \/ LinkStepFails(c) \/ RollbackStepFails(c) \/ UnlockedStepFails(c)
       PROVE job' \in [Threads -> Job]
  BY <1>18, <1>b, <1>c, <1>d DEF AcquireTagMu, LinkStepFails, RollbackStepFails, UnlockedStepFails
<1>19. CASE Crash \/ (\E d \in Digests : Age(d)) \/ UNCHANGED vars
  BY <1>19 DEF Crash, Age, vars
<1>20. ASSUME NEW c \in Clients, Receive(c) \/ ClientStep(c) PROVE job' \in [Threads -> Job]
  BY <1>20, <1>1, <1>2, <1>3, <1>4, <1>5, <1>6, <1>7, <1>8, <1>9, <1>10, <1>11, <1>12, <1>13, <1>17, <1>18
     DEF ClientStep, TagStep, DeleteStep, RepositoryDeleteStep, PullStep
<1>21. CASE CollectorStep
  BY <1>21, <1>7, <1>14, <1>15, <1>16, <1>17 DEF CollectorStep
<1>22. CASE Fault
  BY <1>22, <1>17, <1>18 DEF Fault
<1> QED
  BY <1>19, <1>20, <1>21, <1>22 DEF Next

-----------------------------------------------------------------------------
\* The first steps of the callbacks.
First == {"mkdir", "getManifest", "removeTag", "policyCheck", "scan", "stat"}

\* The steps a client takes inside a callback ...
ClientInside(c) ==
    \/ Release(c) \/ ManifestStep(c) \/ TagStep(c) \/ DeleteStep(c) \/ PolicyStep(c)
    \/ LockedStepFails(c) \/ LinkStepFails(c) \/ RollbackStepFails(c)

\* ... those of the collector ...
CollectorInside ==
    \/ ScanReferences \/ Sweep \/ Release(Collector) \/ RemoveDirectory(Collector)
    \/ LockedStepFails(Collector)
    \/ \E f \in Files : RemoveFile(Collector, f)

\* ... and those a client takes outside.
ClientOutside(c) ==
    \/ Receive(c) \/ AcquireTagMu(c) \/ AcquireFlock(c) \/ FlockFails(c)
    \/ RepositoryDeleteStep(c) \/ PullStep(c) \/ UnlockedStepFails(c)

\* A step outside a callback: the disk and the other threads are left alone.
OutsideEffect(p) ==
    /\ p \in Clients => ClientOutside(p)
    /\ pc[p] \notin Critical
    /\ pc'[p] \notin Critical \ First
    /\ UNCHANGED <<disk, crashes>>
    /\ \A q \in Threads \ {p} : pc'[q] = pc[q] /\ job'[q] = job[q]

(* The steps inside callbacks are taken at control points inside callbacks. *)
LEMMA InsideIsCritical ==
    /\ \A c \in Clients : ClientInside(c) => pc[c] \in Critical
    /\ CollectorInside => pc[Collector] \in Critical
<1> USE DEF Critical, AbortPoints, LinkPoints
<1>1. ASSUME NEW c \in Clients PROVE ManifestStep(c) => pc[c] \in Critical
  BY DEF ManifestStep, MakeManifestDir, ReadManifest, OpenFile, WriteFile
<1>2. ASSUME NEW c \in Clients PROVE TagStep(c) => pc[c] \in Critical
  BY DEF TagStep, CheckPolicy, StatAndWriteTemp, RenameTag, UpsertTags, RollbackTag,
           RollbackDone, ReadBackTag
<1>3. ASSUME NEW c \in Clients PROVE DeleteStep(c) \/ PolicyStep(c) => pc[c] \in Critical
  BY DEF DeleteStep, PolicyStep, StatManifest, RemoveDirectory, Untag, RemoveTagFile,
           ForgetReference, RemoveFile,
         CheckRepository, WritePolicy
<1>4. ASSUME NEW c \in Clients PROVE
        Release(c) \/ LockedStepFails(c) \/ LinkStepFails(c) \/ RollbackStepFails(c) => pc[c] \in Critical
  BY DEF Release, LockedStepFails, LinkStepFails, RollbackStepFails
<1>5. CollectorInside => pc[Collector] \in Critical
  BY DEF CollectorInside, ScanReferences, Sweep, Release, RemoveDirectory, LockedStepFails,
           RemoveFile
<1> QED BY <1>1, <1>2, <1>3, <1>4, <1>5 DEF ClientInside

(* Every step is inside a callback, outside of all, Age, Crash or a stutter. *)
LEMMA StepSplit ==
    ASSUME ConstantsAssumption, TypeOK, [Next]_vars
    PROVE  \/ \E c \in Clients : ClientInside(c)
           \/ CollectorInside
           \/ \E p \in Threads : OutsideEffect(p)
           \/ \E d \in Digests : Age(d)
           \/ Crash
           \/ UNCHANGED vars
<1> USE DEF Goto, Finish, FinishFailed, OutsideEffect, ClientOutside, budget
<1>0. /\ pc \in [Threads -> Steps] /\ job \in [Threads -> Job] /\ Clients \subseteq Threads /\ Collector \in Threads
      /\ Collector \notin Clients
      /\ "idle" \notin Critical /\ "tagMu" \notin Critical /\ "flock" \notin Critical /\ "nextVictim" \notin Critical
      /\ Critical \cap Unlocked = {}
  BY DEF TypeOK, ThreadTypeOK, Threads, Critical, AbortPoints, LinkPoints, Unlocked,
           ConstantsAssumption
<1>1. ASSUME NEW c \in Clients, Receive(c) PROVE OutsideEffect(c)
  BY <1>0, <1>1, EntrySteps DEF Receive
<1>2. ASSUME NEW c \in Clients, AcquireTagMu(c) PROVE OutsideEffect(c)
  BY <1>0, <1>2 DEF AcquireTagMu
<1>3. ASSUME NEW p \in Threads, AcquireFlock(p) PROVE OutsideEffect(p)
  BY <1>0, <1>3, FirstSteps DEF AcquireFlock, First
<1>4. ASSUME NEW p \in Threads, FlockFails(p) PROVE OutsideEffect(p)
  BY <1>0, <1>4 DEF FlockFails, CountFault
<1>5. ASSUME NEW c \in Clients, RepositoryDeleteStep(c) PROVE OutsideEffect(c)
  BY <1>0, <1>5 DEF RepositoryDeleteStep, ListTags, NextVictim, DropRepository, Unlocked
<1>6. ASSUME NEW c \in Clients, PullStep(c) PROVE OutsideEffect(c)
  BY <1>0, <1>6 DEF PullStep, ResolveTag, ReadFile, MarkRepositoryPulled, Unlocked
<1>7. ASSUME NEW c \in Clients, UnlockedStepFails(c) PROVE OutsideEffect(c)
  BY <1>0, <1>7 DEF UnlockedStepFails, CountFault
<1>8. CASE StartCollection
  BY <1>0, <1>8 DEF StartCollection
<1> QED
  BY <1>0, <1>1, <1>2, <1>3, <1>4, <1>5, <1>6, <1>7, <1>8
     DEF Next, ClientStep, CollectorStep, Fault, ClientInside, CollectorInside, Threads

(* A step inside a callback moves only the thread that takes it. *)
LEMMA OwnStep ==
    ASSUME TypeOK, NEW p \in Threads, (p \in Clients /\ ClientInside(p)) \/ (p = Collector /\ CollectorInside)
    PROVE  \A q \in Threads \ {p} : pc'[q] = pc[q] /\ job'[q] = job[q]
<1> USE DEF Goto, Finish, FinishFailed, StartRollback
<1>0. pc \in [Threads -> Steps] /\ job \in [Threads -> Job]
  BY DEF TypeOK, ThreadTypeOK
<1>1. CASE ManifestStep(p)
  BY <1>0, <1>1 DEF ManifestStep, MakeManifestDir, ReadManifest, OpenFile, WriteFile
<1>2. CASE TagStep(p)
  BY <1>0, <1>2
       DEF TagStep, CheckPolicy, StatAndWriteTemp, RenameTag, UpsertTags, RollbackTag,
           RollbackDone, ReadBackTag
<1>3. CASE DeleteStep(p) \/ PolicyStep(p)
  BY <1>0, <1>3
       DEF DeleteStep, PolicyStep, StatManifest, RemoveDirectory, Untag, RemoveTagFile,
           ForgetReference, RemoveFile,
         CheckRepository, WritePolicy
<1>4. CASE Release(p) \/ LockedStepFails(p) \/ LinkStepFails(p) \/ RollbackStepFails(p)
  BY <1>0, <1>4 DEF Release, LockedStepFails, LinkStepFails, RollbackStepFails
<1>5. CASE p = Collector /\ CollectorInside
  BY <1>0, <1>5
       DEF CollectorInside, ScanReferences, Sweep, Release, RemoveDirectory, LockedStepFails,
           RemoveFile
<1> QED BY <1>1, <1>2, <1>3, <1>4, <1>5 DEF ClientInside

(* What WithRepositoryLock buys: between two steps of the holder of the flock the
   manifests it has seen stay where they are and the tags do not change. *)
LEMMA HolderUndisturbed ==
    ASSUME ConstantsAssumption, TypeOK, LocksGuardCallbacks, [Next]_vars, NEW p \in Threads, flock = p
    PROVE  \/ p \in Clients /\ ClientInside(p)
           \/ p = Collector /\ CollectorInside
           \/ Crash
           \/ /\ pc'[p] = pc[p] /\ job'[p] = job[p]
              /\ file' = file /\ tag' = tag /\ temps' = temps
              /\ \A d \in Digests : dir'[d] = "absent" <=> dir[d] = "absent"
<1>0. \A q \in Threads : pc[q] \in Critical => q = p
  BY DEF LocksGuardCallbacks
<1>1. ASSUME NEW c \in Clients, ClientInside(c) PROVE c = p
  BY <1>0, <1>1, InsideIsCritical DEF Threads
<1>2. CASE CollectorInside
  BY <1>0, <1>2, InsideIsCritical DEF Threads
<1>3. ASSUME NEW q \in Threads, OutsideEffect(q) PROVE q # p /\ pc'[p] = pc[p] /\ job'[p] = job[p] /\ UNCHANGED disk
  BY <1>3 DEF OutsideEffect, LocksGuardCallbacks
<1>4. ASSUME NEW d \in Digests, Age(d)
      PROVE  /\ pc' = pc /\ job' = job /\ file' = file /\ tag' = tag /\ temps' = temps
             /\ \A e \in Digests : dir'[e] = "absent" <=> dir[e] = "absent"
  BY <1>4 DEF Age, TypeOK, DiskTypeOK
<1>5. CASE UNCHANGED vars
  BY <1>5 DEF vars, disk
<1> QED BY <1>1, <1>2, <1>3, <1>4, <1>5, StepSplit DEF disk

-----------------------------------------------------------------------------
(* No step of anybody makes a tag refer to a manifest on the list of
   CollectGarbage, or puts a referenced manifest on it. *)
LEMMA CollectorKept ==
    ASSUME ConstantsAssumption, TypeOK, LocksGuardCallbacks, CollectorSparesReferenced, [Next]_vars
    PROVE  CollectorSparesReferenced'
<1> USE DEF CollectorSparesReferenced
<1>0. /\ pc \in [Threads -> Steps] /\ job \in [Threads -> Job] /\ Collector \in Threads /\ Collector \notin Clients
      /\ tag \in [Tags -> Digests \cup {None}]
      /\ {"sweep", "removeAll"} \subseteq Critical \ First
  BY DEF TypeOK, ThreadTypeOK, DiskTypeOK, Threads, Critical, AbortPoints, LinkPoints, First,
           ConstantsAssumption
<1> SUFFICES ASSUME pc'[Collector] \in {"sweep", "removeAll"} PROVE CollectorSparesReferenced'
  OBVIOUS
<1>1. CASE ScanReferences
  BY <1>0, <1>1 DEF ScanReferences, Referenced, Goto, disk
<1>2. CASE Sweep
  <2>1. Referenced' = Referenced BY <1>2 DEF Sweep, Referenced, disk
  <2>2. CASE job[Collector].victims = {} /\ UNCHANGED job
    BY <1>0, <1>2, <2>1, <2>2 DEF Sweep, Goto, Critical, First
  <2>3. ASSUME NEW d \in job[Collector].victims,
               job' = [job EXCEPT ![Collector] = [@ EXCEPT !.victims = job[Collector].victims \ {d}, !.digest = d]]
        PROVE CollectorSparesReferenced'
    <3>1. job'[Collector].victims = job[Collector].victims \ {d} /\ job'[Collector].digest = d
      BY <1>0, <2>3 DEF Job
    <3> QED BY <1>2, <2>1, <3>1 DEF Sweep
  <2> QED BY <1>2, <2>2, <2>3 DEF Sweep
<1>3. CASE RemoveDirectory(Collector)
  <2>1. pc'[Collector] = "sweep" /\ pc[Collector] = "removeAll" /\ job' = job /\ Referenced' = Referenced
    BY <1>0, <1>3 DEF RemoveDirectory, AfterRemoval, Referenced, Goto
  <2> QED BY <2>1
<1>3a. ASSUME NEW f \in Files, RemoveFile(Collector, f) PROVE CollectorSparesReferenced'
  <2>1. pc' = pc /\ pc[Collector] = "removeAll" /\ job' = job /\ Referenced' = Referenced
    BY <1>3a DEF RemoveFile, Referenced
  <2> QED BY <2>1
<1>4. CASE Release(Collector) \/ LockedStepFails(Collector)
  BY <1>0, <1>4 DEF Release, LockedStepFails, Finish, FinishFailed, Goto
<1>5. CASE Crash
  BY <1>0, <1>5 DEF Crash
<1>6. CASE flock = Collector
  <2>1. CASE CollectorInside
    BY <1>1, <1>2, <1>3, <1>3a, <1>4, <2>1 DEF CollectorInside
  <2>2. CASE pc'[Collector] = pc[Collector] /\ job'[Collector] = job[Collector] /\ tag' = tag /\ temps' = temps
    BY <2>2 DEF Referenced
  <2> QED BY <1>0, <1>5, <1>6, <2>1, <2>2, HolderUndisturbed
<1>7. CASE flock # Collector
  <2>1. pc[Collector] \notin Critical BY <1>0, <1>7 DEF LocksGuardCallbacks
  <2>2. ~CollectorInside BY <2>1, InsideIsCritical
  <2>3. ASSUME NEW c \in Clients, ClientInside(c) PROVE FALSE
    BY <1>0, <2>1, <2>3, OwnStep DEF Threads
  <2>4. ASSUME NEW p \in Threads, OutsideEffect(p) PROVE FALSE
    BY <1>0, <2>1, <2>4 DEF OutsideEffect
  <2>5. ASSUME NEW d \in Digests, Age(d) PROVE FALSE
    BY <1>0, <2>1, <2>5 DEF Age
  <2>6. CASE UNCHANGED vars BY <1>0, <2>1, <2>6 DEF vars
  <2> QED BY <1>5, <2>2, <2>3, <2>4, <2>5, <2>6, StepSplit
<1> QED BY <1>6, <1>7

(* Inside a callback a handler keeps its operation, tags and digest, but for
   the digest deleteManifestReferenceLocked resolves from the tag. *)
LEMMA InsideJob ==
    ASSUME TypeOK, NEW c \in Clients, ClientInside(c)
    PROVE  \/ pc'[c] \in {"idle", "nextVictim"}
           \/ /\ job'[c].op = job[c].op /\ job'[c].tags = job[c].tags
              /\ job'[c].digest = job[c].digest \/ (job'[c].digest \in Digests /\ pc[c] = "removeTag")
<1> USE DEF Goto, Finish, FinishFailed, StartRollback
<1>0. /\ pc \in [Threads -> Steps] /\ job \in [Threads -> Job] /\ c \in Threads
      /\ tag \in [Tags -> Digests \cup {None}] /\ job[c].tags \subseteq Tags
  BY DEF TypeOK, ThreadTypeOK, DiskTypeOK, Threads, Job
<1> DEFINE Kept == /\ job'[c].op = job[c].op /\ job'[c].tags = job[c].tags
                   /\ job'[c].digest = job[c].digest
<1>a. FinishFailed(c) => Kept BY <1>0 DEF Job
<1>b. StartRollback(c) => Kept BY <1>0 DEF Job
<1>c. ASSUME NEW t, job' = [job EXCEPT ![c].todo = @ \ {t}] PROVE Kept BY <1>0, <1>c DEF Job
<1>1. CASE ManifestStep(c)
  BY <1>1, <1>a DEF ManifestStep, MakeManifestDir, ReadManifest, OpenFile, WriteFile
<1>2. CASE CheckPolicy(c)
  <2>1. CASE job' = [job EXCEPT ![c] = [@ EXCEPT !.todo = job[c].tags, !.prior = tag]]
    BY <1>0, <2>1 DEF Job
  <2> QED BY <1>2, <1>a, <2>1 DEF CheckPolicy
<1>3. CASE StatAndWriteTemp(c) \/ RenameTag(c) \/ UpsertTags(c) \/ RollbackTag(c) \/ RollbackDone(c) \/ ReadBackTag(c)
  BY <1>3, <1>a, <1>b, <1>c
       DEF StatAndWriteTemp, RenameTag, UpsertTags, RollbackTag, RollbackDone, ReadBackTag
<1>4. CASE RemoveTagFile(c)
  <2>1. PICK t \in job[c].tags : IF tag[t] = None THEN FinishFailed(c) ELSE job' = [job EXCEPT ![c].digest = tag[t]]
    BY <1>4 DEF RemoveTagFile
  <2>2. CASE tag[t] # None
    <3>1. tag[t] \in Digests BY <1>0, <2>2
    <3>2. job'[c].op = job[c].op /\ job'[c].tags = job[c].tags /\ job'[c].digest = tag[t]
      BY <1>0, <2>1, <2>2 DEF Job
    <3> QED BY <1>4, <3>1, <3>2 DEF RemoveTagFile
  <2> QED BY <1>a, <2>1, <2>2
<1>5. CASE StatManifest(c) \/ RemoveDirectory(c) \/ Untag(c) \/ ForgetReference(c) \/ PolicyStep(c) \/ \E f \in Files : RemoveFile(c, f)
  BY <1>5, <1>a
       DEF StatManifest, RemoveDirectory, Untag, ForgetReference, RemoveFile, PolicyStep,
           CheckRepository, WritePolicy
<1>6. CASE Release(c)
  BY <1>0, <1>6 DEF Release
<1>7. CASE LockedStepFails(c) \/ LinkStepFails(c) \/ RollbackStepFails(c)
  BY <1>7, <1>a, <1>b, <1>c DEF LockedStepFails, LinkStepFails, RollbackStepFails
<1> QED BY <1>1, <1>2, <1>3, <1>4, <1>5, <1>6, <1>7 DEF ClientInside, TagStep, DeleteStep

-----------------------------------------------------------------------------
\* The stages of a push that need the directory of the manifest ...
DirectoryStages == {"writeContent", "openMediaType", "writeMediaType"}
\* ... and those that need its two files.
LinkStages == {"check", "link", "rename", "upsert"}

\* What PutManifestContent has achieved at each stage of a push.
PushStage(c) ==
    /\ pc[c] = "mkdir" => job[c].op = "put"
    /\ pc[c] = "getManifest" => job[c].op = "addTag"
    /\ pc[c] \in Critical \cup {"tagMu", "flock"} /\ job[c].op = "put" => job[c].digest \in Digests
    /\ pc[c] \in {"openContent"} \cup DirectoryStages => job[c].op = "put"
    /\ pc[c] \in DirectoryStages => dir[job[c].digest] # "absent"
    /\ job[c].op = "put" /\ pc[c] \in {"openMediaType", "writeMediaType"} \cup LinkStages =>
           file[job[c].digest]["content"] = "whole"
    /\ job[c].op = "put" /\ pc[c] \in LinkStages => file[job[c].digest]["mediaType"] = "whole"

PushStages == \A c \in Clients : PushStage(c)

(* Before its callback a push has only been received: a validated digest. *)
LEMMA OutsideJob ==
    ASSUME ConstantsAssumption, TypeOK, LocksGuardCallbacks, [Next]_vars, NEW c \in Clients,
           pc[c] \notin Critical, pc'[c] \in Critical \cup {"tagMu", "flock"}
    PROVE  /\ pc'[c] \in Critical => pc'[c] \in First
           /\ pc'[c] = "mkdir" => job'[c].op = "put"
           /\ pc'[c] = "getManifest" => job'[c].op = "addTag"
           /\ job'[c].op = "put" => job'[c].digest \in Digests \/ (pc[c] \in {"tagMu", "flock"} /\ job'[c] = job[c])
<1> USE DEF Goto, Finish
<1>0. /\ pc \in [Threads -> Steps] /\ job \in [Threads -> Job] /\ Clients \subseteq Threads
      /\ Collector \in Threads /\ c \in Threads /\ c # Collector
      /\ Critical \cap (Unlocked \cup {"idle", "tagMu", "flock"}) = {}
  BY DEF TypeOK, ThreadTypeOK, Threads, ConstantsAssumption, Critical, AbortPoints, LinkPoints,
           Unlocked
<1> DEFINE Goal == /\ pc'[c] \in Critical => pc'[c] \in First
                   /\ pc'[c] = "mkdir" => job'[c].op = "put"
                   /\ pc'[c] = "getManifest" => job'[c].op = "addTag"
                   /\ job'[c].op = "put" => job'[c].digest \in Digests \/ (pc[c] \in {"tagMu", "flock"} /\ job'[c] = job[c])
<1>1. CASE Receive(c)
  <2>1. PICK r \in Requests :
            /\ pc' = [pc EXCEPT ![c] = EntryStep(r)]
            /\ job' = [job EXCEPT ![c] = [IdleJob EXCEPT !.op = r.op, !.digest = r.digest,
                                                         !.tags = r.tags, !.policy = r.policy]]
    BY <1>1 DEF Receive
  <2>2. r.op = "put" => r.digest \in Digests BY DEF ConstantsAssumption, WellFormed
  <2>3. job'[c].op = r.op /\ job'[c].digest = r.digest BY <1>0, <2>1 DEF IdleJob
  <2>4. pc'[c] \notin Critical
    BY <1>0, <2>1, EntrySteps
  <2>5. "mkdir" \in Critical /\ "getManifest" \in Critical BY DEF Critical, AbortPoints
  <2> QED BY <2>2, <2>3, <2>4, <2>5
<1>2. CASE AcquireTagMu(c)
  BY <1>0, <1>2 DEF AcquireTagMu, Critical, AbortPoints, LinkPoints
<1>3. CASE AcquireFlock(c)
  <2>1. (FirstStep(job[c].op) = "mkdir" => job[c].op = "put") /\ (FirstStep(job[c].op) = "getManifest" => job[c].op = "addTag") BY DEF FirstStep
  <2> QED BY <1>0, <1>3, <2>1, FirstSteps DEF AcquireFlock, First
<1>4. CASE FlockFails(c)
  BY <1>0, <1>4 DEF FlockFails, Critical, AbortPoints, LinkPoints
<1>5. CASE RepositoryDeleteStep(c)
  <2>1. CASE NextVictim(c)
    <3>1. PICK d \in job[c].victims :
             /\ job' = [job EXCEPT ![c] = [@ EXCEPT !.digest = d, !.victims = job[c].victims \ {d}]]
             /\ pc' = [pc EXCEPT ![c] = "tagMu"]
      BY <1>0, <2>1 DEF NextVictim
    <3>2. d \in Digests BY <1>0 DEF Job
    <3>3. job'[c].digest = d BY <1>0, <3>1 DEF Job
    <3> QED BY <1>0, <3>1, <3>2, <3>3 DEF Critical, AbortPoints, LinkPoints
  <2>2. CASE ListTags(c) \/ DropRepository(c)
    BY <1>0, <2>2 DEF ListTags, DropRepository, Critical, AbortPoints, LinkPoints
  <2> QED BY <1>5, <2>1, <2>2 DEF RepositoryDeleteStep
<1>6. CASE PullStep(c) \/ UnlockedStepFails(c)
  BY <1>0, <1>6
       DEF PullStep, ResolveTag, ReadFile, MarkRepositoryPulled, UnlockedStepFails, Critical,
           AbortPoints, LinkPoints
<1>7. CASE pc'[c] = pc[c] /\ job'[c] = job[c]
  BY <1>0, <1>7 DEF Critical, AbortPoints
<1>8. CASE Crash
  BY <1>0, <1>8 DEF Crash
<1>9. ~ClientInside(c)
  BY InsideIsCritical
<1>10. ASSUME NEW p \in Threads, p # c, OutsideEffect(p) PROVE pc'[c] = pc[c] /\ job'[c] = job[c]
  BY <1>0, <1>10 DEF OutsideEffect
<1>11. ASSUME NEW p \in Clients, ClientInside(p) PROVE pc'[c] = pc[c] /\ job'[c] = job[c]
  BY <1>0, <1>9, <1>11, OwnStep
<1>12. ASSUME CollectorInside PROVE pc'[c] = pc[c] /\ job'[c] = job[c]
  BY <1>0, <1>12, OwnStep
<1>13. ASSUME (\E d \in Digests : Age(d)) \/ UNCHANGED vars PROVE pc'[c] = pc[c] /\ job'[c] = job[c]
  BY <1>13 DEF Age, vars
<1>14. ASSUME ClientOutside(c) PROVE Goal
  BY <1>1, <1>2, <1>3, <1>4, <1>5, <1>6, <1>14 DEF ClientOutside
<1>15. ASSUME NEW p \in Threads, OutsideEffect(p) PROVE Goal
  <2>1. CASE p = c BY <1>14, <1>15, <2>1 DEF OutsideEffect
  <2>2. CASE p # c BY <1>7, <1>10, <1>15, <2>2
  <2> QED BY <2>1, <2>2
<1> QED
  BY <1>7, <1>8, <1>11, <1>12, <1>13, <1>15, StepSplit

-----------------------------------------------------------------------------
(* The pusher's own steps lead from stage to stage, ... *)
LEMMA PushStepTaken ==
    ASSUME ConstantsAssumption, TypeOK, NEW c \in Clients, ClientInside(c), PushStage(c)
    PROVE  PushStage(c)'
<1> USE DEF Goto, PushStage, DirectoryStages, LinkStages
<1>0. /\ pc \in [Threads -> Steps] /\ job \in [Threads -> Job] /\ c \in Threads /\ c # Collector
      /\ dir \in [Digests -> {"absent", "fresh", "aged"}]
      /\ file \in [Digests -> [Files -> {"absent", "torn", "whole"}]]
      /\ \A d \in Digests : dir[d] = "absent" => \A f \in Files : file[d][f] = "absent"
      /\ {"content", "mediaType"} = Files
      /\ DirectoryStages \cup LinkStages \cup {"mkdir", "openContent", "release", "rollback"} \subseteq Critical
      /\ None \notin Digests
  BY DEF TypeOK, ThreadTypeOK, DiskTypeOK, Threads, ConstantsAssumption, Files, Critical,
           AbortPoints, LinkPoints
<1>1. pc[c] \in Critical
  BY InsideIsCritical
<1>2. pc'[c] \in {"idle", "nextVictim"} => PushStage(c)'
  BY DEF Critical, AbortPoints, LinkPoints
<1> SUFFICES ASSUME pc'[c] \notin {"idle", "nextVictim"} PROVE PushStage(c)'
  BY <1>2
<1>3. /\ job'[c].op = job[c].op
      /\ job'[c].digest = job[c].digest \/ (job'[c].digest \in Digests /\ pc[c] = "removeTag")
  BY InsideJob
<1>4. ASSUME job[c].op = "put" PROVE job'[c].digest \in Digests
  BY <1>1, <1>3, <1>4
<1>5. CASE MakeManifestDir(c)
  <2>1. pc'[c] = "openContent" /\ pc[c] = "mkdir" BY <1>0, <1>5 DEF MakeManifestDir, AfterMkdir
  <2> QED BY <1>3, <1>4, <2>1
<1>6. CASE OpenFile(c, "content")
  <2>1. pc'[c] = "writeContent" /\ pc[c] = "openContent" /\ job' = job BY <1>0, <1>6 DEF OpenFile
  <2>2. job[c].digest \in Digests /\ job[c].op = "put" BY <1>0, <2>1
  <2>3. dir'[job[c].digest] # "absent" BY <1>0, <1>6, <2>2 DEF OpenFile
  <2> QED BY <2>1, <2>2, <2>3
<1>7. CASE OpenFile(c, "mediaType")
  <2>1. pc'[c] = "writeMediaType" /\ pc[c] = "openMediaType" /\ job' = job BY <1>0, <1>7
       DEF OpenFile
  <2>2. job[c].digest \in Digests /\ job[c].op = "put" BY <1>0, <2>1
  <2>3. dir'[job[c].digest] # "absent" /\ file'[job[c].digest]["content"] = file[job[c].digest]["content"]
    BY <1>0, <1>7, <2>2 DEF OpenFile
  <2> QED BY <2>1, <2>2, <2>3
<1>8. CASE WriteFile(c, "content")
  <2>1. pc'[c] = "openMediaType" /\ pc[c] = "writeContent" /\ job' = job /\ dir' = dir
    BY <1>0, <1>8
       DEF WriteFile
  <2>2. job[c].digest \in Digests /\ job[c].op = "put" BY <1>0, <2>1
  <2>3. file'[job[c].digest]["content"] = "whole" BY <1>0, <1>8, <2>2 DEF WriteFile
  <2> QED BY <2>1, <2>2, <2>3
<1>9. CASE WriteFile(c, "mediaType")
  <2>1. pc'[c] \in {"release", "check"} /\ pc[c] = "writeMediaType" /\ job' = job /\ dir' = dir
    BY <1>0, <1>9 DEF WriteFile
  <2>2. job[c].digest \in Digests /\ job[c].op = "put" BY <1>0, <2>1
  <2>3. file'[job[c].digest]["mediaType"] = "whole" /\ file'[job[c].digest]["content"] = file[job[c].digest]["content"]
    BY <1>0, <1>9, <2>2 DEF WriteFile
  <2> QED BY <1>0, <2>1, <2>2, <2>3
<1>10. CASE TagStep(c)
  <2>1. /\ pc'[c] \in {"link", "rename", "upsert"} => pc[c] \in LinkStages
        /\ pc'[c] \in Critical \ ({"mkdir", "getManifest", "openContent", "check"} \cup DirectoryStages)
        /\ file' = file
    <3> USE <1>0 DEF Critical, AbortPoints, LinkPoints, FinishFailed, StartRollback, disk
    <3>1. CASE CheckPolicy(c) BY <3>1 DEF CheckPolicy
    <3>2. CASE StatAndWriteTemp(c) \/ RenameTag(c) \/ UpsertTags(c) BY <3>2
         DEF StatAndWriteTemp, RenameTag, UpsertTags
    <3>3. CASE RollbackTag(c) \/ RollbackDone(c) \/ ReadBackTag(c) BY <3>3
         DEF RollbackTag, RollbackDone, ReadBackTag
    <3> QED BY <1>10, <3>1, <3>2, <3>3 DEF TagStep
  <2>2. job[c].op = "put" /\ pc[c] \in LinkStages => job'[c].digest = job[c].digest
    BY <1>3
  <2> QED BY <1>3, <1>4, <2>1, <2>2
<1>11. CASE ReadManifest(c)
  <2>1. pc[c] = "getManifest" /\ pc'[c] \in {"check", "release"} BY <1>0, <1>11
       DEF ReadManifest, FinishFailed
  <2>2. job[c].op # "put"
    BY <2>1
  <2> QED BY <1>0, <1>3, <1>4, <2>1, <2>2
<1>12. CASE Release(c) \/ DeleteStep(c) \/ PolicyStep(c) \/ LockedStepFails(c) \/ LinkStepFails(c) \/ RollbackStepFails(c)
  <2>1. pc'[c] \in Critical \ ({"mkdir", "getManifest", "openContent"} \cup DirectoryStages \cup LinkStages)
    <3> USE <1>0 DEF Critical, AbortPoints, LinkPoints, FinishFailed, StartRollback, Finish
    <3>1. CASE Release(c) BY <3>1 DEF Release
    <3>2. CASE DeleteStep(c)
      <4>1. CASE StatManifest(c) \/ RemoveTagFile(c) \/ ForgetReference(c)
        BY <4>1 DEF StatManifest, RemoveTagFile, ForgetReference
      <4>2. CASE RemoveDirectory(c) BY <4>2 DEF RemoveDirectory, AfterRemoval
      <4>3. CASE Untag(c) BY <4>3 DEF Untag
      <4>4. ASSUME NEW f \in Files, RemoveFile(c, f)
            PROVE  pc'[c] \in Critical \ ({"mkdir", "getManifest", "openContent"} \cup DirectoryStages \cup LinkStages)
        BY <4>4 DEF RemoveFile
      <4> QED BY <3>2, <4>1, <4>2, <4>3, <4>4 DEF DeleteStep
    <3>3. CASE PolicyStep(c) BY <3>3 DEF PolicyStep, CheckRepository, WritePolicy
    <3>4. CASE LockedStepFails(c) \/ LinkStepFails(c) \/ RollbackStepFails(c)
      BY <3>4 DEF LockedStepFails, LinkStepFails, RollbackStepFails
    <3> QED BY <1>12, <3>1, <3>2, <3>3, <3>4
  <2> QED BY <1>3, <1>4, <2>1
<1> QED BY <1>0, <1>5, <1>6, <1>7, <1>8, <1>9, <1>10, <1>11, <1>12 DEF ClientInside, ManifestStep

-----------------------------------------------------------------------------
(* ... and under the flock nobody else undoes a stage. *)
LEMMA PushStagesKept ==
    ASSUME ConstantsAssumption, TypeOK, LocksGuardCallbacks, PushStages, [Next]_vars
    PROVE  PushStages'
<1> SUFFICES ASSUME NEW c \in Clients PROVE PushStage(c)'
  BY DEF PushStages
<1>0. /\ PushStage(c) /\ c \in Threads /\ pc \in [Threads -> Steps]
      /\ {"openContent", "mkdir", "getManifest"} \cup DirectoryStages \cup LinkStages \subseteq Critical
      /\ ({"openContent"} \cup DirectoryStages \cup LinkStages) \cap First = {}
      /\ "idle" \notin Critical \cup {"tagMu", "flock"}
  BY DEF PushStages, TypeOK, ThreadTypeOK, Threads, DirectoryStages, LinkStages, Critical,
           AbortPoints, LinkPoints, First
<1>1. CASE pc[c] \in Critical
  <2>1. flock = c BY <1>0, <1>1 DEF LocksGuardCallbacks
  <2>2. CASE ClientInside(c) BY <1>0, <2>2, PushStepTaken
  <2>3. CASE Crash
    <3>1. pc'[c] = "idle" BY <1>0, <2>3 DEF Crash
    <3> QED BY <1>0, <3>1 DEF PushStage
  <2>4. CASE /\ pc'[c] = pc[c] /\ job'[c] = job[c] /\ file' = file
             /\ \A d \in Digests : dir'[d] = "absent" <=> dir[d] = "absent"
    BY <1>0, <1>1, <2>4 DEF PushStage
  <2>5. c # Collector BY DEF ConstantsAssumption
  <2> QED BY <1>0, <2>1, <2>2, <2>3, <2>4, <2>5, HolderUndisturbed
<1>2. CASE pc[c] \notin Critical /\ pc'[c] \in Critical \cup {"tagMu", "flock"}
  <2>1. /\ pc'[c] \in Critical => pc'[c] \in First
        /\ pc'[c] = "mkdir" => job'[c].op = "put"
        /\ pc'[c] = "getManifest" => job'[c].op = "addTag"
        /\ job'[c].op = "put" => job'[c].digest \in Digests \/ (pc[c] \in {"tagMu", "flock"} /\ job'[c] = job[c])
    BY <1>2, OutsideJob
  <2>2. job'[c].op = "put" => job'[c].digest \in Digests BY <1>0, <2>1 DEF PushStage
  <2>3. pc'[c] \notin {"openContent"} \cup DirectoryStages \cup LinkStages BY <1>0, <1>2, <2>1
  <2> QED BY <2>1, <2>2, <2>3 DEF PushStage, DirectoryStages, LinkStages
<1>3. CASE pc'[c] \notin Critical \cup {"tagMu", "flock"}
  BY <1>0, <1>3 DEF PushStage, LinkStages, DirectoryStages
<1> QED BY <1>1, <1>2, <1>3

(* The disk keeps its types, and files lie in existing directories. *)
LEMMA DiskTyped == ASSUME ConstantsAssumption, TypeOK, PushStages, [Next]_vars PROVE DiskTypeOK'
<1> USE DEF DiskTypeOK, Files
<1>0. DiskTypeOK /\ job \in [Threads -> Job] /\ Clients \subseteq Threads
  BY DEF TypeOK, ThreadTypeOK, Threads
<1>1. CASE UNCHANGED disk
  BY <1>0, <1>1 DEF disk
<1>2. CASE \E d \in Digests : Age(d)
  BY <1>0, <1>2 DEF Age
<1>3. CASE Crash
  <2>1. \A left \in LeftTemps : left \subseteq Digests BY DEF LeftTemps
  <2> QED BY <1>0, <1>3, <2>1 DEF Crash
<1>4. ASSUME NEW p \in Threads, NEW f \in Files, RemoveFile(p, f) PROVE DiskTypeOK'
  BY <1>0, <1>4 DEF RemoveFile
<1>5. ASSUME NEW p \in Threads, RemoveDirectory(p) PROVE DiskTypeOK'
  BY <1>0, <1>5 DEF RemoveDirectory
<1>6. ASSUME NEW c \in Clients PROVE
        /\ PushStage(c)
        /\ job[c].digest \in Digests \cup {None}
        /\ job[c].prior \in [Tags -> Digests \cup {None}]
  BY <1>0 DEF PushStages, Job
<1>7. ASSUME NEW c \in Clients, MakeManifestDir(c) PROVE DiskTypeOK'
  <2>1. job[c].digest \in Digests
    BY <1>6, <1>7 DEF PushStage, MakeManifestDir, Critical, AbortPoints
  <2> QED BY <1>0, <1>7, <2>1 DEF MakeManifestDir
<1>8. ASSUME NEW c \in Clients, NEW f \in Files, OpenFile(c, f) PROVE DiskTypeOK'
  BY <1>0, <1>6, <1>8 DEF OpenFile
<1>9. ASSUME NEW c \in Clients, NEW f \in Files, WriteFile(c, f) PROVE DiskTypeOK'
  <2>1. dir[job[c].digest] # "absent"
    BY <1>6, <1>9 DEF PushStage, WriteFile, DirectoryStages
  <2> QED BY <1>0, <1>6, <1>9, <2>1 DEF WriteFile
<1>10. ASSUME NEW c \in Clients, RenameTag(c) \/ RollbackTag(c) PROVE DiskTypeOK'
  <2>1. job[c].todo \subseteq Tags BY <1>0 DEF Job
  <2> QED BY <1>0, <1>6, <1>10, <2>1 DEF RenameTag, RollbackTag, RolledBack
<1>11. ASSUME NEW c \in Clients, Untag(c) \/ RemoveTagFile(c) PROVE DiskTypeOK'
  BY <1>0, <1>11 DEF Untag, RemoveTagFile
<1> QED BY <1>1, <1>2, <1>3, <1>4, <1>5, <1>7, <1>8, <1>9, <1>10, <1>11, DiskFootprint DEF DiskStep

(* Faults and crashes stay within their bounds. *)
LEMMA BudgetSpent ==
    ASSUME [Next]_vars
    PROVE  /\ UNCHANGED faults \/ (faults < MaxFaults /\ faults' = faults + 1)
           /\ UNCHANGED crashes \/ (crashes < MaxCrashes /\ crashes' = crashes + 1)
<1> USE DEF budget
<1>1. ASSUME NEW c \in Clients, Receive(c) \/ ManifestStep(c) \/ TagStep(c) PROVE UNCHANGED budget
  BY <1>1 DEF Receive, ManifestStep, MakeManifestDir, ReadManifest, OpenFile, WriteFile,
     TagStep, CheckPolicy, StatAndWriteTemp, RenameTag, UpsertTags, RollbackTag, RollbackDone, ReadBackTag
<1>2. ASSUME NEW c \in Clients, DeleteStep(c) \/ PolicyStep(c) PROVE UNCHANGED budget
  BY <1>2
       DEF DeleteStep, PolicyStep, StatManifest, RemoveDirectory, Untag, RemoveTagFile,
           RemoveFile, ForgetReference,
     CheckRepository, WritePolicy
<1>3. ASSUME NEW c \in Clients, RepositoryDeleteStep(c) \/ PullStep(c) PROVE UNCHANGED budget
  BY <1>3
       DEF RepositoryDeleteStep, PullStep, ListTags, NextVictim, DropRepository, ResolveTag,
           ReadFile, MarkRepositoryPulled
<1>4. ASSUME NEW c \in Clients, AcquireTagMu(c) \/ AcquireFlock(c) \/ Release(c) PROVE UNCHANGED budget
  BY <1>4 DEF AcquireTagMu, AcquireFlock, Release
<1>5. ASSUME CollectorStep PROVE UNCHANGED budget
  BY <1>5
       DEF CollectorStep, StartCollection, ScanReferences, Sweep, AcquireFlock, Release,
           RemoveDirectory, RemoveFile
<1>6. ASSUME Fault PROVE faults < MaxFaults /\ faults' = faults + 1 /\ crashes' = crashes
  BY <1>6
       DEF Fault, LockedStepFails, FlockFails, LinkStepFails, RollbackStepFails,
           UnlockedStepFails, CountFault
<1>7. CASE Crash BY <1>7 DEF Crash
<1>8. CASE (\E d \in Digests : Age(d)) \/ UNCHANGED vars BY <1>8 DEF Age, vars
<1> QED BY <1>1, <1>2, <1>3, <1>4, <1>5, <1>6, <1>7, <1>8 DEF Next, ClientStep

(* Locks, program counters and local variables keep their types. *)
LEMMA ThreadsTyped ==
    ASSUME ConstantsAssumption, TypeOK, [Next]_vars PROVE ThreadTypeOK'
<1>0. TypeOK /\ pc \in [Threads -> Steps] /\ tagMu \in Clients \cup {None} /\ flock \in Threads \cup {None}
      /\ "idle" \in Steps /\ "flock" \in Steps /\ "tagMu" \in Steps /\ Critical \subseteq Steps /\ Unlocked \subseteq Steps
      /\ Collector \in Threads /\ Clients \subseteq Threads
  BY DEF TypeOK, ThreadTypeOK, Steps, Threads
<1> DEFINE Typed == pc' \in [Threads -> Steps] /\ tagMu' \in Clients \cup {None} /\ flock' \in Threads \cup {None}
<1>1. Typed
  <2> USE <1>0 DEF locks, Goto, Finish
  <2>1. CASE UNCHANGED <<pc, locks>> BY <2>1
  <2>2. ASSUME NEW p \in Threads, Inside(p) PROVE Typed BY <2>2 DEF Inside
  <2>3. ASSUME NEW c \in Clients, Outside(c) PROVE Typed BY <2>3 DEF Outside
  <2>4. CASE StartCollection BY <2>4 DEF StartCollection
  <2>5. ASSUME NEW c \in Clients, AcquireTagMu(c) PROVE Typed BY <2>5 DEF AcquireTagMu
  <2>6. ASSUME NEW p \in Threads, AcquireFlock(p) PROVE Typed
    BY <2>6, FirstSteps DEF AcquireFlock, Critical, AbortPoints
  <2>7. ASSUME NEW p \in Threads, Release(p) PROVE Typed
    BY <2>7 DEF Release, MuAfterRelease, Unlocked
  <2>8. ASSUME NEW p \in Threads, FlockFails(p) PROVE Typed
    BY <2>8 DEF FlockFails, MuAfterRelease
  <2>9. CASE Crash BY <2>9 DEF Crash
  <2> QED BY <2>1, <2>2, <2>3, <2>4, <2>5, <2>6, <2>7, <2>8, <2>9, StepKinds
<1>2. job' \in [Threads -> Job] BY JobTyped
<1>3. faults' \in 0..MaxFaults /\ crashes' \in 0..MaxCrashes
  <2>1. MaxFaults \in Nat /\ MaxCrashes \in Nat /\ faults \in 0..MaxFaults /\ crashes \in 0..MaxCrashes
    BY <1>0 DEF ConstantsAssumption, TypeOK, ThreadTypeOK
  <2> QED BY <2>1, BudgetSpent
<1> QED BY <1>1, <1>2, <1>3 DEF ThreadTypeOK

-----------------------------------------------------------------------------
\* The inductive invariant: the collector's safety needs the locks, whole
\* manifests need the stages of a push, and all of them need the types.
Inductive == TypeOK /\ LocksGuardCallbacks /\ CollectorSparesReferenced /\ PushStages

(* The inductive invariant holds in every reachable state. *)
THEOREM InductiveHolds == Spec => []Inductive
<1>1. Init => Inductive
  <2> USE DEF Init
  <2>0. Init => DatabaseTypeOK
    BY DEF DatabaseTypeOK, NoDigests
  <2>1. Init => DiskTypeOK
    BY DEF DiskTypeOK, NoDigests
  <2>2. Init => ThreadTypeOK
    BY ConstantsAssumption
       DEF ThreadTypeOK, Steps, Job, IdleJob, NoDigests, Operations, Policies, ConstantsAssumption
  <2>3. Init => LocksGuardCallbacks
    BY ConstantsAssumption
       DEF LocksGuardCallbacks, ConstantsAssumption, Critical, AbortPoints, LinkPoints, Threads
  <2>4. Init => CollectorSparesReferenced /\ PushStages
    BY DEF CollectorSparesReferenced, PushStages, PushStage, Threads, Critical, AbortPoints,
             LinkPoints,
           DirectoryStages, LinkStages
  <2> QED BY <2>0, <2>1, <2>2, <2>3, <2>4 DEF Inductive, TypeOK
<1>2. Inductive /\ [Next]_vars => Inductive'
  BY ConstantsAssumption, DiskTyped, DatabaseTyped, ThreadsTyped, LocksKept, CollectorKept, PushStagesKept
     DEF Inductive, TypeOK
<1> QED BY <1>1, <1>2, PTL DEF Spec

(* Every variable has its type, files have a directory and rows a repository. *)
THEOREM TypeCorrect == Spec => []TypeOK
BY InductiveHolds, PTL DEF Inductive

(* tagMu and the flock are held exactly around the callbacks, so never two
   threads are inside one (server.go, withTagMutationLock). *)
THEOREM MutualExclusion == Spec => []LocksGuardCallbacks
BY InductiveHolds, PTL DEF Inductive

(* CollectGarbage never deletes a manifest that a tag refers to. *)
THEOREM CollectorIsSafe == Spec => []CollectorSparesReferenced
BY InductiveHolds, PTL DEF Inductive

(* A push moves a tag only to a manifest whose content and media type are
   written (server.go, putManifestAndTags). *)
THEOREM PushesPublishWholeManifests == Spec => []PublishedManifestsAreWhole
<1>1. Inductive => PublishedManifestsAreWhole
  BY DEF Inductive, PushStages, PushStage, LinkStages, PublishedManifestsAreWhole, Files
<1> QED BY <1>1, InductiveHolds, PTL

-----------------------------------------------------------------------------
(***************************************************************************)
(* The overwrite policies of tags are obeyed.                              *)
(***************************************************************************)

\* The UI's deletion of a repository without tags drops its row without the
\* locks, and so between the two statements of a policy change: the policy then
\* outlives the repository.
NoRepositoryDeletion == \A r \in Requests : r.op # "deleteRepository"

\* No handler is inside that deletion.
NotDeleting(c) == job[c].op # "deleteRepository" /\ pc[c] \notin {"list", "nextVictim", "drop"}

\* linkManifestTagsLocked: what the policy check allowed stays allowed, and a tag
\* being linked or rolled back is at its prior digest or at the new one.
LinkAllowed(c) ==
    pc[c] \in LinkPoints \cup {"rollback"} =>
        /\ job[c].todo \subseteq job[c].tags
        /\ \A t \in job[c].tags :
              /\ job[c].prior[t] \in {None, job[c].digest} \/ t \notin EffectivePolicy
              /\ tag[t] \in {job[c].prior[t], job[c].digest}

PolicyStage(c) == NotDeleting(c) /\ LinkAllowed(c) /\ (pc[c] = "policyWrite" => repo)

PolicyInductive == PolicyHasRepository /\ \A c \in Clients : PolicyStage(c)

(* Nobody enters the deletion of a repository when no request asks for it. *)
LEMMA NotDeletingKept ==
    ASSUME ConstantsAssumption, NoRepositoryDeletion, Inductive, [Next]_vars, NEW c \in Clients, NotDeleting(c)
    PROVE  NotDeleting(c)'
<1> USE DEF NotDeleting, Goto, Finish, IdleJob
<1>0. /\ pc \in [Threads -> Steps] /\ job \in [Threads -> Job] /\ c \in Threads /\ c # Collector
      /\ TypeOK /\ LocksGuardCallbacks
      /\ {"list", "nextVictim", "drop"} \cap Critical = {}
  BY DEF Inductive, TypeOK, ThreadTypeOK, Threads, ConstantsAssumption, Critical, AbortPoints,
           LinkPoints
<1>1. CASE ClientInside(c)
  <2>1. CASE Release(c) BY <1>0, <2>1 DEF Release
  <2>2. CASE ~Release(c)
    <3>1. pc[c] \in Critical BY <1>1, InsideIsCritical
    <3>2. pc'[c] \in Critical
      <4> USE <1>0 DEF FinishFailed, StartRollback
      <4>1. CASE ManifestStep(c)
        BY <4>1
             DEF ManifestStep, MakeManifestDir, AfterMkdir, ReadManifest, OpenFile, WriteFile,
                 Critical, AbortPoints
      <4>2. CASE CheckPolicy(c) \/ StatAndWriteTemp(c) \/ RenameTag(c) \/ UpsertTags(c) \/ RollbackTag(c)
                 \/ RollbackDone(c) \/ ReadBackTag(c)
        BY <4>2, <3>1
             DEF CheckPolicy, StatAndWriteTemp, RenameTag, UpsertTags, RollbackTag, RollbackDone,
                 ReadBackTag,
           Critical, AbortPoints, LinkPoints
      <4>3. CASE DeleteStep(c) \/ PolicyStep(c)
        BY <4>3, <3>1
             DEF DeleteStep, PolicyStep, StatManifest, RemoveDirectory, AfterRemoval, Untag,
                 RemoveTagFile,
           ForgetReference, RemoveFile, CheckRepository, WritePolicy, Critical, AbortPoints
      <4>4. CASE LockedStepFails(c) \/ LinkStepFails(c) \/ RollbackStepFails(c)
        BY <4>4, <3>1 DEF LockedStepFails, LinkStepFails, RollbackStepFails, Critical
      <4> QED BY <1>1, <2>2, <4>1, <4>2, <4>3, <4>4 DEF ClientInside, TagStep
    <3>3. pc'[c] \notin {"idle", "nextVictim"} BY <1>0, <3>2 DEF Critical, AbortPoints, LinkPoints
    <3> QED BY <1>0, <1>1, <3>2, <3>3, InsideJob
  <2> QED BY <2>1, <2>2
<1>2. CASE ClientOutside(c)
  <2>1. CASE Receive(c)
    <3>1. PICK r \in Requests :
              /\ pc' = [pc EXCEPT ![c] = EntryStep(r)]
              /\ job' = [job EXCEPT ![c] = [IdleJob EXCEPT !.op = r.op, !.digest = r.digest,
                                                           !.tags = r.tags, !.policy = r.policy]]
      BY <2>1 DEF Receive
    <3>2. r.op # "deleteRepository" BY DEF NoRepositoryDeletion
    <3>3. job'[c].op = r.op BY <1>0, <3>1
    <3>4. EntryStep(r) \notin {"list", "nextVictim", "drop"} BY <3>2 DEF EntryStep
    <3> QED BY <1>0, <3>1, <3>2, <3>3, <3>4
  <2>2. CASE AcquireTagMu(c) \/ FlockFails(c) \/ UnlockedStepFails(c)
    BY <1>0, <2>2 DEF AcquireTagMu, FlockFails, UnlockedStepFails
  <2>3. CASE AcquireFlock(c)
    BY <1>0, <2>3, FirstSteps DEF AcquireFlock
  <2>4. CASE RepositoryDeleteStep(c)
    BY <2>4 DEF RepositoryDeleteStep, ListTags, NextVictim, DropRepository
  <2>5. CASE PullStep(c)
    <3>1. CASE ResolveTag(c) BY <1>0, <3>1 DEF ResolveTag, Job
    <3>2. CASE MarkRepositoryPulled(c) BY <1>0, <3>2 DEF MarkRepositoryPulled
    <3>3. ASSUME NEW f \in Files, ReadFile(c, f) PROVE NotDeleting(c)' BY <1>0, <3>3
         DEF ReadFile, Job
    <3> QED BY <2>5, <3>1, <3>2, <3>3 DEF PullStep
  <2> QED BY <1>2, <2>1, <2>2, <2>3, <2>4, <2>5 DEF ClientOutside
<1>3. CASE pc'[c] = pc[c] /\ job'[c] = job[c]
  BY <1>3
<1>4. CASE Crash
  BY <1>0, <1>4 DEF Crash
<1>5. ASSUME NEW p \in Clients \ {c}, ClientInside(p) PROVE pc'[c] = pc[c] /\ job'[c] = job[c]
  BY <1>0, <1>5, OwnStep DEF Threads
<1>6. ASSUME CollectorInside PROVE pc'[c] = pc[c] /\ job'[c] = job[c]
  BY <1>0, <1>6, OwnStep DEF Threads
<1>7. ASSUME NEW p \in Threads \ {c}, OutsideEffect(p) PROVE pc'[c] = pc[c] /\ job'[c] = job[c]
  BY <1>0, <1>7 DEF OutsideEffect
<1>8. ASSUME (\E d \in Digests : Age(d)) \/ UNCHANGED vars PROVE pc'[c] = pc[c] /\ job'[c] = job[c]
  BY <1>8 DEF Age, vars
<1>9. OutsideEffect(c) => ClientOutside(c) BY DEF OutsideEffect
<1> QED BY <1>0, <1>1, <1>2, <1>3, <1>4, <1>5, <1>6, <1>7, <1>8, <1>9, StepSplit

-----------------------------------------------------------------------------
(* Then the policy or the repository goes away in two transactions only. *)
LEMMA DatabaseWriters ==
    ASSUME PolicyInductive, [Next]_vars
    PROVE  \/ UNCHANGED database
           \/ repo' /\ policy' = policy
           \/ \E c \in Clients : ForgetReference(c) \/ WritePolicy(c)
<1>1. ASSUME NEW c \in Clients, DropRepository(c) PROVE FALSE
  BY <1>1 DEF PolicyInductive, PolicyStage, NotDeleting, DropRepository
<1>2. ASSUME NEW c \in Clients, UpsertTags(c) \/ MarkRepositoryPulled(c) PROVE repo' /\ policy' = policy
  BY <1>2 DEF UpsertTags, MarkRepositoryPulled
<1> QED BY <1>1, <1>2, DatabaseFootprint DEF DatabaseStep

(* A policy keeps its repository. *)
LEMMA PolicyHasRepositoryKept ==
    ASSUME PolicyInductive, [Next]_vars PROVE PolicyHasRepository'
<1> USE DEF PolicyInductive, PolicyStage, PolicyHasRepository
<1>1. ASSUME NEW c \in Clients, ForgetReference(c) PROVE PolicyHasRepository'
  BY <1>1 DEF ForgetReference
<1>2. ASSUME NEW c \in Clients, WritePolicy(c) PROVE PolicyHasRepository'
  BY <1>2 DEF WritePolicy
<1> QED BY <1>1, <1>2, DatabaseWriters DEF database

(* From its policy check to its last link or rollback a handler sees the same
   effective policy: the other writers need the locks. *)
LEMMA PolicyStable ==
    ASSUME ConstantsAssumption, Inductive, PolicyInductive, [Next]_vars,
           NEW c \in Clients, pc[c] \in Critical \ {"forget", "policyWrite"}
    PROVE  EffectivePolicy' = EffectivePolicy /\ (repo => repo')
<1> USE DEF PolicyInductive, PolicyHasRepository
<1>1. ASSUME NEW e \in Clients, ForgetReference(e) \/ WritePolicy(e) PROVE FALSE
  <2>1. pc[e] \in {"forget", "policyWrite"} BY <1>1 DEF ForgetReference, WritePolicy
  <2>2. e = c BY <2>1 DEF Inductive, LocksGuardCallbacks, Threads, Critical, AbortPoints
  <2> QED BY <2>1, <2>2
<1>2. CASE UNCHANGED database BY <1>2 DEF database, EffectivePolicy
<1>3. CASE repo' /\ policy' = policy BY <1>3 DEF EffectivePolicy
<1> QED BY <1>1, <1>2, <1>3, DatabaseWriters

(* The linking handler's own steps stay within what was allowed. *)
LEMMA LinkStepTaken ==
    ASSUME ConstantsAssumption, Inductive, PolicyInductive, [Next]_vars,
           NEW c \in Clients, ClientInside(c), LinkAllowed(c)
    PROVE  LinkAllowed(c)'
<1> USE DEF Goto, FinishFailed, StartRollback, LinkAllowed
<1>0. /\ pc \in [Threads -> Steps] /\ job \in [Threads -> Job] /\ c \in Threads
      /\ tag \in [Tags -> Digests \cup {None}] /\ job[c].tags \subseteq Tags
  BY DEF Inductive, TypeOK, ThreadTypeOK, DiskTypeOK, Threads, Job
<1>1. pc[c] \in LinkPoints \cup {"rollback", "check"} => EffectivePolicy' = EffectivePolicy
  BY PolicyStable DEF Critical, AbortPoints, LinkPoints
<1>2. CASE CheckPolicy(c)
  <2>1. CASE FinishFailed(c) BY <1>0, <2>1 DEF LinkPoints
  <2>2. CASE /\ ~Rejected(c) /\ tag' = tag /\ pc[c] = "check"
             /\ job' = [job EXCEPT ![c] = [@ EXCEPT !.todo = job[c].tags, !.prior = tag]]
    <3>1. job'[c].todo = job[c].tags /\ job'[c].tags = job[c].tags /\ job'[c].prior = tag
          /\ job'[c].digest = job[c].digest
      BY <1>0, <2>2 DEF Job
    <3> QED BY <1>1, <2>2, <3>1 DEF Rejected
  <2> QED BY <1>2, <2>1, <2>2 DEF CheckPolicy, disk
<1>3. ASSUME pc[c] \in LinkPoints \cup {"rollback"},
             job'[c].tags = job[c].tags, job'[c].prior = job[c].prior, job'[c].digest = job[c].digest,
             job'[c].todo \subseteq job[c].tags,
             \A t \in job[c].tags : tag'[t] \in {tag[t], job[c].prior[t], job[c].digest}
      PROVE  LinkAllowed(c)'
  BY <1>1, <1>3
<1>4. ASSUME StartRollback(c) PROVE /\ job'[c].tags = job[c].tags /\ job'[c].prior = job[c].prior
                                    /\ job'[c].digest = job[c].digest /\ job'[c].todo \subseteq job[c].tags
  BY <1>0, <1>4 DEF Job
<1>5. ASSUME NEW t, job' = [job EXCEPT ![c].todo = @ \ {t}]
      PROVE  /\ job'[c].tags = job[c].tags /\ job'[c].prior = job[c].prior
             /\ job'[c].digest = job[c].digest /\ job'[c].todo = job[c].todo \ {t}
  BY <1>0, <1>5 DEF Job
<1>6. CASE StatAndWriteTemp(c)
  <2>1. tag' = tag /\ pc[c] = "link" BY <1>6 DEF StatAndWriteTemp, disk
  <2> QED BY <1>3, <1>4, <1>6, <2>1 DEF StatAndWriteTemp, LinkPoints
<1>7. CASE RenameTag(c)
  <2>1. PICK t \in job[c].todo : tag' = [tag EXCEPT ![t] = job[c].digest] /\ job' = [job EXCEPT ![c].todo = @ \ {t}]
    BY <1>7 DEF RenameTag
  <2>2. pc[c] = "rename" BY <1>7 DEF RenameTag
  <2>3. \A u \in job[c].tags : tag'[u] \in {tag[u], job[c].digest} BY <1>0, <2>1
  <2> QED BY <1>3, <1>5, <2>1, <2>2, <2>3 DEF LinkPoints
<1>8. CASE UpsertTags(c) \/ RollbackDone(c) \/ ReadBackTag(c) \/ Release(c)
  <2>1. pc'[c] \notin LinkPoints \cup {"rollback"}
    BY <1>0, <1>8 DEF UpsertTags, RollbackDone, ReadBackTag, Release, Finish, LinkPoints
  <2> QED BY <2>1
<1>9. CASE RollbackTag(c)
  <2>1. PICK t \in job[c].todo : tag' = [tag EXCEPT ![t] = RolledBack(c, t)] /\ job' = [job EXCEPT ![c].todo = @ \ {t}]
    BY <1>9 DEF RollbackTag
  <2>2. pc[c] = "rollback" BY <1>9 DEF RollbackTag
  <2>3. \A u \in job[c].tags : tag'[u] \in {tag[u], job[c].prior[u]} BY <1>0, <2>1 DEF RolledBack
  <2> QED BY <1>3, <1>5, <2>1, <2>2, <2>3
<1>10. CASE LinkStepFails(c) \/ RollbackStepFails(c)
  <2>1. tag' = tag /\ pc[c] \in LinkPoints \cup {"rollback"} BY <1>10
       DEF LinkStepFails, RollbackStepFails, disk
  <2> QED BY <1>3, <1>4, <1>5, <1>10, <2>1 DEF LinkStepFails, RollbackStepFails
<1>11. CASE ManifestStep(c) \/ DeleteStep(c) \/ PolicyStep(c) \/ LockedStepFails(c)
  <2>1. pc'[c] \notin LinkPoints \cup {"rollback"}
    <3> USE <1>0 DEF LinkPoints
    <3>1. CASE ManifestStep(c)
      BY <3>1 DEF ManifestStep, MakeManifestDir, AfterMkdir, ReadManifest, OpenFile, WriteFile
    <3>2. CASE StatManifest(c) \/ RemoveDirectory(c) \/ RemoveTagFile(c) \/ ForgetReference(c) \/ PolicyStep(c)
      BY <3>2 DEF StatManifest, RemoveDirectory, AfterRemoval, RemoveTagFile, ForgetReference,
         PolicyStep, CheckRepository, WritePolicy
    <3>3. CASE Untag(c) \/ \E f \in Files : RemoveFile(c, f)
      BY <3>3 DEF Untag, RemoveFile
    <3>4. CASE LockedStepFails(c) BY <3>4 DEF LockedStepFails
    <3> QED BY <1>11, <3>1, <3>2, <3>3, <3>4 DEF DeleteStep
  <2> QED BY <2>1
<1> QED BY <1>2, <1>6, <1>7, <1>8, <1>9, <1>10, <1>11 DEF ClientInside, TagStep

(* So do the steps of everybody else. *)
LEMMA PolicyStageKept ==
    ASSUME ConstantsAssumption, NoRepositoryDeletion, Inductive, PolicyInductive, [Next]_vars, NEW c \in Clients
    PROVE  PolicyStage(c)'
<1>0. /\ PolicyStage(c) /\ c \in Threads /\ c # Collector /\ pc \in [Threads -> Steps]
      /\ TypeOK /\ LocksGuardCallbacks
      /\ LinkPoints \cup {"rollback", "policyWrite"} \subseteq Critical \ First
      /\ "idle" \notin Critical
  BY DEF PolicyInductive, Inductive, TypeOK, ThreadTypeOK, Threads, ConstantsAssumption,
         Critical, AbortPoints, LinkPoints, First
<1>1. NotDeleting(c)'
  BY <1>0, NotDeletingKept DEF PolicyStage
<1>2. CASE pc[c] \in Critical
  <2>1. flock = c BY <1>0, <1>2 DEF LocksGuardCallbacks
  <2>2. CASE ClientInside(c)
    <3>1. LinkAllowed(c)' BY <1>0, <2>2, LinkStepTaken DEF PolicyStage
    <3>2. ASSUME pc'[c] = "policyWrite" PROVE repo'
      <4> USE <1>0 DEF Goto, FinishFailed, StartRollback, Finish
      <4>1. CASE PolicyStep(c)
        BY <4>1, <3>2 DEF PolicyStep, CheckRepository, RepositoryKnown, WritePolicy, database
      <4>2. CASE ManifestStep(c) \/ Release(c) \/ LockedStepFails(c) \/ LinkStepFails(c) \/ RollbackStepFails(c)
        BY <4>2, <3>2
             DEF ManifestStep, MakeManifestDir, AfterMkdir, ReadManifest, OpenFile, WriteFile,
           Release, LockedStepFails, LinkStepFails, RollbackStepFails
      <4>3. CASE TagStep(c)
        BY <4>3, <3>2
             DEF TagStep, CheckPolicy, StatAndWriteTemp, RenameTag, UpsertTags, RollbackTag,
                 RollbackDone,
           ReadBackTag
      <4>4. CASE StatManifest(c) \/ RemoveDirectory(c) \/ RemoveTagFile(c) \/ ForgetReference(c)
        BY <4>4, <3>2
             DEF StatManifest, RemoveDirectory, AfterRemoval, RemoveTagFile, ForgetReference
      <4>5. CASE Untag(c) \/ \E f \in Files : RemoveFile(c, f)
        BY <4>5, <3>2 DEF Untag, RemoveFile
      <4> QED BY <2>2, <4>1, <4>2, <4>3, <4>4, <4>5 DEF ClientInside, DeleteStep
    <3> QED BY <1>1, <3>1, <3>2 DEF PolicyStage
  <2>3. CASE Crash
    <3>1. pc'[c] = "idle" BY <1>0, <2>3 DEF Crash
    <3> QED BY <1>0, <1>1, <3>1 DEF PolicyStage, LinkAllowed
  <2>4. CASE pc'[c] = pc[c] /\ job'[c] = job[c] /\ tag' = tag
    <3>1. ASSUME NEW e \in Clients, ForgetReference(e) \/ WritePolicy(e) PROVE FALSE
      <4>1. pc[e] \in Critical /\ pc'[e] # pc[e]
        BY <1>0, <3>1 DEF ForgetReference, WritePolicy, Goto, Critical, AbortPoints, Threads
      <4>2. e = c BY <1>0, <2>1, <4>1 DEF LocksGuardCallbacks, Threads
      <4> QED BY <2>4, <4>1, <4>2
    <3>2. EffectivePolicy' = EffectivePolicy /\ (repo => repo')
      BY <3>1, DatabaseWriters DEF EffectivePolicy, PolicyInductive, PolicyHasRepository, database
    <3> QED BY <1>0, <1>1, <2>4, <3>2 DEF PolicyStage, LinkAllowed
  <2> QED BY <1>0, <2>1, <2>2, <2>3, <2>4, HolderUndisturbed
<1>3. CASE pc[c] \notin Critical
  <2>1. pc'[c] \in Critical => pc'[c] \in First
    BY <1>0, <1>3, OutsideJob
  <2> QED BY <1>0, <1>1, <2>1 DEF PolicyStage, LinkAllowed
<1> QED BY <1>2, <1>3

(* The stages of the policy hold in every reachable state. *)
THEOREM PolicyInductiveHolds ==
    ASSUME NoRepositoryDeletion PROVE Spec => []PolicyInductive
<1>1. Init => PolicyInductive
  <2>1. Init => PolicyHasRepository BY DEF Init, PolicyHasRepository
  <2>2. ASSUME Init, NEW c \in Clients PROVE PolicyStage(c)
    BY <2>2 DEF Init, Threads, IdleJob, PolicyStage, NotDeleting, LinkAllowed, LinkPoints
  <2> QED BY <2>1, <2>2 DEF PolicyInductive
<1>2. Inductive /\ PolicyInductive /\ [Next]_vars => PolicyInductive'
  BY ConstantsAssumption, PolicyHasRepositoryKept, PolicyStageKept DEF PolicyInductive
<1> QED BY <1>1, <1>2, InductiveHolds, PTL DEF Spec

(* Without repository deletions a policy always has its repository, and no push,
   link or rollback moves a tag that the policy protects (server.go:754). *)
THEOREM PoliciesAreObeyed ==
    ASSUME NoRepositoryDeletion PROVE Spec => [](PolicyHasRepository) /\ ProtectedTagsStay
<1>1. ASSUME Inductive, PolicyInductive, [Next]_vars, NEW t \in Tags, tag[t] # None, tag'[t] \notin {None, tag[t]}
      PROVE  t \notin EffectivePolicy
  <2>0. /\ tag \in [Tags -> Digests \cup {None}] /\ job \in [Threads -> Job] /\ Clients \subseteq Threads
        /\ \A c \in Clients : LinkAllowed(c)
    BY <1>1 DEF Inductive, TypeOK, DiskTypeOK, ThreadTypeOK, Threads, PolicyInductive, PolicyStage
  <2>1. ~UNCHANGED disk /\ ~Crash /\ ~(\E d \in Digests : Age(d))
    BY <1>1 DEF disk, Crash, Age
  <2>2. PICK p \in Threads : DiskStep(p) BY <1>1, <2>1, DiskFootprint
  <2>3. CASE p \in Clients /\ RenameTag(p)
    <3>1. pc[p] \in LinkPoints BY <2>3 DEF RenameTag, LinkPoints
    <3>2. t \in job[p].todo /\ tag'[t] = job[p].digest BY <1>1, <2>0, <2>3 DEF RenameTag
    <3> QED BY <1>1, <2>0, <2>3, <3>1, <3>2 DEF LinkAllowed
  <2>4. CASE p \in Clients /\ RollbackTag(p)
    <3>1. pc[p] = "rollback" BY <2>4 DEF RollbackTag
    <3>2. t \in job[p].todo /\ tag'[t] = job[p].prior[t] BY <1>1, <2>0, <2>4
         DEF RollbackTag, RolledBack
    <3> QED BY <1>1, <2>0, <2>4, <3>1, <3>2 DEF LinkAllowed
  <2>5. CASE p \in Clients /\ (MakeManifestDir(p) \/ Untag(p) \/ RemoveTagFile(p) \/
                                \E f \in Files : OpenFile(p, f) \/ WriteFile(p, f))
    BY <1>1, <2>0, <2>5 DEF MakeManifestDir, Untag, RemoveTagFile, OpenFile, WriteFile
  <2>6. CASE RemoveDirectory(p) \/ \E f \in Files : RemoveFile(p, f)
    BY <1>1, <2>6 DEF RemoveDirectory, RemoveFile
  <2> QED BY <2>2, <2>3, <2>4, <2>5, <2>6 DEF DiskStep
<1>2. Inductive /\ PolicyInductive /\ [Next]_vars =>
         [\A t \in Tags : tag[t] # None /\ tag'[t] \notin {None, tag[t]} => t \notin EffectivePolicy]_vars
  BY <1>1
<1>3. PolicyInductive => PolicyHasRepository BY DEF PolicyInductive
<1> QED BY <1>2, <1>3, InductiveHolds, PolicyInductiveHolds, PTL DEF Spec, ProtectedTagsStay

=============================================================================
