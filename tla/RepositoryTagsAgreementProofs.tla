-------------------- MODULE RepositoryTagsAgreementProofs --------------------
(***************************************************************************)
(* Proofs about RepositoryTags: what a push has put on disk and in the     *)
(* database when it is acknowledged, and that the two copies of the tags   *)
(* agree between two mutations, the rollback of a failed push included.    *)
(***************************************************************************)
EXTENDS RepositoryTagsProofs

Tagging == {"put", "addTag"}
Deleting == {"deleteTag", "deleteDigest", "deleteRepository"}

\* The requests of run tags_push: nothing is deleted but by the collector.
NoDeletions == \A r \in Requests : r.op \notin Deleting

\* A handler serves a request that was sent, with what its validation promises ...
Asked(c) ==
    /\ job[c].op = "none" \/ \E r \in Requests : job[c].op = r.op
    /\ job[c].op \in {"put", "addTag", "deleteDigest"} => job[c].digest \in Digests
    /\ job[c].op = "deleteTag" => \E t \in Tags : job[c].tags = {t}

\* ... and each step belongs to its operation.
Serves(c) ==
    /\ pc[c] \in {"tagMu", "flock"} => job[c].op \notin {"none", "pull", "head", "collect"}
    /\ pc[c] \in {"mkdir", "openContent"} \cup DirectoryStages => job[c].op = "put"
    /\ pc[c] \in {"getManifest", "readBack"} => job[c].op = "addTag"
    /\ pc[c] \in LinkStages \cup {"rollback"} => job[c].op \in Tagging
    /\ pc[c] \in {"stat", "removeAll", "untag"} => job[c].op = "deleteDigest"
    /\ pc[c] = "removeTag" => job[c].op = "deleteTag"
    /\ pc[c] = "forget" => job[c].op \in {"deleteTag", "deleteDigest"}
    /\ pc[c] \in {"policyCheck", "policyWrite"} => job[c].op = "setPolicy"
    /\ pc[c] = "rollback" => ~job[c].ok

Control == \A c \in Clients : Asked(c) /\ Serves(c)

-----------------------------------------------------------------------------
(* An error ends a callback, ... *)
LEMMA FailedFields ==
    ASSUME TypeOK, NEW c \in Clients, FinishFailed(c)
    PROVE  /\ pc'[c] = "release" /\ ~job'[c].ok
           /\ job'[c].op = job[c].op /\ job'[c].digest = job[c].digest /\ job'[c].tags = job[c].tags
BY DEF FinishFailed, Goto, TypeOK, ThreadTypeOK, Threads, Job

(* ... or starts the rollback of the tags already linked, ... *)
LEMMA RollbackFields ==
    ASSUME TypeOK, NEW c \in Clients, StartRollback(c)
    PROVE  /\ pc'[c] = "rollback" /\ ~job'[c].ok
           /\ job'[c].op = job[c].op /\ job'[c].digest = job[c].digest /\ job'[c].tags = job[c].tags
           /\ job'[c].prior = job[c].prior /\ job'[c].todo = job[c].tags \ job[c].todo
BY DEF StartRollback, Goto, TypeOK, ThreadTypeOK, Threads, Job

(* ... the policy check notes the tags to link and the tags as they are, ... *)
LEMMA CheckFields ==
    ASSUME TypeOK, NEW c \in Clients,
           job' = [job EXCEPT ![c] = [@ EXCEPT !.todo = job[c].tags, !.prior = tag]]
    PROVE  /\ job'[c].op = job[c].op /\ job'[c].digest = job[c].digest /\ job'[c].tags = job[c].tags
           /\ job'[c].prior = tag /\ job'[c].todo = job[c].tags
BY DEF TypeOK, ThreadTypeOK, Threads, Job

(* ... and linking a tag or rolling it back takes it off the list. *)
LEMMA TodoFields ==
    ASSUME TypeOK, NEW c \in Clients, NEW t, job' = [job EXCEPT ![c].todo = @ \ {t}]
    PROVE  /\ job'[c].op = job[c].op /\ job'[c].digest = job[c].digest /\ job'[c].tags = job[c].tags
           /\ job'[c].prior = job[c].prior /\ job'[c].todo = job[c].todo \ {t} /\ job'[c].ok = job[c].ok
BY DEF TypeOK, ThreadTypeOK, Threads, Job

(* Resolving a tag changes the digest only. *)
LEMMA DigestFields ==
    ASSUME TypeOK, NEW c \in Clients, NEW d, job' = [job EXCEPT ![c].digest = d]
    PROVE  /\ job'[c].op = job[c].op /\ job'[c].digest = d /\ job'[c].tags = job[c].tags
           /\ job'[c].ok = job[c].ok
BY DEF TypeOK, ThreadTypeOK, Threads, Job

(* Whatever a client does inside a callback, its next step fits its request. *)
LEMMA ServesInside ==
    ASSUME ConstantsAssumption, TypeOK, NEW c \in Clients, ClientInside(c), NotDeleting(c),
           Asked(c), Serves(c)
    PROVE  Asked(c)' /\ Serves(c)'
<1> USE DEF Goto, DirectoryStages, LinkStages, Tagging
<1>0. /\ pc \in [Threads -> Steps] /\ job \in [Threads -> Job] /\ c \in Threads /\ c # Collector
      /\ tag \in [Tags -> Digests \cup {None}] /\ job[c].tags \subseteq Tags
  BY DEF TypeOK, ThreadTypeOK, DiskTypeOK, Threads, ConstantsAssumption, Job
<1> DEFINE Same == /\ job'[c].op = job[c].op /\ job'[c].digest = job[c].digest
                   /\ job'[c].tags = job[c].tags
<1>1. ASSUME Same PROVE Asked(c)'
  BY <1>1 DEF Asked
<1>2. ASSUME pc'[c] = "release" PROVE Serves(c)'
  BY <1>2 DEF Serves
<1>3. CASE FinishFailed(c)
  BY <1>1, <1>2, <1>3, FailedFields
<1>4. ASSUME StartRollback(c), pc[c] \in LinkStages PROVE Asked(c)' /\ Serves(c)'
  <2>1. Same /\ pc'[c] = "rollback" /\ ~job'[c].ok BY <1>4, RollbackFields
  <2> QED BY <1>1, <1>4, <2>1 DEF Serves
<1>5. CASE Release(c)
  <2>1. pc'[c] = "idle" /\ job'[c] = IdleJob
    BY <1>0, <1>5 DEF Release, NotDeleting, Finish
  <2> QED BY <2>1 DEF Asked, Serves, IdleJob
<1>6. CASE ManifestStep(c)
  <2>1. CASE job' = job
    <3>1. CASE MakeManifestDir(c) BY <1>0, <1>1, <2>1, <3>1 DEF MakeManifestDir, AfterMkdir, Serves
    <3>2. CASE ReadManifest(c) BY <1>0, <1>1, <2>1, <3>2, <1>3 DEF ReadManifest, Serves
    <3>3. ASSUME NEW f \in Files, OpenFile(c, f) PROVE Serves(c)'
      BY <1>0, <2>1, <3>3 DEF OpenFile, Serves
    <3>4. ASSUME NEW f \in Files, WriteFile(c, f) PROVE Serves(c)'
      BY <1>0, <2>1, <3>4 DEF WriteFile, Serves
    <3> QED BY <1>1, <1>6, <2>1, <3>1, <3>2, <3>3, <3>4 DEF ManifestStep
  <2>2. CASE job' # job
    BY <1>3, <1>6, <2>2 DEF ManifestStep, MakeManifestDir, ReadManifest, OpenFile, WriteFile
  <2> QED BY <2>1, <2>2
<1>7. CASE CheckPolicy(c)
  <2>1. CASE pc' = [pc EXCEPT ![c] = "link"] /\ job' = [job EXCEPT ![c] = [@ EXCEPT !.todo = job[c].tags, !.prior = tag]]
    <3>1. Same BY <2>1, CheckFields
    <3> QED BY <1>0, <1>1, <1>7, <2>1, <3>1 DEF CheckPolicy, Serves
  <2> QED BY <1>3, <1>7, <2>1 DEF CheckPolicy
<1>8. CASE StatAndWriteTemp(c) \/ LinkStepFails(c)
  <2>1. pc[c] \in LinkStages BY <1>8 DEF StatAndWriteTemp, LinkStepFails, LinkPoints
  <2>2. CASE StartRollback(c) BY <1>4, <2>1, <2>2
  <2>3. CASE pc' = [pc EXCEPT ![c] = "rename"] /\ UNCHANGED job
    BY <1>0, <1>1, <2>1, <2>3 DEF Serves
  <2> QED BY <1>8, <2>2, <2>3 DEF StatAndWriteTemp, LinkStepFails
<1>9. CASE RenameTag(c)
  <2>1. PICK t \in job[c].todo : job' = [job EXCEPT ![c].todo = @ \ {t}] BY <1>9 DEF RenameTag
  <2>2. Same BY <2>1, TodoFields
  <2>3. pc[c] = "rename" /\ pc'[c] \in {"link", "upsert"} BY <1>0, <1>9 DEF RenameTag
  <2> QED BY <1>1, <2>2, <2>3 DEF Serves
<1>10. CASE UpsertTags(c) \/ RollbackDone(c)
  BY <1>0, <1>1, <1>10 DEF UpsertTags, RollbackDone, Serves
<1>11. CASE RollbackTag(c) \/ RollbackStepFails(c)
  <2>1. PICK t \in job[c].todo : job' = [job EXCEPT ![c].todo = @ \ {t}]
    BY <1>11 DEF RollbackTag, RollbackStepFails
  <2>2. Same /\ job'[c].ok = job[c].ok BY <2>1, TodoFields
  <2>3. pc[c] = "rollback" /\ pc'[c] = "rollback" BY <1>11 DEF RollbackTag, RollbackStepFails
  <2> QED BY <1>1, <2>2, <2>3 DEF Serves
<1>12. CASE ReadBackTag(c) \/ PolicyStep(c) \/ StatManifest(c) \/ LockedStepFails(c)
  <2>1. CASE FinishFailed(c) BY <1>3, <2>1
  <2>2. CASE job' = job
    <3>1. CASE ReadBackTag(c) \/ PolicyStep(c)
      BY <1>0, <1>1, <2>2, <3>1 DEF ReadBackTag, PolicyStep, CheckRepository, WritePolicy, Serves, FinishFailed
    <3>2. CASE StatManifest(c)
      BY <1>0, <1>1, <2>2, <3>2 DEF StatManifest, Serves, FinishFailed
    <3> QED BY <1>3, <1>12, <3>1, <3>2 DEF LockedStepFails
  <2> QED BY <1>12, <2>1, <2>2
       DEF ReadBackTag, PolicyStep, CheckRepository, WritePolicy, StatManifest, LockedStepFails
<1>13. CASE RemoveDirectory(c) \/ ForgetReference(c) \/ \E f \in Files : RemoveFile(c, f)
  BY <1>0, <1>1, <1>13 DEF RemoveDirectory, AfterRemoval, ForgetReference, RemoveFile, Serves
<1>14. CASE Untag(c)
  BY <1>0, <1>1, <1>14 DEF Untag, Serves
<1>15. CASE RemoveTagFile(c)
  <2>1. PICK t \in job[c].tags :
           IF tag[t] = None
              THEN FinishFailed(c)
              ELSE job' = [job EXCEPT ![c].digest = tag[t]] /\ pc' = [pc EXCEPT ![c] = "forget"]
    BY <1>15 DEF RemoveTagFile
  <2>2. CASE tag[t] # None
    <3>1. job'[c].op = job[c].op /\ job'[c].tags = job[c].tags BY <2>1, <2>2, DigestFields
    <3>2. job[c].op = "deleteTag" /\ pc'[c] = "forget" BY <1>0, <1>15, <2>1, <2>2 DEF RemoveTagFile, Serves
    <3> QED BY <3>1, <3>2 DEF Asked, Serves
  <2> QED BY <1>3, <2>1, <2>2
<1> QED
  BY <1>3, <1>5, <1>6, <1>7, <1>8, <1>9, <1>10, <1>11, <1>12, <1>13, <1>14, <1>15
     DEF ClientInside, TagStep, DeleteStep

(* So does whatever it does outside of the locks. *)
LEMMA ServesOutside ==
    ASSUME ConstantsAssumption, TypeOK, NEW c \in Clients, ClientOutside(c), NotDeleting(c),
           Asked(c), Serves(c)
    PROVE  Asked(c)' /\ Serves(c)'
<1> USE DEF Goto, Finish, DirectoryStages, LinkStages, Tagging
<1>0. /\ pc \in [Threads -> Steps] /\ job \in [Threads -> Job] /\ c \in Threads
      /\ tag \in [Tags -> Digests \cup {None}] /\ job[c].tags \subseteq Tags
  BY DEF TypeOK, ThreadTypeOK, DiskTypeOK, Threads, Job
<1>1. ASSUME pc'[c] = "idle", job'[c] = IdleJob PROVE Asked(c)' /\ Serves(c)'
  BY <1>1 DEF Asked, Serves, IdleJob
<1>2. CASE Finish(c)
  BY <1>0, <1>1, <1>2
<1>3. CASE Receive(c)
  <2>1. PICK r \in Requests :
            /\ pc' = [pc EXCEPT ![c] = EntryStep(r)]
            /\ job' = [job EXCEPT ![c] = [IdleJob EXCEPT !.op = r.op, !.digest = r.digest,
                                                         !.tags = r.tags, !.policy = r.policy]]
    BY <1>3 DEF Receive
  <2>2. WellFormed(r) /\ r \in Request BY DEF ConstantsAssumption
  <2>3. job'[c].op = r.op /\ job'[c].digest = r.digest /\ job'[c].tags = r.tags
    BY <1>0, <2>1 DEF IdleJob
  <2>4. Asked(c)' BY <2>2, <2>3 DEF Asked, WellFormed
  <2>5. /\ pc'[c] \in Unlocked \cup {"tagMu"}
        /\ pc'[c] = "tagMu" => r.op \notin {"pull", "head"}
    BY <1>0, <2>1, EntrySteps DEF EntryStep
  <2> QED BY <2>2, <2>3, <2>4, <2>5 DEF WellFormed, Serves, Unlocked
<1>4. CASE AcquireTagMu(c)
  BY <1>0, <1>4 DEF AcquireTagMu, Asked, Serves
<1>5. CASE AcquireFlock(c)
  <2>1. pc'[c] = FirstStep(job[c].op) /\ job' = job /\ pc[c] = "flock"
    BY <1>0, <1>5 DEF AcquireFlock
  <2>2. job[c].op \in {"put", "addTag", "deleteTag", "deleteDigest", "setPolicy"}
    BY <1>0, <2>1 DEF Serves, NotDeleting, Job, Operations
  <2>3. Asked(c)' BY <2>1 DEF Asked
  <2> QED BY <2>1, <2>2, <2>3 DEF FirstStep, Serves
<1>6. CASE FlockFails(c) \/ UnlockedStepFails(c)
  BY <1>2, <1>6 DEF FlockFails, UnlockedStepFails
<1>7. CASE RepositoryDeleteStep(c)
  BY <1>7 DEF RepositoryDeleteStep, ListTags, NextVictim, DropRepository, NotDeleting
<1>8. CASE PullStep(c)
  <2>1. CASE MarkRepositoryPulled(c) BY <1>2, <2>1 DEF MarkRepositoryPulled
  <2>2. CASE ResolveTag(c)
    <3>1. PICK t \in job[c].tags :
              IF tag[t] = None
                 THEN Finish(c)
                 ELSE job' = [job EXCEPT ![c].digest = tag[t]] /\ pc' = [pc EXCEPT ![c] = "readContent"]
      BY <2>2 DEF ResolveTag
    <3>2. CASE tag[t] # None
      <4>1. job'[c].op = job[c].op /\ job'[c].tags = job[c].tags /\ job'[c].digest = tag[t]
        BY <3>1, <3>2, DigestFields
      <4>2. tag[t] \in Digests BY <1>0, <3>2
      <4> QED BY <1>0, <3>1, <3>2, <4>1, <4>2 DEF Asked, Serves
    <3> QED BY <1>2, <3>1, <3>2
  <2>3. ASSUME NEW f \in Files, ReadFile(c, f) PROVE Asked(c)' /\ Serves(c)'
    <3>1. CASE /\ job' = [job EXCEPT ![c].ok = @ /\ file[job[c].digest][f] = "whole"]
               /\ pc' = [pc EXCEPT ![c] = IF f = "content" THEN "readMediaType" ELSE "mark"]
      <4>1. job'[c].op = job[c].op /\ job'[c].tags = job[c].tags /\ job'[c].digest = job[c].digest
        BY <1>0, <3>1 DEF Job
      <4>2. pc'[c] \in {"readMediaType", "mark"} BY <1>0, <3>1
      <4> QED BY <4>1, <4>2 DEF Asked, Serves
    <3> QED BY <1>2, <2>3, <3>1 DEF ReadFile
  <2> QED BY <1>8, <2>1, <2>2, <2>3 DEF PullStep
<1> QED BY <1>3, <1>4, <1>5, <1>6, <1>7, <1>8 DEF ClientOutside

(* Nobody else touches what a client remembers of its request. *)
LEMMA ControlKept ==
    ASSUME ConstantsAssumption, Inductive, PolicyInductive, Control, [Next]_vars PROVE Control'
<1> SUFFICES ASSUME NEW c \in Clients PROVE Asked(c)' /\ Serves(c)'
  BY DEF Control
<1>0. /\ TypeOK /\ NotDeleting(c) /\ Asked(c) /\ Serves(c) /\ c \in Threads /\ c # Collector
      /\ pc \in [Threads -> Steps] /\ job \in [Threads -> Job]
  BY DEF Control, Inductive, PolicyInductive, PolicyStage, Threads, ConstantsAssumption,
         TypeOK, ThreadTypeOK
<1>1. CASE ClientInside(c) BY <1>0, <1>1, ServesInside
<1>2. CASE ClientOutside(c) BY <1>0, <1>2, ServesOutside
<1>3. CASE Crash
  <2>1. pc'[c] = "idle" /\ job'[c] = IdleJob BY <1>0, <1>3 DEF Crash
  <2> QED BY <2>1 DEF Asked, Serves, IdleJob, DirectoryStages, LinkStages
<1>4. CASE pc'[c] = pc[c] /\ job'[c] = job[c]
  BY <1>0, <1>4 DEF Asked, Serves
<1>5. ASSUME NEW p \in Clients \ {c}, ClientInside(p) PROVE pc'[c] = pc[c] /\ job'[c] = job[c]
  BY <1>0, <1>5, OwnStep DEF Threads
<1>6. ASSUME CollectorInside PROVE pc'[c] = pc[c] /\ job'[c] = job[c]
  BY <1>0, <1>6, OwnStep DEF Threads
<1>7. ASSUME NEW p \in Threads \ {c}, OutsideEffect(p) PROVE pc'[c] = pc[c] /\ job'[c] = job[c]
  BY <1>0, <1>7 DEF OutsideEffect
<1>8. ASSUME (\E d \in Digests : Age(d)) \/ UNCHANGED vars PROVE pc'[c] = pc[c] /\ job'[c] = job[c]
  BY <1>8 DEF Age, vars
<1>9. OutsideEffect(c) => ClientOutside(c) BY DEF OutsideEffect
<1> QED BY <1>0, <1>1, <1>2, <1>3, <1>4, <1>5, <1>6, <1>7, <1>8, <1>9, StepSplit

-----------------------------------------------------------------------------
\* An answer of success is on its way.
Acknowledging(c) ==
    pc[c] = "readBack" \/ (pc[c] = "release" /\ job[c].op \in Tagging /\ job[c].ok)

\* What linkManifestTagsLocked has achieved at each stage: its manifest has its
\* files, the tags not on its list are linked, and, after the upsert, recorded.
\* It rolls back only after a failing step.
Linked(c) ==
    /\ pc[c] \in LinkStages => \A f \in Files : file[job[c].digest][f] # "absent"
    /\ pc[c] \in LinkPoints => \A t \in job[c].tags \ job[c].todo : tag[t] = job[c].digest
    /\ pc[c] = "upsert" => job[c].todo = {}
    /\ Acknowledging(c) =>
           /\ dir[job[c].digest] # "absent"
           /\ \A t \in job[c].tags : tag[t] = job[c].digest /\ row[t] = job[c].digest
    /\ pc[c] = "rollback" => faults > 0

Links == \A c \in Clients : Linked(c)

(* Without repository deletions only UpsertRepositoryTags and
   DeleteRepositoryManifestReference write rows of tags. *)
LEMMA RowWriters ==
    ASSUME PolicyInductive, [Next]_vars
    PROVE  row' = row \/ \E c \in Clients : UpsertTags(c) \/ ForgetReference(c)
<1>1. ASSUME NEW c \in Clients, DropRepository(c) PROVE FALSE
  BY <1>1 DEF PolicyInductive, PolicyStage, NotDeleting, DropRepository
<1>2. ASSUME NEW c \in Clients, WritePolicy(c) \/ MarkRepositoryPulled(c) PROVE row' = row
  BY <1>2 DEF WritePolicy, MarkRepositoryPulled
<1> QED BY <1>1, <1>2, DatabaseFootprint DEF DatabaseStep, database

(* The steps of the handler itself lead from stage to stage, ... *)
LEMMA LinkedInside ==
    ASSUME ConstantsAssumption, Inductive, PolicyInductive, [Next]_vars,
           NEW c \in Clients, ClientInside(c), Asked(c), Serves(c), Linked(c)
    PROVE  Linked(c)'
<1> USE DEF Goto, DirectoryStages, LinkStages, LinkPoints, Tagging
<1>0. /\ TypeOK /\ PushStage(c) /\ LinkAllowed(c)
      /\ pc \in [Threads -> Steps] /\ job \in [Threads -> Job] /\ c \in Threads /\ c # Collector
      /\ tag \in [Tags -> Digests \cup {None}] /\ job[c].tags \subseteq Tags
      /\ dir \in [Digests -> {"absent", "fresh", "aged"}]
      /\ file \in [Digests -> [Files -> {"absent", "torn", "whole"}]]
      /\ \A d \in Digests : dir[d] = "absent" => \A f \in Files : file[d][f] = "absent"
      /\ Files = {"content", "mediaType"}
      /\ job[c].op \in Tagging => job[c].digest \in Digests
      /\ faults \in Nat
  BY DEF Inductive, PushStages, PolicyInductive, PolicyStage, TypeOK, ThreadTypeOK, DiskTypeOK, Threads,
         ConstantsAssumption, Job, Files, Asked
<1>1. CASE FinishFailed(c)
  BY <1>1, <1>0, FailedFields DEF Linked, Acknowledging
<1>2. CASE Release(c)
  <2>1. pc'[c] \in {"idle", "nextVictim"} BY <1>0, <1>2 DEF Release, Finish
  <2> QED BY <2>1 DEF Linked, Acknowledging
<1>3. CASE MakeManifestDir(c) \/ \E f \in Files : OpenFile(c, f)
  <2>1. pc'[c] \in {"openContent", "writeContent", "writeMediaType"}
    BY <1>0, <1>3 DEF MakeManifestDir, AfterMkdir, OpenFile
  <2> QED BY <2>1 DEF Linked, Acknowledging
<1>4. CASE WriteFile(c, "content")
  <2>1. pc'[c] = "openMediaType" BY <1>0, <1>4 DEF WriteFile
  <2> QED BY <2>1 DEF Linked, Acknowledging
<1>5. CASE WriteFile(c, "mediaType")
  <2>1. /\ pc[c] = "writeMediaType" /\ job' = job /\ dir' = dir /\ job[c].op = "put"
        /\ pc'[c] = IF job[c].tags = {} THEN "release" ELSE "check"
    BY <1>0, <1>5 DEF WriteFile, Serves
  <2>2. \A f \in Files : file'[job[c].digest][f] = "whole"
    BY <1>0, <1>5, <2>1 DEF WriteFile, PushStage
  <2>3. dir[job[c].digest] # "absent" BY <1>0, <2>1 DEF PushStage
  <2> QED BY <2>1, <2>2, <2>3 DEF Linked, Acknowledging
<1>6. CASE ReadManifest(c)
  <2>1. CASE (\A f \in Files : file[job[c].digest][f] # "absent") /\ pc' = [pc EXCEPT ![c] = "check"] /\ job' = job
    <3>1. file' = file BY <1>6 DEF ReadManifest, disk
    <3>2. pc'[c] = "check" BY <1>0, <2>1
    <3> QED BY <2>1, <3>1, <3>2 DEF Linked, Acknowledging
  <2> QED BY <1>1, <1>6, <2>1 DEF ReadManifest
<1>7. CASE CheckPolicy(c)
  <2>1. CASE pc' = [pc EXCEPT ![c] = "link"] /\ job' = [job EXCEPT ![c] = [@ EXCEPT !.todo = job[c].tags, !.prior = tag]]
    <3>1. pc'[c] = "link" /\ pc[c] = "check" /\ file' = file BY <1>0, <1>7, <2>1 DEF CheckPolicy, disk
    <3>2. job'[c].tags = job[c].tags /\ job'[c].todo = job[c].tags /\ job'[c].digest = job[c].digest
      BY <1>0, <2>1, CheckFields
    <3> QED BY <3>1, <3>2 DEF Linked, Acknowledging
  <2> QED BY <1>1, <1>7, <2>1 DEF CheckPolicy
<1>8. CASE StatAndWriteTemp(c)
  <2>1. dir[job[c].digest] # "absent"
    BY <1>0, <1>8 DEF StatAndWriteTemp, Serves, Linked
  <2>2. pc[c] = "link" /\ pc'[c] = "rename" /\ job' = job /\ file' = file /\ tag' = tag
    BY <1>0, <1>8, <2>1 DEF StatAndWriteTemp, disk
  <2> QED BY <2>2 DEF Linked, Acknowledging
<1>9. CASE RenameTag(c)
  <2>1. PICK t \in job[c].todo :
           /\ tag' = [tag EXCEPT ![t] = job[c].digest]
           /\ job' = [job EXCEPT ![c].todo = @ \ {t}]
           /\ pc' = [pc EXCEPT ![c] = IF job[c].todo = {t} THEN "upsert" ELSE "link"]
    BY <1>9 DEF RenameTag
  <2>2. job'[c].tags = job[c].tags /\ job'[c].todo = job[c].todo \ {t} /\ job'[c].digest = job[c].digest
    BY <1>0, <2>1, TodoFields
  <2>3. pc[c] = "rename" /\ file' = file BY <1>9 DEF RenameTag
  <2>4. \A u \in job[c].tags \ (job[c].todo \ {t}) : tag'[u] = job[c].digest
    BY <1>0, <2>1, <2>3 DEF Linked
  <2>5. pc'[c] \in {"upsert", "link"} /\ (pc'[c] = "upsert" => job[c].todo \ {t} = {})
    BY <1>0, <2>1
  <2> QED BY <2>2, <2>3, <2>4, <2>5 DEF Linked, Acknowledging
<1>10. CASE UpsertTags(c)
  <2>1. pc[c] = "upsert" /\ pc'[c] \in {"readBack", "release"} /\ job' = job /\ tag' = tag /\ dir' = dir
    BY <1>0, <1>10 DEF UpsertTags, disk
  <2>2. \A t \in job[c].tags : row'[t] = job[c].digest
    BY <1>0, <1>10 DEF UpsertTags, RowsAfterUpsert
  <2>3. dir[job[c].digest] # "absent" BY <1>0, <2>1 DEF Linked, Serves
  <2> QED BY <2>1, <2>2, <2>3 DEF Linked, Acknowledging
<1>11. CASE RollbackTag(c)
  <2>1. pc[c] = "rollback" /\ pc' = pc /\ faults' = faults BY <1>11 DEF RollbackTag, budget
  <2> QED BY <2>1 DEF Linked, Acknowledging
<1>12. CASE RollbackDone(c)
  <2>1. pc[c] = "rollback" /\ pc'[c] = "release" /\ job' = job BY <1>0, <1>12 DEF RollbackDone
  <2> QED BY <2>1 DEF Linked, Acknowledging, Serves
<1>13. CASE ReadBackTag(c)
  <2>1. CASE pc' = [pc EXCEPT ![c] = "release"] /\ job' = job
    <3>1. pc[c] = "readBack" /\ pc'[c] = "release" /\ tag' = tag /\ dir' = dir /\ row' = row
      BY <1>0, <1>13, <2>1 DEF ReadBackTag, disk, database
    <3> QED BY <2>1, <3>1 DEF Linked, Acknowledging
  <2> QED BY <1>1, <1>13, <2>1 DEF ReadBackTag
<1>14. CASE LinkStepFails(c) \/ RollbackStepFails(c)
  <2>1. faults' > 0 BY <1>0, <1>14 DEF LinkStepFails, RollbackStepFails, CountFault
  <2>2. pc'[c] = "rollback"
    BY <1>0, <1>14, RollbackFields DEF LinkStepFails, RollbackStepFails
  <2> QED BY <2>1, <2>2 DEF Linked, Acknowledging
<1>15. CASE DeleteStep(c) \/ PolicyStep(c)
  <2>1. \/ FinishFailed(c)
        \/ pc'[c] \in {"removeAll", "untag", "forget", "policyWrite"}
        \/ pc'[c] = "release" /\ job' = job /\ job[c].op \notin Tagging
    <3> USE <1>0
    <3>1. CASE StatManifest(c) BY <3>1 DEF StatManifest, Serves
    <3>2. CASE RemoveDirectory(c) BY <3>2 DEF RemoveDirectory, AfterRemoval
    <3>3. CASE Untag(c) BY <3>3 DEF Untag
    <3>4. CASE RemoveTagFile(c) BY <3>4 DEF RemoveTagFile
    <3>5. CASE ForgetReference(c) BY <3>5 DEF ForgetReference, Serves
    <3>6. ASSUME NEW f \in Files, RemoveFile(c, f) PROVE pc'[c] = "removeAll" BY <3>6 DEF RemoveFile
    <3>7. CASE PolicyStep(c) BY <3>7 DEF PolicyStep, CheckRepository, WritePolicy, Serves
    <3> QED BY <1>15, <3>1, <3>2, <3>3, <3>4, <3>5, <3>6, <3>7 DEF DeleteStep
  <2> QED BY <1>1, <2>1 DEF Linked, Acknowledging
<1> QED
  BY <1>0, <1>1, <1>2, <1>3, <1>4, <1>5, <1>6, <1>7, <1>8, <1>9, <1>10, <1>11, <1>12, <1>13, <1>14, <1>15
     DEF ClientInside, ManifestStep, TagStep, LockedStepFails

(* ... and under the flock nobody else undoes a stage. *)
LEMMA LinksKept ==
    ASSUME ConstantsAssumption, Inductive, PolicyInductive, Control, Links, [Next]_vars PROVE Links'
<1> SUFFICES ASSUME NEW c \in Clients PROVE Linked(c)'
  BY DEF Links
<1>0. /\ TypeOK /\ LocksGuardCallbacks /\ Asked(c) /\ Serves(c) /\ Linked(c) /\ c \in Threads /\ c # Collector
      /\ pc \in [Threads -> Steps] /\ job \in [Threads -> Job] /\ faults \in Nat
      /\ LinkStages \cup LinkPoints \cup {"readBack", "release", "rollback"} \subseteq Critical \ First
      /\ "idle" \notin Critical
      /\ job[c].op \in Tagging => job[c].digest \in Digests
  BY DEF Control, Links, Inductive, Threads, ConstantsAssumption, TypeOK, ThreadTypeOK,
         LinkStages, LinkPoints, Critical, AbortPoints, First, Tagging, Asked
<1>1. CASE pc[c] \in Critical
  <2>1. flock = c BY <1>0, <1>1 DEF LocksGuardCallbacks
  <2>2. CASE ClientInside(c) BY <1>0, <2>2, LinkedInside
  <2>3. CASE Crash
    <3>1. pc'[c] = "idle" BY <1>0, <2>3 DEF Crash
    <3> QED BY <1>0, <3>1 DEF Linked, Acknowledging
  <2>4. CASE /\ pc'[c] = pc[c] /\ job'[c] = job[c] /\ file' = file /\ tag' = tag
             /\ \A d \in Digests : dir'[d] = "absent" <=> dir[d] = "absent"
    <3>1. ASSUME NEW e \in Clients, UpsertTags(e) \/ ForgetReference(e) PROVE FALSE
      <4>1. pc[e] \in Critical /\ pc'[e] # pc[e]
        BY <1>0, <3>1 DEF UpsertTags, ForgetReference, Goto, Critical, AbortPoints, LinkPoints, Threads
      <4>2. e = c BY <1>0, <2>1, <4>1 DEF LocksGuardCallbacks, Threads
      <4> QED BY <2>4, <4>1, <4>2
    <3>2. row' = row BY <3>1, RowWriters
    <3>3. faults' \in Nat /\ faults' >= faults BY <1>0, BudgetSpent
    <3>4. Acknowledging(c) => job[c].op \in Tagging BY <1>0 DEF Acknowledging, Serves, Tagging
    <3>5. Acknowledging(c)' <=> Acknowledging(c) BY <2>4 DEF Acknowledging
    <3> QED BY <1>0, <2>4, <3>2, <3>3, <3>4, <3>5 DEF Linked
  <2> QED BY <1>0, <2>1, <2>2, <2>3, <2>4, HolderUndisturbed
<1>2. CASE pc[c] \notin Critical
  <2>1. pc'[c] \in Critical => pc'[c] \in First
    BY <1>0, <1>2, OutsideJob
  <2>2. pc'[c] \notin LinkStages \cup LinkPoints \cup {"readBack", "release", "rollback"}
    BY <1>0, <2>1
  <2> QED BY <2>2 DEF Linked, Acknowledging, LinkPoints
<1> QED BY <1>1, <1>2

-----------------------------------------------------------------------------
(* The request and the stage of every handler, in every reachable state. *)
THEOREM StagesHold == ASSUME NoRepositoryDeletion PROVE Spec => [](Control /\ Links)
<1>1. Init => Control /\ Links
  BY DEF Init, Control, Links, Asked, Serves, Linked, Acknowledging, Threads, IdleJob,
         DirectoryStages, LinkStages, LinkPoints
<1>2. Inductive /\ PolicyInductive /\ Control /\ Links /\ [Next]_vars => (Control /\ Links)'
  BY ConstantsAssumption, ControlKept, LinksKept
<1> QED BY <1>1, <1>2, InductiveHolds, PolicyInductiveHolds, PTL DEF Spec

(* putManifestAndTags and addRepositoryTag answer success only when the manifest
   is there and its tags lead to it on disk and in the database. *)
THEOREM AcknowledgementsHold ==
    ASSUME NoRepositoryDeletion PROVE Spec => []AcknowledgedPushIsVisible
<1>1. Links => AcknowledgedPushIsVisible
  BY DEF Links, Linked, Acknowledging, AcknowledgedPushIsVisible, Tagging
<1> QED BY <1>1, StagesHold, PTL

-----------------------------------------------------------------------------
\* No failure so far, or one while nothing deletes tags.
Calm == crashes = 0 /\ (faults = 0 \/ (faults = 1 /\ NoDeletions))

\* The tags and their rows differ inside a callback by what the handler still has
\* to do: to link and record the tags it was given, to roll those it linked back,
\* to remove the tags of a deleted digest, or the rows of the tags removed.
Agreed(c) ==
    /\ pc[c] \in LinkPoints => \A t \in Tags :
           /\ row[t] = job[c].prior[t]
           /\ t \in job[c].tags \ job[c].todo \/ tag[t] = job[c].prior[t]
    /\ pc[c] = "rollback" => \A t \in Tags :
           /\ row[t] = job[c].prior[t]
           /\ t \in job[c].todo \/ tag[t] = job[c].prior[t]
    /\ pc[c] = "untag" => \A t \in Tags :
           tag[t] = row[t] \/ (tag[t] = None /\ row[t] = job[c].digest)
    /\ pc[c] = "forget" => \A t \in Tags : tag[t] = IF t \in Forgotten(c) THEN None ELSE row[t]
    /\ pc[c] \notin LinkPoints \cup {"rollback", "untag", "forget"} => row = tag

Agreement ==
    Calm => /\ \A c \in Clients : pc[c] \in Critical => Agreed(c)
            /\ (\A c \in Clients : pc[c] \notin Critical) => row = tag

\* The directories the tags lead to, and those a rollback would return to, stay.
TagsLead ==
    NoDeletions =>
        /\ \A t \in Tags : tag[t] # None => dir[tag[t]] # "absent"
        /\ \A c \in Clients : pc[c] \in LinkPoints \cup {"rollback"} =>
               \A t \in Tags : job[c].prior[t] # None => dir[job[c].prior[t]] # "absent"

(* A rollback is the answer to a failing step: it gives the tag its prior digest,
   whose directory is still there. *)
LEMMA RollbackRestores ==
    ASSUME TagsLead, NoDeletions, NEW c \in Clients, pc[c] = "rollback", NEW t \in Tags
    PROVE  RolledBack(c, t) = job[c].prior[t]
BY DEF TagsLead, RolledBack

(* The handler's own steps keep what its stage owes, ... *)
LEMMA AgreedInside ==
    ASSUME ConstantsAssumption, Inductive, PolicyInductive, TagsLead, [Next]_vars, Calm, Calm',
           NEW c \in Clients, ClientInside(c), Asked(c), Serves(c), Linked(c), Agreed(c)
    PROVE  Agreed(c)'
<1> USE DEF Goto, LinkPoints, Tagging
<1>0. /\ TypeOK /\ LinkAllowed(c) /\ NotDeleting(c)
      /\ pc \in [Threads -> Steps] /\ job \in [Threads -> Job] /\ c \in Threads
      /\ tag \in [Tags -> Digests \cup {None}] /\ row \in [Tags -> Digests \cup {None}]
      /\ tag' \in [Tags -> Digests \cup {None}] /\ row' \in [Tags -> Digests \cup {None}]
      /\ job[c].tags \subseteq Tags
      /\ job[c].op \in Tagging => job[c].digest \in Digests
      /\ faults \in Nat /\ Files = {"content", "mediaType"}
      /\ \A d \in Digests : dir[d] = "absent" => \A f \in Files : file[d][f] = "absent"
      /\ DiskTypeOK' /\ DatabaseTypeOK'
  <2>1. DiskTypeOK' /\ DatabaseTypeOK'
    BY DiskTyped, DatabaseTyped DEF Inductive
  <2> QED BY <2>1 DEF Inductive, PolicyInductive, PolicyStage, TypeOK, ThreadTypeOK, DiskTypeOK,
             DatabaseTypeOK, Threads, ConstantsAssumption, Job, Files, Asked
<1> DEFINE Settled(s) == s \notin LinkPoints \cup {"rollback", "untag", "forget"}
<1>1. ASSUME Settled(pc[c]), Settled(pc'[c]), row' = row, tag' = tag PROVE Agreed(c)'
  BY <1>1 DEF Agreed
<1>2. ASSUME FinishFailed(c), Settled(pc[c]), row' = row, tag' = tag PROVE Agreed(c)'
  BY <1>1, <1>2, <1>0, FailedFields
<1>3. CASE Release(c)
  <2>1. pc[c] = "release" /\ pc'[c] = "idle" /\ row' = row /\ tag' = tag
    BY <1>0, <1>3 DEF Release, Finish, NotDeleting, disk, database
  <2> QED BY <1>1, <2>1
<1>4. CASE ManifestStep(c)
  <2>1. Settled(pc[c]) /\ row' = row /\ tag' = tag
    BY <1>4 DEF ManifestStep, MakeManifestDir, ReadManifest, OpenFile, WriteFile, disk, database
  <2>2. CASE MakeManifestDir(c) \/ \E f \in Files : OpenFile(c, f) \/ WriteFile(c, f)
    <3>1. Settled(pc'[c])
      BY <1>0, <2>2 DEF MakeManifestDir, AfterMkdir, OpenFile, WriteFile
    <3> QED BY <1>1, <2>1, <3>1
  <2>3. CASE ReadManifest(c)
    <3>1. FinishFailed(c) \/ Settled(pc'[c]) BY <1>0, <2>3 DEF ReadManifest
    <3> QED BY <1>1, <1>2, <2>1, <3>1
  <2> QED BY <1>4, <2>2, <2>3 DEF ManifestStep
<1>5. CASE CheckPolicy(c)
  <2>1. pc[c] = "check" /\ row' = row /\ tag' = tag BY <1>5 DEF CheckPolicy, disk, database
  <2>2. CASE pc' = [pc EXCEPT ![c] = "link"] /\ job' = [job EXCEPT ![c] = [@ EXCEPT !.todo = job[c].tags, !.prior = tag]]
    <3>1. pc'[c] = "link" /\ job'[c].prior = tag BY <1>0, <2>2, CheckFields
    <3> QED BY <2>1, <3>1 DEF Agreed
  <2> QED BY <1>2, <1>5, <2>1, <2>2 DEF CheckPolicy
<1>6. CASE StatAndWriteTemp(c)
  <2>1. dir[job[c].digest] # "absent"
    BY <1>0, <1>6 DEF StatAndWriteTemp, Serves, Linked, LinkStages
  <2>2. pc[c] = "link" /\ pc'[c] = "rename" /\ job' = job /\ row' = row /\ tag' = tag
    BY <1>0, <1>6, <2>1 DEF StatAndWriteTemp, disk, database
  <2> QED BY <2>2 DEF Agreed
<1>7. CASE RenameTag(c)
  <2>1. PICK t \in job[c].todo :
           /\ tag' = [tag EXCEPT ![t] = job[c].digest]
           /\ job' = [job EXCEPT ![c].todo = @ \ {t}]
           /\ pc' = [pc EXCEPT ![c] = IF job[c].todo = {t} THEN "upsert" ELSE "link"]
    BY <1>7 DEF RenameTag
  <2>2. job'[c].tags = job[c].tags /\ job'[c].todo = job[c].todo \ {t} /\ job'[c].prior = job[c].prior
    BY <1>0, <2>1, TodoFields
  <2>3. pc[c] = "rename" /\ row' = row BY <1>7 DEF RenameTag, database
  <2>4. t \in job[c].tags BY <1>0, <2>1, <2>3 DEF LinkAllowed
  <2>5. \A u \in Tags : u \in job[c].tags \ (job[c].todo \ {t}) \/ tag'[u] = job[c].prior[u]
    BY <1>0, <2>1, <2>3, <2>4 DEF Agreed
  <2>6. pc'[c] \in {"link", "upsert"} BY <1>0, <2>1
  <2> QED BY <2>2, <2>3, <2>5, <2>6 DEF Agreed
<1>8. CASE UpsertTags(c)
  <2>1. /\ pc[c] = "upsert" /\ pc'[c] \in {"readBack", "release"} /\ tag' = tag
        /\ row' = [t \in Tags |-> IF t \in job[c].tags THEN job[c].digest ELSE row[t]]
    BY <1>0, <1>8 DEF UpsertTags, RowsAfterUpsert, disk
  <2>2. \A t \in Tags : row'[t] = tag[t] BY <1>0, <2>1 DEF Linked, Agreed
  <2>3. row' = tag' BY <1>0, <2>1, <2>2
  <2> QED BY <2>1, <2>3 DEF Agreed
<1>9. ASSUME pc[c] = "rollback" PROVE NoDeletions /\ faults = 1
  BY <1>0, <1>9 DEF Linked, Calm
<1>10. CASE RollbackTag(c)
  <2>1. PICK t \in job[c].todo :
           /\ tag' = [tag EXCEPT ![t] = RolledBack(c, t)]
           /\ job' = [job EXCEPT ![c].todo = @ \ {t}]
    BY <1>10 DEF RollbackTag
  <2>2. job'[c].todo = job[c].todo \ {t} /\ job'[c].prior = job[c].prior
    BY <1>0, <2>1, TodoFields
  <2>3. pc[c] = "rollback" /\ pc'[c] = "rollback" /\ row' = row BY <1>10 DEF RollbackTag, database
  <2>4. t \in Tags BY <1>0, <2>1, <2>3 DEF LinkAllowed
  <2>5. RolledBack(c, t) = job[c].prior[t] BY <1>9, <2>3, <2>4, RollbackRestores
  <2>6. \A u \in Tags : u \in job[c].todo \ {t} \/ tag'[u] = job[c].prior[u]
    BY <1>0, <2>1, <2>3, <2>5 DEF Agreed
  <2> QED BY <2>2, <2>3, <2>6 DEF Agreed
<1>11. CASE RollbackDone(c)
  <2>1. /\ pc[c] = "rollback" /\ pc'[c] = "release" /\ job[c].todo = {} /\ row' = row /\ tag' = tag
    BY <1>0, <1>11 DEF RollbackDone, disk, database
  <2>2. \A t \in Tags : row[t] = tag[t] BY <2>1 DEF Agreed
  <2>3. row = tag BY <1>0, <2>2
  <2> QED BY <2>1, <2>3 DEF Agreed
<1>12. CASE ReadBackTag(c) \/ PolicyStep(c) \/ StatManifest(c)
  <2>1. /\ Settled(pc[c]) /\ row' = row /\ tag' = tag
        /\ FinishFailed(c) \/ Settled(pc'[c])
    <3> USE <1>0 DEF disk, database
    <3>1. CASE ReadBackTag(c) BY <3>1 DEF ReadBackTag
    <3>2. CASE PolicyStep(c) BY <3>2 DEF PolicyStep, CheckRepository, WritePolicy
    <3>3. CASE StatManifest(c) BY <3>3 DEF StatManifest
    <3> QED BY <1>12, <3>1, <3>2, <3>3
  <2> QED BY <1>1, <1>2, <2>1
<1>13. CASE \E f \in Files : RemoveFile(c, f)
  <2>1. pc[c] = "removeAll" /\ pc' = pc /\ row' = row /\ tag' = tag BY <1>13 DEF RemoveFile, database
  <2> QED BY <1>1, <2>1
<1>14. CASE RemoveDirectory(c)
  <2>1. /\ pc[c] = "removeAll" /\ pc'[c] \in {"sweep", "untag"} /\ row' = row /\ tag' = tag
    BY <1>0, <1>14 DEF RemoveDirectory, AfterRemoval, database
  <2> QED BY <2>1 DEF Agreed
<1>15. CASE Untag(c)
  <2>0. pc[c] = "untag" /\ row' = row /\ job' = job BY <1>15 DEF Untag, database
  <2>1. CASE pc' = pc
    <3>1. \A t \in Tags : tag'[t] = tag[t] \/ (tag[t] = job[c].digest /\ tag'[t] = None)
      BY <1>0, <1>15, <2>1 DEF Untag
    <3> QED BY <2>0, <2>1, <3>1 DEF Agreed
  <2>2. CASE pc' # pc
    <3>1. pc'[c] = "forget" /\ tag' = tag /\ \A t \in Tags : tag[t] # job[c].digest
      BY <1>0, <1>15, <2>2 DEF Untag
    <3>2. job[c].op = "deleteDigest" BY <2>0 DEF Serves
    <3>3. Forgotten(c)' = {t \in Tags : row[t] = job[c].digest} BY <2>0, <3>2 DEF Forgotten
    <3> QED BY <2>0, <3>1, <3>3 DEF Agreed
  <2> QED BY <2>1, <2>2
<1>16. CASE RemoveTagFile(c)
  <2>0. pc[c] = "removeTag" /\ row' = row BY <1>16 DEF RemoveTagFile, database
  <2>1. job[c].op = "deleteTag" BY <2>0 DEF Serves
  <2>2. PICK t \in Tags : job[c].tags = {t} BY <2>1 DEF Asked
  <2>3. CASE tag[t] = None
    <3>1. FinishFailed(c) /\ tag' = tag BY <1>16, <2>2, <2>3 DEF RemoveTagFile
    <3> QED BY <1>2, <2>0, <3>1
  <2>4. CASE tag[t] # None
    <3>1. /\ tag' = [tag EXCEPT ![t] = None] /\ job' = [job EXCEPT ![c].digest = tag[t]]
          /\ pc' = [pc EXCEPT ![c] = "forget"]
      BY <1>16, <2>2, <2>4 DEF RemoveTagFile
    <3>2. job'[c].op = "deleteTag" /\ job'[c].tags = {t} BY <1>0, <2>1, <2>2, <3>1, DigestFields
    <3>3. Forgotten(c)' = {t} BY <3>2 DEF Forgotten
    <3>4. row = tag BY <2>0 DEF Agreed
    <3>5. \A u \in Tags : tag'[u] = IF u \in {t} THEN None ELSE row[u] BY <1>0, <3>1, <3>4
    <3>6. pc'[c] = "forget" BY <1>0, <3>1
    <3> QED BY <2>0, <3>3, <3>5, <3>6 DEF Agreed
  <2> QED BY <2>3, <2>4
<1>17. CASE ForgetReference(c)
  <2>1. /\ pc[c] = "forget" /\ pc'[c] = "release" /\ tag' = tag
        /\ row' = [t \in Tags |-> IF t \in Forgotten(c) THEN None ELSE row[t]]
    BY <1>0, <1>17 DEF ForgetReference, disk
  <2>2. \A t \in Tags : row'[t] = tag[t] BY <2>1 DEF Agreed
  <2>3. row' = tag' BY <1>0, <2>1, <2>2
  <2> QED BY <2>1, <2>3 DEF Agreed
<1>18. CASE LinkStepFails(c)
  <2>1. StartRollback(c) /\ row' = row /\ tag' = tag /\ pc[c] \in LinkPoints
    BY <1>18 DEF LinkStepFails, disk, database
  <2>2. /\ pc'[c] = "rollback" /\ job'[c].prior = job[c].prior
        /\ job'[c].todo = job[c].tags \ job[c].todo
    BY <1>0, <2>1, RollbackFields
  <2> QED BY <2>1, <2>2 DEF Agreed
<1>19. CASE RollbackStepFails(c)
  <2>1. pc[c] = "rollback" /\ faults' = faults + 1 BY <1>19 DEF RollbackStepFails, CountFault
  <2> QED BY <1>9, <2>1 DEF Calm
<1>20. CASE LockedStepFails(c)
  <2>1. FinishFailed(c) /\ row' = row /\ tag' = tag /\ faults' = faults + 1 /\ pc[c] \in AbortPoints
    BY <1>20 DEF LockedStepFails, CountFault, disk, database
  <2>2. NoDeletions BY <1>0, <2>1 DEF Calm
  <2>3. pc[c] \notin {"untag", "forget"} BY <2>2 DEF NoDeletions, Deleting, Asked, Serves
  <2>4. Settled(pc[c]) BY <2>1, <2>3 DEF AbortPoints
  <2> QED BY <1>2, <2>1, <2>4
<1> QED
  BY <1>3, <1>4, <1>5, <1>6, <1>7, <1>8, <1>10, <1>11, <1>12, <1>13, <1>14, <1>15, <1>16, <1>17, <1>18, <1>19, <1>20
     DEF ClientInside, TagStep, DeleteStep

(* ... and nobody else changes a tag or a row meanwhile. *)
LEMMA AgreementKept ==
    ASSUME ConstantsAssumption, Inductive, PolicyInductive, Control, Links, TagsLead, Agreement, [Next]_vars
    PROVE  Agreement'
<1> SUFFICES ASSUME Calm'
             PROVE  /\ \A c \in Clients : pc'[c] \in Critical => Agreed(c)'
                    /\ (\A c \in Clients : pc'[c] \notin Critical) => row' = tag'
  BY DEF Agreement
<1>0. /\ TypeOK /\ LocksGuardCallbacks /\ LocksGuardCallbacks'
      /\ Clients \subseteq Threads /\ Collector \in Threads /\ Collector \notin Clients
      /\ pc \in [Threads -> Steps] /\ job \in [Threads -> Job] /\ faults \in Nat /\ crashes \in Nat
      /\ LinkPoints \cup {"rollback", "untag", "forget"} \subseteq Critical \ First
  BY LocksKept
     DEF Inductive, Threads, ConstantsAssumption, TypeOK, ThreadTypeOK, LinkPoints, Critical,
         AbortPoints, First
<1>1. Calm
  BY <1>0, BudgetSpent DEF Calm
<1>2. ASSUME NEW c \in Clients, pc'[c] = pc[c], job'[c] = job[c], row' = row, tag' = tag, Agreed(c)
      PROVE  Agreed(c)'
  BY <1>2 DEF Agreed, Forgotten
<1>3. ASSUME row' = row, tag' = tag,
             \A c \in Clients : pc'[c] = pc[c] /\ job'[c] = job[c]
      PROVE  /\ \A c \in Clients : pc'[c] \in Critical => Agreed(c)'
             /\ (\A c \in Clients : pc'[c] \notin Critical) => row' = tag'
  BY <1>1, <1>2, <1>3 DEF Agreement
<1>4. ASSUME NEW c \in Clients, UpsertTags(c) \/ ForgetReference(c) PROVE pc[c] \in Critical /\ pc'[c] # pc[c]
  BY <1>0, <1>4 DEF UpsertTags, ForgetReference, Goto, Critical, AbortPoints, LinkPoints
<1>5. ASSUME NEW c \in Clients, ClientInside(c)
      PROVE  /\ \A e \in Clients : pc'[e] \in Critical => Agreed(e)'
             /\ (\A e \in Clients : pc'[e] \notin Critical) => row' = tag'
  <2>1. pc[c] \in Critical BY <1>5, InsideIsCritical
  <2>2. Asked(c) /\ Serves(c) /\ Linked(c) /\ Agreed(c)
    BY <1>1, <2>1 DEF Control, Links, Agreement
  <2>3. Agreed(c)' BY <1>1, <1>5, <2>2, AgreedInside
  <2>4. \A e \in Clients \ {c} : pc'[e] = pc[e] /\ pc[e] \notin Critical
    BY <1>0, <1>5, <2>1, OwnStep DEF LocksGuardCallbacks
  <2>5. pc'[c] \notin Critical => row' = tag' BY <1>0, <2>3 DEF Agreed
  <2> QED BY <2>3, <2>4, <2>5
<1>6. CASE CollectorInside
  <2>1. tag' = tag
    BY <1>6 DEF CollectorInside, ScanReferences, Sweep, Release, RemoveDirectory,
       LockedStepFails, RemoveFile, disk
  <2>2. \A c \in Clients : pc'[c] = pc[c] /\ job'[c] = job[c] BY <1>0, <1>6, OwnStep
  <2>3. row' = row BY <1>4, <2>2, RowWriters
  <2> QED BY <1>3, <2>1, <2>2, <2>3
<1>7. ASSUME NEW p \in Threads, OutsideEffect(p)
      PROVE  /\ \A c \in Clients : pc'[c] \in Critical => Agreed(c)'
             /\ (\A c \in Clients : pc'[c] \notin Critical) => row' = tag'
  <2>1. /\ pc[p] \notin Critical /\ pc'[p] \notin Critical \ First /\ tag' = tag
        /\ \A q \in Threads \ {p} : pc'[q] = pc[q] /\ job'[q] = job[q]
    BY <1>7 DEF OutsideEffect, disk
  <2>2. row' = row BY <1>0, <1>4, <2>1, RowWriters
  <2>3. ASSUME NEW c \in Clients, pc'[c] \in Critical PROVE Agreed(c)'
    <3>1. CASE c # p BY <1>0, <1>1, <1>2, <2>1, <2>2, <2>3, <3>1 DEF Agreement
    <3>2. CASE c = p
      <4>1. \A e \in Clients : pc[e] \notin Critical
        BY <1>0, <2>1, <2>3, <3>2 DEF LocksGuardCallbacks
      <4>2. row' = tag' BY <1>1, <2>1, <2>2, <4>1 DEF Agreement
      <4>3. pc'[c] \notin LinkPoints \cup {"rollback", "untag", "forget"} BY <1>0, <2>1, <3>2
      <4> QED BY <4>2, <4>3 DEF Agreed
    <3> QED BY <3>1, <3>2
  <2>4. (\A c \in Clients : pc'[c] \notin Critical) => row' = tag'
    BY <1>0, <1>1, <2>1, <2>2 DEF Agreement
  <2> QED BY <2>3, <2>4
<1>8. CASE (\E d \in Digests : Age(d)) \/ UNCHANGED vars
  <2>1. tag' = tag /\ row' = row /\ pc' = pc /\ job' = job
    BY <1>8 DEF Age, vars, disk, database
  <2> QED BY <1>3, <2>1
<1>9. CASE Crash
  BY <1>0, <1>9 DEF Crash, Calm
<1> QED BY <1>0, <1>5, <1>6, <1>7, <1>8, <1>9, StepSplit

(* When nothing but the collector deletes, tags never lead to a directory that is
   gone: it spares what tags refer to, and a push links what it has written. *)
LEMMA TagsLeadKept ==
    ASSUME ConstantsAssumption, Inductive, PolicyInductive, Control, Links, TagsLead, [Next]_vars
    PROVE  TagsLead'
<1> SUFFICES ASSUME NoDeletions
             PROVE  /\ \A t \in Tags : tag'[t] # None => dir'[tag'[t]] # "absent"
                    /\ \A c \in Clients : pc'[c] \in LinkPoints \cup {"rollback"} =>
                           \A t \in Tags : job'[c].prior[t] # None => dir'[job'[c].prior[t]] # "absent"
  BY DEF TagsLead
<1>0. /\ TypeOK /\ LocksGuardCallbacks /\ CollectorSparesReferenced
      /\ Clients \subseteq Threads /\ Collector \in Threads /\ Collector \notin Clients
      /\ pc \in [Threads -> Steps] /\ job \in [Threads -> Job]
      /\ tag \in [Tags -> Digests \cup {None}] /\ tag' \in [Tags -> Digests \cup {None}]
      /\ dir \in [Digests -> {"absent", "fresh", "aged"}]
      /\ file \in [Digests -> [Files -> {"absent", "torn", "whole"}]]
      /\ \A d \in Digests : dir[d] = "absent" => \A f \in Files : file[d][f] = "absent"
      /\ LinkPoints \cup {"rollback"} \subseteq Critical \ First /\ Files = {"content", "mediaType"}
      /\ \A c \in Clients : job[c].prior \in [Tags -> Digests \cup {None}] /\ job[c].tags \subseteq Tags
      /\ \A c \in Clients : Asked(c) /\ Serves(c) /\ Linked(c) /\ PushStage(c) /\ LinkAllowed(c)
  <2>1. DiskTypeOK' BY DiskTyped DEF Inductive
  <2> QED BY <2>1 DEF Inductive, Threads, ConstantsAssumption, TypeOK, ThreadTypeOK, DiskTypeOK,
             LinkPoints, Critical, AbortPoints, First, Files, Job, Control, Links, PushStages,
             PolicyInductive, PolicyStage
<1> DEFINE Leads(m) == m # None => dir'[m] # "absent"
<1>1. ASSUME NEW c \in Clients, pc[c] \in {"stat", "removeAll", "untag", "removeTag", "forget"} PROVE FALSE
  BY <1>0, <1>1 DEF NoDeletions, Deleting, Asked, Serves
<1>2. CASE RemoveDirectory(Collector)
  <2>1. pc[Collector] = "removeAll" /\ dir' = [dir EXCEPT ![job[Collector].digest] = "absent"]
        /\ tag' = tag /\ job' = job
    BY <1>2 DEF RemoveDirectory
  <2>2. \A t \in Tags : tag[t] # job[Collector].digest
    BY <1>0, <2>1 DEF CollectorSparesReferenced, Referenced
  <2>3. \A t \in Tags : Leads(tag'[t]) BY <1>0, <2>1, <2>2 DEF TagsLead
  <2>4. \A c \in Clients : pc[c] \notin Critical
    BY <1>0, <2>1 DEF LocksGuardCallbacks, Critical, AbortPoints
  <2>5. \A c \in Clients : pc'[c] = pc[c] BY <1>0, <1>2 DEF RemoveDirectory, Goto
  <2> QED BY <1>0, <2>3, <2>4, <2>5
<1> SUFFICES ASSUME ~RemoveDirectory(Collector)
             PROVE  /\ \A t \in Tags : Leads(tag'[t])
                    /\ \A c \in Clients : pc'[c] \in LinkPoints \cup {"rollback"} =>
                           \A t \in Tags : Leads(job'[c].prior[t])
  BY <1>2
<1>3. \A d \in Digests : dir[d] # "absent" => dir'[d] # "absent"
  <2>1. CASE UNCHANGED disk \/ Crash BY <2>1 DEF disk, Crash
  <2>2. CASE \E d \in Digests : Age(d) BY <1>0, <2>2 DEF Age
  <2>3. ASSUME NEW p \in Threads, DiskStep(p) PROVE \A d \in Digests : dir[d] # "absent" => dir'[d] # "absent"
    <3>1. CASE RemoveDirectory(p)
      <4>1. p \in Clients BY <3>1 DEF Threads
      <4> QED BY <1>1, <3>1, <4>1 DEF RemoveDirectory
    <3>2. CASE \E f \in Files : RemoveFile(p, f) BY <1>0, <3>2 DEF RemoveFile
    <3>3. CASE MakeManifestDir(p) \/ \E f \in Files : OpenFile(p, f) \/ WriteFile(p, f)
      BY <1>0, <3>3 DEF MakeManifestDir, OpenFile, WriteFile
    <3>4. CASE RenameTag(p) \/ RollbackTag(p) \/ Untag(p) \/ RemoveTagFile(p)
      BY <3>4 DEF RenameTag, RollbackTag, Untag, RemoveTagFile
    <3> QED BY <2>3, <3>1, <3>2, <3>3, <3>4 DEF DiskStep
  <2> QED BY <2>1, <2>2, <2>3, DiskFootprint
<1>4. \A t \in Tags : Leads(tag[t])
  BY <1>0, <1>3 DEF TagsLead
<1>5. ASSUME NEW c \in Clients, pc[c] \in LinkPoints \cup {"rollback"}, NEW t \in Tags
      PROVE  Leads(job[c].prior[t])
  BY <1>0, <1>3, <1>5 DEF TagsLead
<1>6. ASSUME NEW t \in Tags PROVE Leads(tag'[t])
  <2>1. CASE tag' = tag BY <1>4, <2>1
  <2>2. CASE tag' # tag
    <3>1. PICK p \in Threads : DiskStep(p) BY <2>2, DiskFootprint DEF disk, Age, Crash
    <3>2. CASE p \in Clients /\ RenameTag(p)
      <4>1. tag'[t] \in {tag[t], job[p].digest} /\ pc[p] = "rename" BY <1>0, <3>2 DEF RenameTag
      <4>2. dir[job[p].digest] # "absent" /\ job[p].digest \in Digests
        BY <1>0, <3>2, <4>1 DEF Linked, LinkStages, Asked, Serves, Tagging
      <4> QED BY <1>3, <1>4, <4>1, <4>2
    <3>3. CASE p \in Clients /\ RollbackTag(p)
      <4>1. tag'[t] \in {tag[t], job[p].prior[t]} /\ pc[p] = "rollback"
        BY <1>0, <3>3 DEF RollbackTag, RolledBack
      <4> QED BY <1>4, <1>5, <3>3, <4>1
    <3>4. CASE p \in Clients /\ (Untag(p) \/ RemoveTagFile(p))
      BY <1>1, <3>4 DEF Untag, RemoveTagFile
    <3>5. CASE \/ p \in Clients /\ (MakeManifestDir(p) \/ \E f \in Files : OpenFile(p, f) \/ WriteFile(p, f))
               \/ RemoveDirectory(p) \/ \E f \in Files : RemoveFile(p, f)
      BY <2>2, <3>5 DEF MakeManifestDir, OpenFile, WriteFile, RemoveDirectory, RemoveFile
    <3> QED BY <3>1, <3>2, <3>3, <3>4, <3>5 DEF DiskStep
  <2> QED BY <2>1, <2>2
<1>7. ASSUME NEW c \in Clients, pc'[c] \in LinkPoints \cup {"rollback"}, NEW t \in Tags
      PROVE  Leads(job'[c].prior[t])
  <2>1. pc[c] \in Critical
    BY <1>0, <1>7, OutsideJob
  <2>2. CASE pc'[c] = pc[c] /\ job'[c] = job[c] BY <1>5, <1>7, <2>2
  <2>3. CASE ClientInside(c)
    <3>1. \/ pc[c] \in LinkPoints \cup {"rollback"} /\ job'[c].prior = job[c].prior
          \/ job'[c].prior = tag
      <4> USE <1>0, <1>7 DEF Goto, LinkPoints
      <4>1. CASE CheckPolicy(c)
        BY <4>1, FailedFields, CheckFields DEF CheckPolicy
      <4>2. CASE StatAndWriteTemp(c) \/ LinkStepFails(c)
        BY <4>2, RollbackFields DEF StatAndWriteTemp, LinkStepFails
      <4>3. CASE RenameTag(c) \/ RollbackTag(c) \/ RollbackStepFails(c)
        BY <4>3, TodoFields DEF RenameTag, RollbackTag, RollbackStepFails
      <4>4. CASE UpsertTags(c) \/ RollbackDone(c) \/ ReadBackTag(c) \/ PolicyStep(c) \/ StatManifest(c) \/ LockedStepFails(c)
        BY <4>4, FailedFields
           DEF UpsertTags, RollbackDone, ReadBackTag, PolicyStep, CheckRepository, WritePolicy,
               StatManifest, LockedStepFails
      <4>5. CASE ManifestStep(c)
        BY <4>5, FailedFields DEF ManifestStep, MakeManifestDir, AfterMkdir, ReadManifest, OpenFile, WriteFile
      <4>6. CASE RemoveDirectory(c) \/ RemoveTagFile(c) \/ ForgetReference(c) \/ Release(c)
        BY <4>6, FailedFields
           DEF RemoveDirectory, AfterRemoval, RemoveTagFile, ForgetReference, Release, Finish
      <4>7. CASE Untag(c) \/ \E f \in Files : RemoveFile(c, f)
        BY <4>7 DEF Untag, RemoveFile
      <4> QED BY <2>3, <4>1, <4>2, <4>3, <4>4, <4>5, <4>6, <4>7 DEF ClientInside, TagStep, DeleteStep
    <3> QED BY <1>4, <1>5, <3>1
  <2>4. CASE Crash BY <1>0, <1>7, <2>4 DEF Crash, LinkPoints
  <2> QED BY <1>0, <2>1, <2>2, <2>3, <2>4, HolderUndisturbed DEF LocksGuardCallbacks
<1> QED BY <1>6, <1>7

(* Both hold in every reachable state. *)
THEOREM AgreementHolds == ASSUME NoRepositoryDeletion PROVE Spec => [](TagsLead /\ Agreement)
<1>1. Init => TagsLead /\ Agreement
  BY DEF Init, TagsLead, Agreement, Agreed, Threads, NoDigests, Critical, AbortPoints, LinkPoints
<1>2. Inductive /\ PolicyInductive /\ Control /\ Links /\ TagsLead /\ Agreement /\ [Next]_vars
         => (TagsLead /\ Agreement)'
  BY ConstantsAssumption, TagsLeadKept, AgreementKept
<1> QED BY <1>1, <1>2, InductiveHolds, PolicyInductiveHolds, StagesHold, PTL DEF Spec

(* Between two mutations the rows of repository_tags are the tags on disk, as long
   as nothing failed (server.go, withTagMutationLock). *)
THEOREM TheReadModelAgrees == ASSUME NoRepositoryDeletion PROVE Spec => []ReadModelAgrees
<1>1. Inductive /\ Agreement => ReadModelAgrees
  <2> SUFFICES ASSUME Inductive, Agreement, tagMu = None, faults = 0, crashes = 0 PROVE row = tag
    BY DEF ReadModelAgrees
  <2>1. \A c \in Clients : pc[c] \notin Critical
    BY ConstantsAssumption DEF Inductive, LocksGuardCallbacks, ConstantsAssumption, Threads
  <2> QED BY <2>1 DEF Agreement, Calm
<1> QED BY <1>1, InductiveHolds, AgreementHolds, PTL

(* One failure, and nothing that deletes tags, leaves the two copies comparable. *)
LEMMA OneFailureIsCalm ==
    ASSUME NoDeletions, Inductive, faults <= 1, crashes = 0 PROVE Calm
BY DEF Calm, Inductive, TypeOK, ThreadTypeOK

(* linkManifestTagsLocked: one failing step of a push or link, the upsert included,
   leaves disk and database in agreement, because the rollback undoes its links. *)
THEOREM FailedPushesAgree == ASSUME NoDeletions PROVE Spec => []PushFailureKeepsAgreement
<1>1. NoRepositoryDeletion BY DEF NoDeletions, NoRepositoryDeletion, Deleting
<1>2. Inductive /\ Agreement => PushFailureKeepsAgreement
  <2> SUFFICES ASSUME Inductive, Agreement, tagMu = None, faults <= 1, crashes = 0 PROVE row = tag
    BY DEF PushFailureKeepsAgreement
  <2>1. \A c \in Clients : pc[c] \notin Critical
    BY ConstantsAssumption DEF Inductive, LocksGuardCallbacks, ConstantsAssumption, Threads
  <2> QED BY <2>1, OneFailureIsCalm DEF Agreement
<1> QED BY <1>1, <1>2, InductiveHolds, AgreementHolds, PTL

(* rollbackManifestTags: a rollback that ends has every tag of the push back at the
   digest it had when the push began to link. *)
THEOREM RollbacksRestoreTags == ASSUME NoDeletions PROVE Spec => []RollbackRestoresTags
<1>1. NoRepositoryDeletion BY DEF NoDeletions, NoRepositoryDeletion, Deleting
<1>2. Inductive /\ Agreement => RollbackRestoresTags
  <2> SUFFICES ASSUME Inductive, Agreement, NEW c \in Clients, pc[c] = "rollback", job[c].todo = {},
                      faults <= 1, crashes = 0, NEW t \in job[c].tags
               PROVE  tag[t] = job[c].prior[t]
    BY DEF RollbackRestoresTags
  <2>1. t \in Tags BY DEF Inductive, TypeOK, ThreadTypeOK, Threads, Job
  <2>2. Agreed(c) BY OneFailureIsCalm DEF Agreement, Critical
  <2> QED BY <2>1, <2>2 DEF Agreed
<1> QED BY <1>1, <1>2, InductiveHolds, AgreementHolds, PTL

-----------------------------------------------------------------------------
\* A file is torn only while c writes it, and a tagged manifest lacks a file only
\* while c deletes both the manifest and its tags.
WholeBut(c) ==
    /\ \A d \in Digests :
           /\ file[d]["content"] = "torn" => pc[c] = "writeContent" /\ job[c].digest = d
           /\ file[d]["mediaType"] = "torn" => pc[c] = "writeMediaType" /\ job[c].digest = d
    /\ \A t \in Tags : tag[t] # None =>
           \/ \A f \in Files : file[tag[t]][f] # "absent"
           \/ pc[c] \in {"removeAll", "untag"} /\ job[c].digest = tag[t]

AllWhole ==
    /\ \A d \in Digests : \A f \in Files : file[d][f] # "torn"
    /\ \A t \in Tags : tag[t] # None => \A f \in Files : file[tag[t]][f] # "absent"

Wholesome ==
    faults = 0 /\ crashes = 0 =>
        /\ \A c \in Clients : pc[c] \in Critical => WholeBut(c)
        /\ (\A c \in Clients : pc[c] \notin Critical) => AllWhole

(* The handler that holds the locks completes what it tears, ... *)
LEMMA WholeInside ==
    ASSUME ConstantsAssumption, Inductive, PolicyInductive, [Next]_vars, faults' = 0, crashes' = 0,
           faults = 0, NEW c \in Clients, ClientInside(c), Asked(c), Serves(c), Linked(c), WholeBut(c)
    PROVE  WholeBut(c)' /\ (pc'[c] \notin Critical => AllWhole')
<1> USE DEF Goto
<1>0. /\ TypeOK /\ NotDeleting(c) /\ PushStage(c)
      /\ pc \in [Threads -> Steps] /\ job \in [Threads -> Job] /\ c \in Threads /\ c # Collector
      /\ tag \in [Tags -> Digests \cup {None}] /\ job[c].tags \subseteq Tags
      /\ file \in [Digests -> [Files -> {"absent", "torn", "whole"}]]
      /\ Files = {"content", "mediaType"} /\ None \notin Digests
      /\ job[c].op \in {"put", "addTag", "deleteDigest"} => job[c].digest \in Digests
  BY DEF Inductive, PushStages, PolicyInductive, PolicyStage, TypeOK, ThreadTypeOK, DiskTypeOK, Threads,
         ConstantsAssumption, Job, Files, Asked
<1> DEFINE Busy == {"writeContent", "writeMediaType", "removeAll", "untag"}
<1>1. ASSUME AllWhole' PROVE WholeBut(c)' /\ (pc'[c] \notin Critical => AllWhole')
  BY <1>1, <1>0 DEF AllWhole, WholeBut
<1>2. pc[c] \notin Busy => AllWhole
  BY <1>0 DEF AllWhole, WholeBut
<1>3. ASSUME AllWhole, file' = file, \A t \in Tags : tag'[t] \in {tag[t], None} PROVE AllWhole'
  BY <1>3 DEF AllWhole
<1>4. ASSUME pc[c] \notin Busy, file' = file, tag' = tag PROVE AllWhole'
  BY <1>2, <1>3, <1>4
<1>5. CASE Release(c) \/ MakeManifestDir(c) \/ ReadManifest(c) \/ CheckPolicy(c) \/ StatAndWriteTemp(c)
           \/ UpsertTags(c) \/ RollbackDone(c) \/ ReadBackTag(c) \/ StatManifest(c) \/ ForgetReference(c)
           \/ PolicyStep(c)
  <2>1. pc[c] \notin Busy /\ file' = file /\ tag' = tag
    BY <1>5 DEF Release, MakeManifestDir, ReadManifest, CheckPolicy, StatAndWriteTemp, UpsertTags,
       RollbackDone, ReadBackTag, StatManifest, ForgetReference, PolicyStep, CheckRepository, WritePolicy, disk
  <2> QED BY <1>1, <1>4, <2>1
<1>6. ASSUME NEW f \in Files, OpenFile(c, f) PROVE WholeBut(c)' /\ pc'[c] \in Critical
  <2>1. /\ pc[c] = IF f = "content" THEN "openContent" ELSE "openMediaType"
        /\ pc'[c] = IF f = "content" THEN "writeContent" ELSE "writeMediaType"
        /\ job' = job /\ tag' = tag /\ file' = [file EXCEPT ![job[c].digest][f] = "torn"]
    BY <1>0, <1>6 DEF OpenFile
  <2>2. AllWhole BY <1>2, <2>1
  <2>3. job[c].digest \in Digests BY <1>0, <2>1 DEF Serves, DirectoryStages
  <2>4. \A d \in Digests, g \in Files : file'[d][g] = IF d = job[c].digest /\ g = f THEN "torn" ELSE file[d][g]
    BY <1>0, <2>1, <2>3
  <2>5. \A t \in Tags : tag[t] # None => tag[t] \in Digests BY <1>0
  <2>6. WholeBut(c)' BY <1>0, <2>1, <2>2, <2>4, <2>5 DEF AllWhole, WholeBut
  <2> QED BY <2>1, <2>6 DEF Critical, AbortPoints
<1>7. ASSUME NEW f \in Files, WriteFile(c, f) PROVE AllWhole'
  <2>1. /\ pc[c] = IF f = "content" THEN "writeContent" ELSE "writeMediaType"
        /\ job' = job /\ tag' = tag /\ file' = [file EXCEPT ![job[c].digest][f] = "whole"]
    BY <1>0, <1>7 DEF WriteFile
  <2>2. job[c].digest \in Digests BY <1>0, <2>1 DEF Serves, DirectoryStages
  <2>3. \A d \in Digests, g \in Files : file'[d][g] = IF d = job[c].digest /\ g = f THEN "whole" ELSE file[d][g]
    BY <1>0, <2>1, <2>2
  <2>4. \A t \in Tags : tag[t] # None => tag[t] \in Digests BY <1>0
  <2> QED BY <1>0, <2>1, <2>3, <2>4 DEF AllWhole, WholeBut
<1>8. CASE RenameTag(c)
  <2>1. PICK t \in job[c].todo : tag' = [tag EXCEPT ![t] = job[c].digest] BY <1>8 DEF RenameTag
  <2>2. pc[c] = "rename" /\ file' = file BY <1>8 DEF RenameTag
  <2>3. \A f \in Files : file[job[c].digest][f] # "absent" BY <2>2 DEF Linked, LinkStages
  <2>4. AllWhole BY <1>2, <2>2
  <2>5. AllWhole' BY <1>0, <2>1, <2>2, <2>3, <2>4 DEF AllWhole
  <2> QED BY <1>1, <2>5
<1>9. CASE RollbackTag(c)
  BY <1>9 DEF RollbackTag, Linked
<1>10. CASE LockedStepFails(c) \/ LinkStepFails(c) \/ RollbackStepFails(c)
  BY <1>10 DEF LockedStepFails, LinkStepFails, RollbackStepFails, CountFault
<1>11. ASSUME NEW f \in Files, RemoveFile(c, f) PROVE WholeBut(c)' /\ pc'[c] \in Critical
  <2>1. /\ pc[c] = "removeAll" /\ pc' = pc /\ job' = job /\ tag' = tag
        /\ file' = [file EXCEPT ![job[c].digest][f] = "absent"]
    BY <1>11 DEF RemoveFile
  <2>2. job[c].digest \in Digests BY <1>0, <2>1 DEF Serves
  <2>3. \A d \in Digests, g \in Files : file'[d][g] = IF d = job[c].digest /\ g = f THEN "absent" ELSE file[d][g]
    BY <1>0, <2>1, <2>2
  <2>4. \A t \in Tags : tag[t] # None => tag[t] \in Digests BY <1>0
  <2>5. WholeBut(c)' BY <1>0, <2>1, <2>3, <2>4 DEF WholeBut
  <2> QED BY <2>1, <2>5 DEF Critical, AbortPoints
<1>12. CASE RemoveDirectory(c)
  <2>1. /\ pc[c] = "removeAll" /\ pc'[c] = "untag" /\ job' = job /\ tag' = tag /\ file' = file
    BY <1>0, <1>12 DEF RemoveDirectory, AfterRemoval
  <2> QED BY <2>1 DEF WholeBut, Critical, AbortPoints
<1>13. CASE Untag(c)
  <2>0. /\ pc[c] = "untag" /\ file' = file /\ job' = job /\ \A t \in Tags : tag'[t] \in {tag[t], None}
    BY <1>0, <1>13 DEF Untag
  <2>1. CASE pc' = pc
    BY <2>0, <2>1 DEF WholeBut, Critical, AbortPoints
  <2>2. CASE pc' # pc
    <3>1. \A t \in Tags : tag[t] # job[c].digest BY <1>13, <2>2 DEF Untag
    <3>2. AllWhole BY <1>0, <2>0, <3>1 DEF AllWhole, WholeBut
    <3> QED BY <1>1, <1>3, <2>0, <3>2
  <2> QED BY <2>1, <2>2
<1>14. CASE RemoveTagFile(c)
  <2>1. /\ pc[c] = "removeTag" /\ file' = file /\ \A t \in Tags : tag'[t] \in {tag[t], None}
    BY <1>0, <1>14 DEF RemoveTagFile
  <2> QED BY <1>1, <1>2, <1>3, <2>1
<1> QED
  BY <1>1, <1>5, <1>6, <1>7, <1>8, <1>9, <1>10, <1>11, <1>12, <1>13, <1>14
     DEF ClientInside, ManifestStep, TagStep, DeleteStep

(* ... and the collector tears nothing that a tag refers to. *)
LEMMA WholesomeKept ==
    ASSUME ConstantsAssumption, Inductive, PolicyInductive, Control, Links, Wholesome, [Next]_vars
    PROVE  Wholesome'
<1> DEFINE Goal == /\ \A c \in Clients : pc'[c] \in Critical => WholeBut(c)'
                   /\ (\A c \in Clients : pc'[c] \notin Critical) => AllWhole'
<1> SUFFICES ASSUME faults' = 0, crashes' = 0 PROVE Goal
  BY DEF Wholesome
<1>0. /\ TypeOK /\ LocksGuardCallbacks /\ LocksGuardCallbacks' /\ CollectorSparesReferenced
      /\ Clients \subseteq Threads /\ Collector \in Threads /\ Collector \notin Clients
      /\ pc \in [Threads -> Steps] /\ job \in [Threads -> Job] /\ faults \in Nat /\ crashes \in Nat
      /\ tag \in [Tags -> Digests \cup {None}]
      /\ file \in [Digests -> [Files -> {"absent", "torn", "whole"}]]
      /\ {"writeContent", "writeMediaType", "removeAll", "untag"} \subseteq Critical \ First
  BY LocksKept
     DEF Inductive, Threads, ConstantsAssumption, TypeOK, ThreadTypeOK, DiskTypeOK, Critical,
         AbortPoints, First
<1>1. faults = 0 /\ crashes = 0
  BY <1>0, BudgetSpent
<1>2. ASSUME NEW c \in Clients, ClientInside(c) PROVE Goal
  <2>1. pc[c] \in Critical BY <1>2, InsideIsCritical
  <2>2. Asked(c) /\ Serves(c) /\ Linked(c) /\ WholeBut(c)
    BY <1>1, <2>1 DEF Control, Links, Wholesome
  <2>3. WholeBut(c)' /\ (pc'[c] \notin Critical => AllWhole') BY <1>1, <1>2, <2>2, WholeInside
  <2>4. \A e \in Clients \ {c} : pc'[e] = pc[e] /\ pc[e] \notin Critical
    BY <1>0, <1>2, <2>1, OwnStep DEF LocksGuardCallbacks
  <2> QED BY <2>3, <2>4
<1>3. CASE CollectorInside
  <2>1. pc[Collector] \in Critical BY <1>3, InsideIsCritical
  <2>2. \A c \in Clients : pc'[c] = pc[c] /\ pc[c] \notin Critical
    BY <1>0, <1>3, <2>1, OwnStep DEF LocksGuardCallbacks
  <2>3. AllWhole BY <1>1, <2>2 DEF Wholesome
  <2>4. CASE file' = file /\ tag' = tag BY <2>2, <2>3, <2>4 DEF AllWhole
  <2>5. ASSUME NEW f \in Files, RemoveFile(Collector, f) PROVE Goal
    <3>1. /\ pc[Collector] = "removeAll" /\ tag' = tag
          /\ file' = [file EXCEPT ![job[Collector].digest][f] = "absent"]
      BY <2>5 DEF RemoveFile
    <3>2. \A t \in Tags : tag[t] # job[Collector].digest
      BY <1>0, <3>1 DEF CollectorSparesReferenced, Referenced
    <3>3. \A d \in Digests, g \in Files :
             file'[d][g] = IF d = job[Collector].digest /\ g = f THEN "absent" ELSE file[d][g]
      BY <1>0, <3>1
    <3>4. \A t \in Tags : tag[t] # None => tag[t] \in Digests BY <1>0
    <3>5. AllWhole' BY <2>3, <3>1, <3>2, <3>3, <3>4 DEF AllWhole
    <3> QED BY <2>2, <3>5
  <2>6. CASE ScanReferences \/ Sweep \/ Release(Collector) \/ RemoveDirectory(Collector) \/ LockedStepFails(Collector)
    BY <2>4, <2>6 DEF ScanReferences, Sweep, Release, RemoveDirectory, LockedStepFails, disk
  <2> QED BY <1>3, <2>5, <2>6 DEF CollectorInside
<1>4. ASSUME NEW p \in Threads, OutsideEffect(p) PROVE Goal
  <2>1. /\ pc[p] \notin Critical /\ pc'[p] \notin Critical \ First /\ tag' = tag /\ file' = file
        /\ \A q \in Threads \ {p} : pc'[q] = pc[q] /\ job'[q] = job[q]
    BY <1>4 DEF OutsideEffect, disk
  <2>2. ASSUME NEW c \in Clients, pc'[c] \in Critical PROVE WholeBut(c)'
    <3>1. CASE c # p
      BY <1>0, <1>1, <2>1, <2>2, <3>1 DEF Wholesome, WholeBut
    <3>2. CASE c = p
      <4>1. \A e \in Clients : pc[e] \notin Critical
        BY <1>0, <2>1, <2>2, <3>2 DEF LocksGuardCallbacks
      <4>2. AllWhole' BY <1>1, <2>1, <4>1 DEF Wholesome, AllWhole
      <4> QED BY <4>2 DEF AllWhole, WholeBut, Files
    <3> QED BY <3>1, <3>2
  <2>3. (\A c \in Clients : pc'[c] \notin Critical) => AllWhole'
    BY <1>0, <1>1, <2>1 DEF Wholesome, AllWhole
  <2> QED BY <2>2, <2>3
<1>5. CASE (\E d \in Digests : Age(d)) \/ UNCHANGED vars
  <2>1. tag' = tag /\ file' = file /\ pc' = pc /\ job' = job
    BY <1>5 DEF Age, vars, disk
  <2> QED BY <1>1, <2>1 DEF Wholesome, WholeBut, AllWhole
<1>6. CASE Crash
  BY <1>0, <1>6 DEF Crash
<1> QED BY <1>0, <1>2, <1>3, <1>4, <1>5, <1>6, StepSplit

(* As long as nothing failed, every tag leads to a manifest that can be served
   whenever no mutation is on its way (PutManifestContent, DeleteManifest). *)
THEOREM TagsLeadToWholeManifests ==
    ASSUME NoRepositoryDeletion PROVE Spec => []TaggedManifestsAreWhole
<1>1. Init => Wholesome
  BY DEF Init, Wholesome, AllWhole, NoDigests, Threads, Critical, AbortPoints, LinkPoints
<1>2. Inductive /\ PolicyInductive /\ Control /\ Links /\ Wholesome /\ [Next]_vars => Wholesome'
  BY ConstantsAssumption, WholesomeKept
<1>3. Inductive /\ Wholesome => TaggedManifestsAreWhole
  <2> SUFFICES ASSUME Inductive, Wholesome, tagMu = None, faults = 0, crashes = 0,
                      NEW t \in Tags, tag[t] # None
               PROVE  dir[tag[t]] # "absent" /\ \A f \in Files : file[tag[t]][f] = "whole"
    BY DEF TaggedManifestsAreWhole
  <2>1. \A c \in Clients : pc[c] \notin Critical
    BY ConstantsAssumption DEF Inductive, LocksGuardCallbacks, ConstantsAssumption, Threads
  <2>2. AllWhole BY <2>1 DEF Wholesome
  <2> QED BY <2>2 DEF AllWhole, Inductive, TypeOK, DiskTypeOK, Files
<1> QED BY <1>1, <1>2, <1>3, InductiveHolds, PolicyInductiveHolds, StagesHold, PTL DEF Spec

=============================================================================
