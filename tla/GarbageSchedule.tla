--------------------------- MODULE GarbageSchedule --------------------------
(***************************************************************************)
(* The two background loops of cmd/simplecontainerregistry/main.go over    *)
(* all repositories: runGarbageCollector, whose timer, settings and walk   *)
(* of the directory tree decide when a repository is collected, and        *)
(* runStaleUploadCleanup.  What a collection does inside one repository is *)
(* RepositoryTags, what the cleanup does to a session BlobUpload; here     *)
(* each is one step.                                                       *)
(*                                                                         *)
(* Time passes in ticks; a walk may take any number of them.  A name       *)
(* ending in "Faulty" is a deliberately wrong variant of the definition    *)
(* that follows it; nothing uses it but the mutation runs.                 *)
(***************************************************************************)
EXTENDS Naturals, SequencesExt

CONSTANTS
    Walk,             \* names of repositories, sequences of path components, in the
                      \* order in which filepath.WalkDir reaches their directories
    Configured,       \* the settings of the configuration file
    SaveableSettings,         \* the settings that administrators save
    DefaultInterval,  \* 24 hours
    UploadTTL,
    MaxAge,           \* bound: older manifests are like those of this age
    MaxFaults,        \* bound on failing steps
    MaxRestarts,      \* bound on restarts of the process
    None

Setting == [enabled : BOOLEAN, delay : Nat, interval : Nat]

\* What is assumed of the constants.
ScheduleConstants ==
    /\ Configured \in Setting
    /\ SaveableSettings \subseteq Setting
    /\ DefaultInterval \in Nat \ {0}
    /\ UploadTTL \in Nat \ {0}
    /\ MaxAge \in Nat
    /\ None \notin [tagged : BOOLEAN, age : 0 .. MaxAge]

VARIABLES
    saved,       \* the rows of app_settings, None before the first update
    interval,    \* the local variable of runGarbageCollector
    timer,       \* ticks until timer.C fires
    collection,  \* the collection under way
    manifest,    \* manifest[n]: one manifest of repository n, or None
    upload,      \* ticks since the last write to an upload session, or None
    ticker,      \* ticks until the cleanup's ticker fires
    tickDue,     \* its channel holds a tick
    faults,
    restarts

settings == <<saved, interval>>
loops == <<timer, collection, ticker, tickDue>>
store == <<manifest, upload>>
budget == <<faults, restarts>>
vars == <<settings, loops, store, budget>>

Collectable == ToSet(Walk)

Idle == [phase |-> "waiting", todo |-> {}, old |-> {}, settings |-> Configured]

StartInterval == IF Configured.interval > 0 THEN Configured.interval ELSE DefaultInterval

\* uploadCleanupInterval
CleanupInterval == IF UploadTTL \div 2 > 0 THEN UploadTTL \div 2 ELSE UploadTTL

Init ==
    /\ saved = None
    /\ interval = StartInterval
    /\ timer = StartInterval
    /\ collection = Idle
    /\ manifest = [n \in Collectable |-> None]
    /\ upload = None
    /\ ticker = CleanupInterval
    /\ tickDue = FALSE
    /\ faults = 0
    /\ restarts = 0

\* Store.GCSettings: what is not saved is as configured.
Effective == IF saved = None THEN Configured ELSE saved

-----------------------------------------------------------------------------
(***************************************************************************)
(* Clients and administrators.                                             *)
(***************************************************************************)

\* handleUIGCSettingsUpdate: the three rows change in one transaction.
SaveSettings ==
    /\ saved' \in {s \in SaveableSettings : s.interval > 0}
    /\ UNCHANGED <<interval, loops, store, budget>>

\* A new manifest has a new directory, younger than the cutoff of a collection
\* under way; moving tags to it or away leaves the directory as it is.
Push(n, tagged) ==
    /\ IF manifest[n] = None
       THEN /\ manifest' = [manifest EXCEPT ![n] = [tagged |-> tagged, age |-> 0]]
            /\ collection' = [collection EXCEPT !.old = @ \ {n}]
       ELSE /\ manifest' = [manifest EXCEPT ![n].tagged = tagged]
            /\ UNCHANGED collection
    /\ UNCHANGED <<settings, timer, ticker, tickDue, upload, budget>>

\* Starting a session and appending to it renew its modification time.
WriteUpload ==
    /\ upload' = 0
    /\ UNCHANGED <<settings, loops, manifest, budget>>

\* A session is committed or cancelled.
EndUpload ==
    /\ upload # None
    /\ upload' = None
    /\ UNCHANGED <<settings, loops, manifest, budget>>

-----------------------------------------------------------------------------
(***************************************************************************)
(* Time.  The ticker's channel holds one tick and drops others.            *)
(***************************************************************************)
Older(age, bound) == IF age < bound THEN age + 1 ELSE age

Tick ==
    /\ timer' = IF timer > 0 THEN timer - 1 ELSE 0
    /\ ticker' = IF ticker > 1 THEN ticker - 1 ELSE CleanupInterval
    /\ tickDue' = (tickDue \/ ticker = 1)
    /\ manifest' = [n \in Collectable |->
                      IF manifest[n] = None THEN None
                      ELSE [manifest[n] EXCEPT !.age = Older(@, MaxAge)]]
    /\ upload' = IF upload = None THEN None ELSE Older(upload, UploadTTL)
    /\ UNCHANGED <<settings, collection, budget>>

-----------------------------------------------------------------------------
(***************************************************************************)
(* runGarbageCollector.                                                    *)
(***************************************************************************)
\* timer.Reset at the end of every turn of the loop.
Rearm(i) ==
    /\ interval' = i
    /\ timer' = i
    /\ collection' = Idle

NextInterval(s) == IF s.interval > 0 THEN s.interval ELSE interval

\* Directories that are not younger than the cutoff of this moment.
OlderThan(delay) == {n \in Collectable : manifest[n] # None /\ manifest[n].age >= delay}

\* The timer fired and GCSettings was read; the names on disk are listed in order.
Fire ==
    /\ collection.phase = "waiting"
    /\ timer = 0
    /\ IF Effective.enabled
       THEN /\ collection' = [phase |-> "walking",
                              todo |-> {n \in Collectable : manifest[n] # None},
                              old |-> OlderThan(Effective.delay),
                              settings |-> Effective]
            /\ UNCHANGED <<interval, timer>>
       ELSE Rearm(NextInterval(Effective))
    /\ UNCHANGED <<saved, ticker, tickDue, store, budget>>

\* The walk takes the first directory called "manifests" on the way to those of n
\* for the manifests of the repository that the path leads to so far.
TakenFor(n) ==
    LET path == Append(n, "manifests")
    IN  SubSeq(path, 1, SelectInSeq(path, LAMBDA part : part = "manifests") - 1)

\* WithRepositoryLock rejects the empty name, and any error ends the walk.
EndsWalk(n) == TakenFor(n) = <<>>

Collected(n) == n \in collection.old /\ manifest[n] # None /\ ~manifest[n].tagged

\* The walk goes in the order of the directories.
NextToVisit == Walk[Min({i \in DOMAIN Walk : Walk[i] \in collection.todo})]

AfterVisitFaulty(n) == [collection EXCEPT !.todo = {}]
AfterVisit(n) == [collection EXCEPT !.todo = @ \ {n}]

\* One repository under its lock.
Visit ==
    /\ collection.phase = "walking"
    /\ collection.todo # {}
    /\ LET n == NextToVisit
       IN  IF EndsWalk(n)
           THEN Rearm(NextInterval(collection.settings)) /\ UNCHANGED manifest
           ELSE /\ manifest' = IF Collected(n) THEN [manifest EXCEPT ![n] = None] ELSE manifest
                /\ collection' = AfterVisit(n)
                /\ UNCHANGED <<interval, timer>>
    /\ UNCHANGED <<saved, ticker, tickDue, upload, budget>>

EndWalk ==
    /\ collection.phase = "walking"
    /\ collection.todo = {}
    /\ Rearm(NextInterval(collection.settings))
    /\ UNCHANGED <<saved, ticker, tickDue, store, budget>>

-----------------------------------------------------------------------------
(***************************************************************************)
(* runStaleUploadCleanup.                                                  *)
(***************************************************************************)
CleanupMayRunFaulty == tickDue /\ Effective.enabled
CleanupMayRun == tickDue

Cleanup ==
    /\ CleanupMayRun
    /\ tickDue' = FALSE
    /\ upload' = IF upload = UploadTTL THEN None ELSE upload
    /\ UNCHANGED <<settings, timer, collection, ticker, manifest, budget>>

-----------------------------------------------------------------------------
CountFault ==
    /\ faults < MaxFaults
    /\ faults' = faults + 1
    /\ UNCHANGED restarts

\* The settings cannot be read: the old interval is waited for again.
LoadFails ==
    /\ collection.phase = "waiting"
    /\ timer = 0
    /\ CountFault
    /\ Rearm(interval)
    /\ UNCHANGED <<saved, ticker, tickDue, store>>

\* One repository that cannot be read ends the walk for those after it.
VisitFails ==
    /\ collection.phase = "walking"
    /\ collection.todo # {}
    /\ CountFault
    /\ Rearm(NextInterval(collection.settings))
    /\ UNCHANGED <<saved, ticker, tickDue, store>>

CleanupFails ==
    /\ CleanupMayRun
    /\ CountFault
    /\ tickDue' = FALSE
    /\ UNCHANGED <<settings, timer, collection, ticker, store>>

\* The loops start over with the configured interval, whatever was saved.
Restart ==
    /\ restarts < MaxRestarts
    /\ restarts' = restarts + 1
    /\ Rearm(StartInterval)
    /\ ticker' = CleanupInterval
    /\ tickDue' = FALSE
    /\ UNCHANGED <<saved, store, faults>>

CollectorStep == Fire \/ Visit \/ EndWalk

Next ==
    \/ SaveSettings
    \/ \E n \in Collectable, tagged \in BOOLEAN : Push(n, tagged)
    \/ WriteUpload
    \/ EndUpload
    \/ Tick
    \/ CollectorStep
    \/ Cleanup
    \/ LoadFails
    \/ VisitFails
    \/ CleanupFails
    \/ Restart

Spec == Init /\ [][Next]_vars

(***************************************************************************)
(* Time passes and the two goroutines run; nobody has to push or to save.  *)
(***************************************************************************)
Fairness ==
    /\ WF_vars(Tick)
    /\ WF_vars(CollectorStep)
    /\ WF_vars(Cleanup)

FairSpec == Spec /\ Fairness

-----------------------------------------------------------------------------
(***************************************************************************)
(* Properties.                                                             *)
(***************************************************************************)
(* Every variable has its type. *)
TypeOK ==
    /\ saved \in Setting \cup {None}
    /\ interval \in Nat \ {0}
    /\ timer \in 0 .. interval
    /\ collection \in [phase : {"waiting", "walking"}, todo : SUBSET Collectable,
                       old : SUBSET Collectable, settings : Setting]
    /\ manifest \in [Collectable -> {None} \cup [tagged : BOOLEAN, age : 0 .. MaxAge]]
    /\ upload \in {None} \cup 0 .. UploadTTL
    /\ ticker \in 1 .. CleanupInterval
    /\ tickDue \in BOOLEAN

Garbage(n) ==
    /\ manifest[n] # None
    /\ ~manifest[n].tagged
    /\ manifest[n].age >= Effective.delay

(* README: "Garbage collection removes untagged manifest records after the
   configured grace period."  While the saved settings enable it, no repository
   keeps such a manifest for ever: neither an error in another repository, nor a
   failure to read the settings, nor a restart stops the collector for good. *)
EveryRepositoryIsCollected ==
    \A n \in Collectable : []<>~(Effective.enabled /\ Garbage(n))

(* "Disabled or infrequent manifest GC must not retain expired upload sessions":
   an idle session goes, whatever the settings of the collector. *)
UploadsExpireWhateverTheSettings == upload = UploadTTL ~> upload # UploadTTL

=============================================================================
