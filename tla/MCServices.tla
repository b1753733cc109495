----------------------------- MODULE MCServices -----------------------------
(***************************************************************************)
(* One TLC instance for the small parts of the process that share no state *)
(* with each other: a behaviour picks one of them, runs it as its own      *)
(* module says and leaves the variables of the others as they were.  The   *)
(* lock set is extended, the others are instantiated.                      *)
(***************************************************************************)
EXTENDS UploadLocks, Sequences

CONSTANTS
    Handlers, Actions, Reported, URLs, Locations, Capacity,     \* WebhookQueue
    MaxRequests, MaxEvents,
    Walk, Configured, SaveableSettings,                         \* GarbageSchedule
    DefaultInterval, UploadTTL, MaxAge,
    MaxFaults, MaxRestarts,
    Callers, Addresses, Accounts, IPAttempts, AccountAttempts,  \* AuthLimiter
    Window, MaxDelay, MaxTime,
    Names, Limits,                                              \* Listings
    Repositories, Blobs                                         \* BlobLinkMigration

VARIABLES
    service,
    saved, interval, timer, collection, manifest, upload, ticker, tickDue,
    faults, restarts,
    rows, request, events, url, worker, issued, sent, failures, crashes,
    clock, windows, nextGC, attempt, allowed,
    present, client, got, kept,
    marker, stored, references, links, phase, todo, admitted, owed, unlinked

Services == {"locks", "schedule", "webhooks", "limiter", "listings", "migration"}

\* Values for the schedule: its settings, and the repositories that its walk meets,
\* none of whose names can be taken for a directory of manifests.
Off == [enabled |-> FALSE, delay |-> 0, interval |-> 2]
OffOrOn == {Off, [enabled |-> TRUE, delay |-> 1, interval |-> 1]}
TwoRepositories == << <<"alpine">>, <<"apps", "web">> >>

Schedule == INSTANCE GarbageSchedule
Webhooks == INSTANCE WebhookQueue WITH faults <- failures, restarts <- crashes
Limiter == INSTANCE AuthLimiter
Listing == INSTANCE Listings
Migration == INSTANCE BlobLinkMigration

ASSUME ServicesAssumption ==
    /\ Capacity \in Nat
    /\ Schedule!ScheduleConstants
    /\ Limiter!LimiterConstants
    /\ Listing!ListingConstants

onlySchedule == <<saved, interval, timer, collection, manifest, upload, ticker, tickDue,
                  faults, restarts>>
onlyWebhooks == <<rows, request, events, url, worker, issued, sent, failures, crashes>>
onlyLimiter == <<clock, windows, nextGC, attempt, allowed>>
onlyListing == <<present, client, got, kept>>
onlyMigration == <<marker, stored, references, links, phase, todo, admitted, owed, unlinked>>

allVars == <<service, vars, onlySchedule, onlyWebhooks, onlyLimiter, onlyListing,
             onlyMigration>>

\* The data that a service which does not run starts with makes no difference.
ServicesInit ==
    /\ service \in Services
    /\ Init
    /\ service # "locks" => \A p \in Procs : path[p] = CHOOSE x \in Paths : TRUE
    /\ Listing!Init
    /\ service # "listings" => present = {}
    /\ Migration!Init
    /\ service # "migration" => stored = {} /\ references = {}
    /\ Schedule!Init
    /\ Webhooks!Init
    /\ Limiter!Init

-----------------------------------------------------------------------------
Runs(name) == service = name /\ UNCHANGED service

Locking(step) ==
    /\ Runs("locks")
    /\ step
    /\ UNCHANGED <<onlySchedule, onlyWebhooks, onlyLimiter, onlyListing, onlyMigration>>

Scheduling(step) ==
    /\ Runs("schedule")
    /\ step
    /\ UNCHANGED <<vars, onlyWebhooks, onlyLimiter, onlyListing, onlyMigration>>

Dispatching(step) ==
    /\ Runs("webhooks")
    /\ step
    /\ UNCHANGED <<vars, onlySchedule, onlyLimiter, onlyListing, onlyMigration>>

Limiting ==
    /\ Runs("limiter")
    /\ Limiter!Next
    /\ UNCHANGED <<vars, onlySchedule, onlyWebhooks, onlyListing, onlyMigration>>

Paging ==
    /\ Runs("listings")
    /\ Listing!Next
    /\ UNCHANGED <<vars, onlySchedule, onlyWebhooks, onlyLimiter, onlyMigration>>

Migrating ==
    /\ Runs("migration")
    /\ Migration!Next
    /\ UNCHANGED <<vars, onlySchedule, onlyWebhooks, onlyLimiter, onlyListing>>

ServicesNext ==
    \/ Locking(Next)
    \/ Scheduling(Schedule!Next)
    \/ Dispatching(Webhooks!Next)
    \/ Limiting
    \/ Paging
    \/ Migrating

\* The fairness of the modules, for the service that runs.
ServicesFairness ==
    /\ \A p \in Procs : SF_allVars(Locking(Step(p)))
    /\ WF_allVars(Scheduling(Schedule!Tick))
    /\ WF_allVars(Scheduling(Schedule!CollectorStep))
    /\ WF_allVars(Scheduling(Schedule!Cleanup))
    /\ \A h \in Handlers : WF_allVars(Dispatching(Webhooks!HandlerStep(h)))
    /\ WF_allVars(Dispatching(Webhooks!WorkerStep))

ServicesSpec == ServicesInit /\ [][ServicesNext]_allVars /\ ServicesFairness

-----------------------------------------------------------------------------
(***************************************************************************)
(* Properties: those of the modules, under their own names.                *)
(***************************************************************************)
(* Every variable of every service has its type. *)
ServicesTypeOK ==
    /\ TypeOK
    /\ Schedule!TypeOK
    /\ Webhooks!TypeOK
    /\ Limiter!TypeOK
    /\ Listing!TypeOK
    /\ Migration!TypeOK

(* runGarbageCollector reaches the garbage of every repository, see GarbageSchedule. *)
EveryRepositoryIsCollected == Schedule!EveryRepositoryIsCollected

(* runStaleUploadCleanup does not depend on the settings, see GarbageSchedule. *)
UploadsExpireWhateverTheSettings == Schedule!UploadsExpireWhateverTheSettings

(* What the dispatcher delivers, when and where to, see WebhookQueue. *)
DeliveriesFollowTheLog == Webhooks!DeliveriesFollowTheLog

(* The dispatcher gets to every event it took, see WebhookQueue. *)
EveryQueuedEventIsTried == Webhooks!EveryQueuedEventIsTried

(* The windows of authLimiter bound the attempts, see AuthLimiter. *)
AttemptsAreLimited == Limiter!AttemptsAreLimited

(* Following Link headers lists what stayed, see Listings. *)
ListingIsComplete == Listing!ListingIsComplete

(* Links exist for what manifests refer to once the server listens, see
   BlobLinkMigration. *)
LinksSurviveTheMigration == Migration!LinksSurviveTheMigration

=============================================================================
