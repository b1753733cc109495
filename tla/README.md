# Simple Container Registry: specifications

TLA+ modules that model the registry in this repository, TLC instances that
check them, and proofs checked by TLAPS. `src/...` names files of the
repository. `PROJECT.json` lists the components, the runs, a mutation of the
model for every checked property, the source lines behind every definition, the
hazards of the code, the disagreements found and the theorems.

## The system

One process serves the OCI distribution API, an administration API and a web UI
(`internal/httpserver`), keeps content on disk (`internal/storage`) and accounts
and metadata in SQLite (`internal/db`), and runs three background goroutines
(`cmd/simplecontainerregistry/main.go`): the manifest garbage collector, the
removal of stale uploads, and the webhook dispatcher.

| Component | State | Operations | Shared with |
|---|---|---|---|
| Manifests and tags | `manifests/<digest>/{content,mediaType}`, `tags/<tag>`, `.tag-*` temporaries; rows of `repositories`, `repository_tags`, `repository_tag_policies` | push, link, delete of a tag or a digest, policy, UI deletion of a repository, pull | collector; `tagMu` and a flock per repository |
| Garbage collector | none of its own; the modification time of manifest directories | one pass over all repositories at each interval | disk and flock with the handlers |
| Schedule and settings | a timer and the interval of the last turn; three rows of `app_settings`; a ticker for stale uploads | fire, walk, rearm; save the settings; clean up | settings with the UI; starts the two rows around it |
| Blob uploads and blob store | session files, blobs, repository links | start, monolithic upload, PATCH, PUT, cancel, unlink, removal of idle sessions | `uploadMu`, one lock per session |
| Upload locks | map from path to a reference-counted mutex | `LockUpload` and the function it returns | handlers and stale upload removal |
| Users, grants, tokens | rows of `users` and `grants`, tokens at the clients, four verification slots | token service, bearer check of every request, administration by API and UI | SQLite; the registry handlers run on a principal read earlier |
| Attempt limiter | windows per address and account, and when they are collected next | `allow` | token service and UI login |
| Webhooks and audit log | append-only rows; a bounded channel; the saved URL | insert, enqueue, one worker | every handler that mutates; the URL with the UI |
| Listings | none; the client's `n` and `last` | a page of tags or of the catalog | directories and rows that pushes and deletions change |
| Layout migration | a marker file; the links from repositories to blobs | one pass at start | disk; over before the server listens |
| Dashboard, UI views, sessions, configuration | derived or constant | reads | - |

What is hard here:

- Every tag is kept twice, on disk and in SQLite, and a mutation writes both one
  after the other. A failure or a crash between any two steps, and the rollback
  that answers it, decide whether the two agree afterwards.
- The collector shares the disk with the handlers, decides from a list it made
  earlier, and takes one of their two locks.
- The UI's deletion of a repository does part of its work without any lock, and
  pulls take none.
- Uploads are resumed, retried and raced by clients, cut off by timeouts and
  cleaned up by age, under locks that come and go with their users.
- Access is read in several queries before the work that it allows, while
  administrators change it.
- The background loops run for the life of the process and must survive every
  error: settings that cannot be read, a repository that cannot be walked, a
  delivery that fails. One walk serves all repositories, so that an error in one
  is felt by those after it.
- Progress that has to outlive the process (the migration) is one marker file;
  what is in a channel or a timer does not outlive it at all.

What makes each component correct is stated as properties below; `hazards` in
`PROJECT.json` lists where the code could break each of them, at its line, and
also the hazards that no property covers yet.

## Modules

| Module | Models | Extends or uses |
|---|---|---|
| `RepositoryTags` | manifests, tags, policies and the collector in one repository | - |
| `RepositoryTagsProofs`, `RepositoryTagsAgreementProofs` | theorems about it | `RepositoryTags`; the second extends the first |
| `PathMutex` | what `LockUpload` promises: one mutex per path | - |
| `UploadLocks` | how it does it | `PathMutex` (refinement) |
| `UploadLocksProofs` | theorems about it | `UploadLocks`, `TLAPS` |
| `BlobUpload` | upload sessions, blob store, links, cleanup | takes one lock per session, which `UploadLocks` justifies |
| `BlobUploadProofs` | theorems about it | `BlobUpload`, `TLAPS` |
| `AccessControl` | users, grants, tokens, administration | - |
| `Scopes` | names, prefixes, scopes and claims | - |
| `AccessControlProofs` | theorems about both, and that they fit | `AccessControl`, instantiates `Scopes` |
| `GarbageSchedule` | the two background loops over all repositories | a collection inside a repository is `RepositoryTags`, the removal of a session `BlobUpload` |
| `WebhookQueue` | audit log, channel and dispatcher | - |
| `WebhookQueueProofs` | theorems about it | `WebhookQueue`, `TLAPS` |
| `AuthLimiter` | windows of attempts | what it admits is a login of `AccessControl` |
| `AuthLimiterProofs` | theorems about it | `AuthLimiter`, `TLAPS` |
| `Listings` | paging through tags and the catalog | - |
| `BlobLinkMigration` | the pass at start, and links afterwards | - |
| `MCServices` | one instance of the parts that share no state | extends `UploadLocks`, instantiates the other five |
| `ServicesProofs` | theorems about `GarbageSchedule`, `Listings` and `BlobLinkMigration`, and about all parts together | `MCServices`, `UploadLocksProofs`; instantiates `WebhookQueueProofs`, `AuthLimiterProofs` |
| other `MC...` | requests, settings, names and symmetry of the TLC instances | the module it is named after |

Conventions of all modules. A goroutine is a member of `Clients` (a request) or a
background thread; `pc` says what it does next and `job` holds the request and
its local variables. An action is one system call or one database transaction:
SQLite has a single connection (`db.Open`), and the handlers' own steps in
between touch no shared state. `Receive` is the arrival of a request; `Requests`
is the set an instance allows. `faults` and `crashes` count failing steps and
crashes against their bounds. A definition whose name ends in `Faulty` is a wrong
variant used by a mutation run only.

### RepositoryTags

`dir`, `file`, `tag`, `temps` are the disk; `repo`, `row`, `policy` the database;
`tagMu` and `flock` the two locks. A push is the sequence mkdir, open and write of
each of the two files, policy check, then for each tag: write a temporary, rename
it, and at the end one transaction for all rows (`putManifestAndTags`,
`linkManifestTagsLocked`, `PutManifestContent`, `UpsertRepositoryTags`). A failing
step of the linking leads to the rollback (`RollbackTag`, `ReadBackTag`); a failing
step elsewhere ends the callback and returns both locks, as the deferred unlocks
do. A deletion removes the files one by one, the tags that name the digest, and
the rows. The collector reads the tags once (`ScanReferences`) and then visits
its list. `dir[d] = "aged"` stands for a directory older than the grace period;
`recent` remembers the manifests pushed again since. A crash drops threads and
locks and keeps disk and database; a torn temporary is kept in `temps` because
the collector reads it as a tag.

Abstracted: one repository; a policy is the set of tags it protects; a digest is
its content; media types, sizes, usage counters and audit rows; the check that a
manifest's blobs are linked (before the locks); manifests that refer to others
(indexes); order in which several tags of one rollback are visited.

### PathMutex, UploadLocks

`locks`, `refs` are `uploadLockSet.locks` and `uploadLock.refs`; `holder` the
mutex of each entry; `setMu` the mutex of the set. The actions are the
statements of `LockUpload` and of the function it returns. Entries are objects
that are made again for a path after the last was dropped, which is what could
break exclusion. `Mutex!Spec` is the abstract specification.

### BlobUpload

`file[s]` is the content of session `s`, byte by byte; `idle` the sessions past
`uploadTTL`; `blob` and `link` the store. `copy` appends one byte per step under
`io.LimitReader`; exceeding the limit truncates back. A commit hashes, renames and
links in three steps. `CountUploads` and `CreateFile` run under `uploadMu`.
The cleanup lists, then locks and inspects session by session. Each request may
fail at any system call, or its body may break off. Handlers that only read
(status, download) change no state and are left out.

Abstracted: all clients upload parts of one blob (bytes `1, 2, 3...`), which makes
a misplaced byte visible; one owner and one repository; a body arrives complete
or is cut (`StepFails`), and an ambiguous result of `rename` is a failure before it.

### AccessControl

`row[u]`, `grants` are the tables; `tokens` what was issued; `verifying` the
slots taken; `clock` the time. A token request authenticates (slot, row, secret),
updates `last_used_at`, reads the grants and mints. Other requests validate the
token, which reads the user again, and then either compare the claims and the
current grants (registry) or the role (administration). Deleting a user deletes
its grants, as the schema demands; a restart runs `BootstrapAdmin`. A UI session
is a token without access in a cookie, so the login is a token request that asks
for nothing. `seen[c]` is a history: what has been true of the presented token at
some time since the request arrived.

Abstracted: a grant is the set of permissions it covers (`Scopes` says which), so that a
grant without actions and one whose prefix covers no modelled repository are the same; a new user has at most one grant; user ids
are random, so that requests name only ids given out; a secret is known by
those who know the user. The bound on ids makes further inserts fail. A request is
`WellFormed`: what changes a user names one, the UI makes no administrators, and no
route of the registry asks for the action `admin`, which `HasAccess` would take as
every other.

### Scopes

The pure functions of `auth/scope.go`, on names that are sequences of the parts
between slashes: `repositoryMatches` with its two trims, `allowedActions`,
`IntersectAccess`, `HasAccess`. No process calls them here: `AccessControl` computes
with the permissions themselves, and `AccessControlProofs` shows that this is the
same. A prefix that is a slash or two, or `*/`, is a name like every other here, as
in the code. Abstracted: `ParseScope`, which cuts a scope at its colons and commas.

### GarbageSchedule

`timer` and `interval` are the timer and the local variable of
`runGarbageCollector`, `saved` the rows of `app_settings` (`Effective` falls back
to the configuration as `GCSettings` does), `ticker` and `tickDue` the ticker of
`runStaleUploadCleanup` with its channel of one. `Fire` reads the settings and
lists what is on disk; `Visit` is the
repository of `collection.todo` that `filepath.WalkDir` meets first (`NextToVisit`); every end of a turn, the failing ones included, is a `Rearm`. A name
is a sequence of path components, because the walk finds out what a directory is
from the names on its way (`TakenFor`): `manifests/web` is a legal repository,
and the walk takes its first component for the manifests of a repository without a
name, which `WithRepositoryLock` rejects; any error ends the walk. Other errors are
transient here (`MaxFaults`), and `EveryRepositoryIsCollected` is a statement about
those: an error that stays, such as a directory that cannot be read, keeps every
repository after it from being collected just as the name does.

Abstracted: time in ticks; one manifest in each repository, with its tag and its
age; one upload session. A walk takes any number of ticks. What a push does to a
manifest under collection is one step of `RepositoryTags`' finer story.

### WebhookQueue

`rows` is `audit_events`, `events` the channel, `worker` the goroutine of `run`.
A handler that has done its operation writes the row (`InsertAuditEvent`) and then
offers the event to the channel (`Enqueue`, dropped when full, or when its action
belongs to no group). The worker receives, reads the destination, posts. The client
has no `CheckRedirect` and the payload is a `bytes.Reader`, so an answer 307 or 308 has
`client.Do` post the same event again, at a `Location` that nobody saved, and up to ten
times in all: `FollowRedirect`, with `nr` the number of requests made and `MaxRequests`
the client's ten. So one event may arrive several times, and elsewhere; the property
says that this happens only along such a chain, which begins once for an event and at a
saved URL.
`Restart` covers shutdown and crash: neither drains the channel. `saved` in the
worker and in `sent` collects the URLs in force since the delivery began.

Abstracted: the payload is the event; a request arrives or does not; the status of the
answer matters only when it is 307 or 308. After 301 to 303 the client asks with a GET
that carries no event, which is left out. `Locations` are the addresses that answers
name, `URLs` those that administrators save.

### AuthLimiter

`windows[k]` is a counter with its reset time, `nextGC` the next collection. An
attempt is `ReadClock`, outside the mutex, and `Allow`, inside; `MaxDelay` bounds
the time in between. `allowed[k]` is a history of the attempts let through, each a
record of the time it was made with and a number among those of that time
(`Admission`). Abstracted: an attempt has one address and at most one
account, as in both callers; how the address is found in the request.

### Listings

`present` are the names that exist, `client` follows the Link headers with its
`n`. `Request` is one page: `pageStrings` of the names that exist, cut as the handler
does; `got` is the sequence of pages. The lists of the code are sorted, so a page is
a set, cut where the `Position` of a name exceeds the limit. The server has no memory
between pages. Names are ranks in string order.

### BlobLinkMigration

`marker` is the file `.repository-blob-links-migrated`, `references` what the
manifests on disk name, `links` the links. `Start` of a process without the marker
begins a pass; each `Link` is one blob of one manifest; the process may `Stop` at
any step. The server listens after `WriteMarker`; then uploads link, deletions
unlink, and a push looks for its links (`CheckBlob`) before it stores the manifest
(`PutManifest`). `owed` and `unlinked` are histories. Abstracted: a manifest is
the pair of a repository and one blob; one push at a time.

## Runs

Every run finishes within minutes on two workers. All but `*_live` and `services`
use symmetry in the clients, ids, tags and digests; runs with liveness do not.

| Run | Instance | Shows |
|---|---|---|
| `tags_crash` | 2 clients, collector, 1 tag, 2 digests, 1 fault, 1 crash; pushes, deletions of tags and of digests (3.4 M states) | `LocksGuardCallbacks`: who is inside a callback holds both locks. `CollectorSparesReferenced`: nothing that a tag names is on the collector's list. `PublishedManifestsAreWhole`: a tag is moved only to a manifest that is complete. `AcknowledgedPushIsVisible`: what is acknowledged is on disk and in the database. Without failures, `ReadModelAgrees` and `TaggedManifestsAreWhole` between mutations |
| `tags_push` | 2 clients, collector, 2 tags, 2 digests, 2 faults; pushes of both tags, tags added one at a time, policies (3.3 M) | `PushFailureKeepsAgreement`, `RollbackRestoresTags` (for one failing step; the second one lets rollbacks fail too); `ProtectedTagsStay`, also in a rollback |
| `tags_live` | 2 clients, collector, 1 tag, 1 digest, 1 fault; pushes, pulls, the UI's deletion of the repository (0.1 M), with fairness | `RequestsEnd`: no lock is left taken. `GarbageIsCollected`. `TypeOK` with the foreign keys, the UI's deletion included |
| `tags_delete_race` | 2 clients | violation of `ReadModelAgrees`, see below |
| `tags_grace` | 1 client, collector | violation of `CollectorHonoursGrace` |
| `tags_temp_leak` | 1 client, collector, 1 crash, fairness | violation of `GarbageIsCollected` |
| `services` | the six parts without common state, one per behaviour (0.1 M), with fairness: 3 goroutines, 2 paths, 3 entries; two repositories, settings off and on, 1 fault, 1 restart; 2 handlers, 1 URL, 1 address of redirects, 2 requests for a delivery, channel of 1, 2 events, 1 fault, 1 restart; 2 callers, limits 2 and 1, windows of 4 units, readings 1 late; 4 names, pages of 1, 2 or all; 2 repositories, 2 blobs | the lock set: `OneInsidePerPath`, `NoEntryOutlivesItsUsers`, `ImplementsPathMutex`, `EveryCallEnters`. The loops: `EveryRepositoryIsCollected`, `UploadsExpireWhateverTheSettings`. The dispatcher: `DeliveriesFollowTheLog`, `EveryQueuedEventIsTried`. `AttemptsAreLimited`, `ListingIsComplete`, `LinksSurviveTheMigration`, `ServicesTypeOK` |
| `collections_names` | 3 repositories, one of them `manifests/web`, fairness | violation of `EveryRepositoryIsCollected`, see below |
| `blobs_safety` | 2 clients, cleanup, 2 sessions, 2 bytes at most, limit of 1 session, 1 fault, 1 crash (4.7 M) | `StoredBlobsAreWhole` (whole, and within the limit), `SessionLimit`, `AcknowledgedBytesStay` |
| `blobs_live` | the same without crash, only chunks with Content-Range (0.4 M), with fairness | `RangedUploadsAreExact` under retries and races; `UploadsEnd`, `IdleUploadsAreRemoved` |
| `access_revocation` | 2 clients, 2 users, 1 grant id, 1 repository, clock 0..1, tokens live 1 (2.8 M) | `RevocationIsRespected`: served only what was allowed at some time since the request arrived |
| `access_admins` | 2 clients, 3 users, 1 fault, 1 restart (1.9 M) | `OnlyAdministratorsMutate`, `AdministratorsChangeByTheAPI`, `SlotsAreReturned`, `SchemaHolds`: types and the schema's constraints |

Why the bounds are enough. Two clients and the background thread are the
threads that any single conflict in this code needs: all shared state is
guarded by one holder or written by one step, so a third client adds waiting, not
new conflicts; the lock set has three because an entry dropped too early needs one
goroutine inside, one leaving and one coming. Two digests let a tag move and
move back; two tags make a push partial; two sessions exceed a limit of one; two
bytes are a prefix, an overlap and, with the third, an excess; three users are an
administrator, the one it deletes and the one a restart makes. One fault and one
crash reach every error path once, two faults the failing rollback. A user name is used
again only in `access_admins`, by its restart; that revocation holds then too is shown
by theorem `RevocationHolds` alone. The theorems
below lift the bounds for what they prove.

`services` is one run and not six because its parts touch no variable of each
other: a behaviour picks one (`service`), whose module then runs alone, and the
properties of the others hold of their constant initial values. Its bounds: of two
repositories one is before the other on the walk, and one failure or restart
falls before, between or after them; a channel of one is full with one event, the
second is dropped or waits, and two requests are a delivery and its redirect, to an
address that is never saved; windows of four units are the shortest that two
readings late by one do not empty (the property counts attempts whose readings are at most
`Window - 2 * MaxDelay` apart);
time 7 holds a window, its successor and the collection between them; four names
make three pages of one and a name deleted or added on each side of `last`; two
repositories that share a blob and one blob that is missing are what the migration
has to tell apart.

### Fairness

Strong fairness per goroutine. The Go scheduler runs every runnable goroutine; a
mutex is free again and again but not continuously, and `sync.Mutex` gives it to a
waiter of more than a millisecond (starvation mode), which is what strong
fairness says; the flock is asked for by one handler at a time (`tagMu` is held)
and by the collector, whose timer leaves it free for an interval. Time passes
(`Age`, `GrowIdle`, `Tick`) and tickers fire. A body ends: `http.readTimeout` is 30
minutes by default. No client must send anything, and nothing must fail.

The collector, the cleanup and the dispatcher need weak fairness only: each is one
goroutine whose step, once possible, stays possible until it takes it (a timer
that fired stays fired, `tickDue` stays, the channel stays filled), and a delivery
ends by its timeout of two seconds. In `services` the fairness of each module is
stated for the behaviours that run it.

### Disagreements found

- `tags_delete_race`: `handleUIRepositoryDelete` reads the tags, and when there
  is none drops the repository's row, without the locks. A tag pushed in between
  loses its row by the cascade and keeps its file: it is served, and no listing
  of the dashboard shows it until it is pushed again. The same deletion between
  the two statements of `UpdateRepositoryTagPolicy` leaves a policy without a
  repository, inherited by the next one of that name (`PolicyHasRepository`,
  which theorem `PoliciesAreObeyed` proves for requests without that deletion).
- `tags_grace`: a manifest pushed again keeps the modification time of its
  directory, so the collector may remove it at once.
- `tags_temp_leak`: a `.tag-*` file left by a crash counts as a tag for ever.
- `collections_names`: with a repository whose name begins with a component
  `manifests`, `CollectGarbage` (`filesystem.go:703`) takes that directory for the
  manifests of the repository "", fails, and ends the walk at each turn:
  neither that repository nor any after it is ever collected, while README.md:226
  says that untagged manifests are removed after the grace period.

Known, and allowed by the properties: when a deletion failed after the files and
before the rows, the UI's deletion finds `ErrNotFound`, goes on and reports success;
the rows stay until a push makes them again.

## Proofs

All theorems hold for any sets of clients, tags, digests, requests, paths and
entries and any number of faults and crashes, from the named assumption of the
module: `ConstantsAssumption` and `LocksAssumption` (distinct `None` and collector,
well-formed requests, finitely many goroutines); `LimiterConstants` (limits and a
window of at least one); `ListingConstants` (finitely many names);
`ScheduleConstants` (settings have the types of the code, intervals are positive);
`Capacity \in Nat` for the webhooks. The migration needs none. `ServicesAssumption`
is the conjunction of the last four, which TLC evaluates in run `services`.

The invariant of every component was checked by TLC on the instance of its run before
it was proved.

`RepositoryTagsProofs` proves `Inductive`, the conjunction of `TypeOK`,
`LocksGuardCallbacks`, and what each thread has established at each stage of its
callback: the files a push has written are whole from then on (`PushStages`), and
the collector's list avoids the tags. None of these is inductive alone: the
collector is safe because a tag moves only inside a callback, which the
collector's own excludes; a published manifest is whole because no other thread
is inside to remove it. The steps are sorted first by what they may write
(`DatabaseFootprint`, `DiskFootprint`) and by whether they move inside a callback
(`StepKinds`, `StepSplit`), so that each invariant is disturbed by few of them.
From it follow `TypeCorrect`, `MutualExclusion`, `CollectorIsSafe` and
`PushesPublishWholeManifests`.

Its last part proves `PoliciesAreObeyed`: as long as no
repository is deleted from the UI, a policy has its repository, what the policy
check established stays true until the tags are moved (no policy changes while
the locks are held), and a rollback moves only tags that this push moved.

`RepositoryTagsAgreementProofs` proves what a caller is promised. `Linked` says what a
push has put in place at each stage of the linking, and so what is true when it is
acknowledged (`AcknowledgementsHold`, for any failures and crashes). `Agreed` says by
how much the tags and their rows may differ inside a callback: by the tags still to
link, to roll back, to remove or to forget; whoever takes the locks finds them equal
(`TheReadModelAgrees`). A rollback can return to a prior digest because the collector
spares what tags refer to and waits for the flock (`TagsLead`); hence
`FailedPushesAgree` and `RollbacksRestoreTags`, for requests that delete nothing and
one failure, the setting of run `tags_push`. `WholeBut` says who may have torn or
removed a file, from which `TagsLeadToWholeManifests`. All of them assume that no
repository is deleted from the UI: run `tags_delete_race` shows why.

`UploadLocksProofs` proves `OnePerPath` and `ReferencesAreExact` from an invariant that ties the three
views of an entry together: a goroutine between lookup and drop refers to the
entry that the map has for its path, the count is the number of those goroutines,
no entry serves two paths, and the mutex of an entry is held exactly by the one
inside. The count is what keeps the map from losing an entry in use. From the same
invariant `Implements` shows every step to be a step of `PathMutex` or a stutter:
the mutex of a new entry, and of one that is dropped, is free, so lookups and drops
are invisible (`MapIsInvisible`).

`WebhookQueueProofs` proves `DeliveriesAreFaithful`, for any capacity, handlers and
events. An event moves through four stations (handler, channel, worker, destination);
the invariant says that from the second on it is in the log, that of one client's
events those further on are the earlier ones (each pair of stations, and the order
within the channel and within `sent`), that the URL of a delivery's first request is one
that was saved since the worker took the event, and that a worker beyond its first
request is where the last answer in `sent` sent it (`Chained`). A request that follows
another is exempt from the order, for it repeats its own event. The order needs all pairs of stations at once: what
arrives is compared with what the handler will do next. `TypeCorrect` adds that the
channel never holds more than its capacity.

`AuthLimiterProofs` proves `AttemptsStayLimited`, for any callers, keys, limits, window
and delay: attempts whose readings are at most `Window - 2 * MaxDelay`
apart are at most twice the limit. The invariant (`Accounted`) says where the recent ones were
counted, recent being those that can still share such a stretch with a reading to come:
in the window that the key has, or in the one before, in which case their readings
are older than the beginning of this one, give or take the delay. A stretch with a new
attempt therefore touches two windows at most (`StretchOfTwoWindows`), each of which
holds no more than the limit. That an expired window may go at the hand of another
caller is `SweepKeepsAccounts`: what it counted and what is recent are then the same
few. Numbers of attempts are cardinalities of sets, so that the facts of the library
about finite sets are enough.

`AccessControlProofs` proves the five properties of `AccessControl`, for any clients,
users, validities and requests. `Stage` says what is known of a request at each step:
its token was issued, its principal is the user of the token, its claims cover what
it asks. A step moves one client (`EveryStepMoves`), so that `Control` follows from
where that client goes; the tables keep the constraints of the schema because each of
the few steps that write them does (`TableFootprint`). On these rests `History`: at
every place behind the authorization, `seen` holds what its property asks for,
because the step that leads there has just read it (`Admissions`, `GrantsDecide`).
That the UI spares administrators needs more than its own read, which may be old when
it writes: no step promotes a user who is there (`NobodyIsPromoted`), and no id is
given out twice. The slots are counted as a set, from which each path out of the
verification removes one client.

Its last part joins `Scopes` to it. `GrantsCoverNamespaces`: for names of any length, a
prefix with or without a slash on either side covers the repository of that name and
those below it, the rule of README.md:211. `ClaimsAreWhatGrantsCover`: the claims that
`IntersectAccess` makes of scopes and grants name the permissions that `AccessControl`
computes with sets. `ClaimsAllowTheirPermissions`: `HasAccess` of the claims is that of
their permissions. So what the five properties say of permissions they say of
prefixes, scopes and claims. TLC compares the two readings of a prefix on all names of
up to three parts (`PrefixesMatchNamespaces` in `MCAccessControl`).

`BlobUploadProofs` proves the five safety properties of `BlobUpload`, for any clients,
sessions, bodies and limits. What holds of every session (`Sound`) is not inductive:
a byte appended is the next one, and a truncation spares what was acknowledged, only
because of what the owner of the session has found in it (`Found`: its length is the
size at the check and what was written since). That stays true because the owner
holds the mutex of the path (`Locked`) and a step writes to no session but its own
(`Local`, `LocalKeepsBase`); a thread that takes a lock has found nothing yet
(`Entry`), and a session about to be created is nobody else's and has no file
(`Ids`). On these rest the store (what is renamed was hashed under the same lock) and
the limit (who counts creates before anybody else counts, and nothing else makes a
session).

`ServicesProofs` has four parts.

- Paging. Names that the client has been given do not exceed `last`, and names that
  were there all the time and do not exceed it were given (`ListingInductive`). That
  this survives a page is a matter of `Cut`: it takes an initial part of the sorted
  list (`CutIsInitial`), some of it (`CutIsNotEmpty`), and all of it when it has room to
  spare (`ShortCutIsAll`), which is how the handler knows that there is no next page.
- Schedule. `ScheduleInductive` adds to the types what a walk may rely on: it began
  with the collector enabled, and the manifests it counts as old are, as long as they
  are there, at least as old as the delay that it read. A push leaves the age of a
  manifest that is there, and one that comes anew is not counted as old. Hence
  `GracePeriodIsHonoured`: no step removes a manifest but a visit of a walk that began
  with the collector enabled, and then an untagged one older than the delay that was
  in force when the walk began, whatever has been saved since.
- Migration: `LinksSurvive`, for any data of the old layout and any number of starts
  and crashes. The invariant says what the marker means: without it nobody was served,
  so that the references are still those of the old data and no link was removed; while
  the pass runs, what is owed is linked or still on its list; with the marker, what is
  owed is linked or was unlinked by a client. A push under way has found its links, and
  a link goes away only into `unlinked`, which is why the gap between `CheckBlob` and
  `PutManifest` costs a client no more than it took itself.
- All parts. A behaviour of `MCServices` is, for each part, a behaviour of its
  specification (a step of the service that runs, a stutter of the others). This lemma
  (`ServicesRunTheirParts`) is about how the instance is put together and says nothing
  about the code. With it the theorems about the parts hold of the composition:
  `ServicesTypesHold`, `ServicesDeliverWhatIsLogged`, `ServicesLimitAttempts`,
  `ServicesListCompletely` and `ServicesKeepTheirLinks` are the invariants of run
  `services`, for all values of its constants.

Facts about finite sets of numbers that seem to ask for induction (a least and a
greatest element, `Extremes`) are drawn from the library's theorem that the strict
subsets of a finite set are well founded.

Every safety property that a run passes on is thus proved. Only model-checked:
liveness (`RequestsEnd`, `GarbageIsCollected`, `EveryCallEnters`,
`EveryRepositoryIsCollected`, `UploadsExpireWhateverTheSettings`,
`EveryQueuedEventIsTried`, `UploadsEnd`, `IdleUploadsAreRemoved`), because fairness and
`ENABLED` are outside the prover's reach; and the four disagreements, which are
counterexamples.

## Not modelled

Password hashing, CSRF and cookies; JSON and HTML layout; parsing and validation of
the configuration; signing keys and ids (fresh values); usage counters and the
listing of audit rows (derived, never read back by the modelled operations). The
cutting of a scope at its colons and commas, the address of a request behind proxies,
the encoding of payloads. Referrers and other reads that change no state and have no pages.
References from an index to the manifests of its platforms, which the collector
does not follow; the hazard list has it.

## What is left

1. References between manifests, in `RepositoryTags`: what the collector leaves of a
   tagged index.
2. What a pull promises while its manifest is pushed again (two files read without
   a lock).
3. The safety half of the liveness properties: from which states a request or a walk
   can always go on (no step waits for itself), as invariants with proofs.
