CONSTANTS
    None = None
    Procs = {p1, p2, p3}
    Paths = {x1, x2}
    Entries = {e1, e2, e3}
    Handlers = {h1, h2}
    Actions = {pushed, login}
    Reported = {pushed}
    URLs = {u1}
    Locations = {u2}
    Capacity = 1
    MaxRequests = 2
    MaxEvents = 2
    Walk <- TwoRepositories
    Configured <- Off
    SaveableSettings <- OffOrOn
    DefaultInterval = 2
    UploadTTL = 2
    MaxAge = 1
    MaxFaults = 1
    MaxRestarts = 1
    Callers = {q1, q2}
    Addresses = {a1}
    Accounts = {g1}
    IPAttempts = 2
    AccountAttempts = 1
    Window = 4
    MaxDelay = 1
    MaxTime = 7
    Names = {1, 2, 3, 4}
    Limits = {0, 1, 2}
    Repositories = {r1, r2}
    Blobs = {b1, b2}
SPECIFICATION ServicesSpec
INVARIANTS ServicesTypeOK OneInsidePerPath NoEntryOutlivesItsUsers DeliveriesFollowTheLog AttemptsAreLimited ListingIsComplete LinksSurviveTheMigration
PROPERTIES ImplementsPathMutex EveryCallEnters EveryRepositoryIsCollected UploadsExpireWhateverTheSettings EveryQueuedEventIsTried
