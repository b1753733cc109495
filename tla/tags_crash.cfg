CONSTANTS
    Clients = {c1, c2}
    Collector = gc
    Tags = {t1}
    Digests = {d1, d2}
    None = None
    MaxFaults = 1
    MaxCrashes = 1
    Requests <- DiskRequests
SYMMETRY Symmetry
SPECIFICATION Spec
INVARIANTS LocksGuardCallbacks TaggedManifestsAreWhole ReadModelAgrees CollectorSparesReferenced PublishedManifestsAreWhole AcknowledgedPushIsVisible
