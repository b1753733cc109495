CONSTANTS
    Clients = {c1, c2}
    Collector = gc
    Tags = {t1}
    Digests = {d1}
    None = None
    MaxFaults = 1
    MaxCrashes = 0
    Requests <- LiveRequests
SPECIFICATION FairSpec
INVARIANTS TypeOK
PROPERTIES RequestsEnd GarbageIsCollected
