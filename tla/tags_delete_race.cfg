CONSTANTS
    Clients = {c1, c2}
    Collector = gc
    Tags = {t1}
    Digests = {d1, d2}
    None = None
    MaxFaults = 0
    MaxCrashes = 0
    Requests <- RepositoryRequests
SYMMETRY Symmetry
SPECIFICATION Spec
INVARIANTS ReadModelAgrees
