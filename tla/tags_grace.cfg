CONSTANTS
    Clients = {c1}
    Collector = gc
    Tags = {t1}
    Digests = {d1, d2}
    None = None
    MaxFaults = 0
    MaxCrashes = 0
    Requests <- DiskRequests
SYMMETRY Symmetry
SPECIFICATION Spec
INVARIANTS CollectorHonoursGrace
