CONSTANTS
    Clients = {c1, c2}
    Collector = gc
    Tags = {t1, t2}
    Digests = {d1, d2}
    None = None
    MaxFaults = 2
    MaxCrashes = 0
    Requests <- TaggingRequests
SYMMETRY Symmetry
SPECIFICATION Spec
INVARIANTS PushFailureKeepsAgreement RollbackRestoresTags
PROPERTIES ProtectedTagsStay
