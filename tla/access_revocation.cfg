CONSTANTS
    Clients = {c1, c2}
    Users = {u1, u2}
    Names = {root, guest}
    Grants = {g1}
    Repositories = {r1}
    Bootstrap = root
    None = None
    Windows <- Windows01
    TokenTTL = 1
    VerifyWorkers = 1
    MaxTime = 1
    MaxFaults = 0
    MaxCrashes = 0
    Requests <- RevocationRequests
SYMMETRY Symmetry
SPECIFICATION Spec
INVARIANTS RevocationIsRespected
