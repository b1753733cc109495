CONSTANTS
    Clients = {c1, c2}
    Users = {u1, u2, u3}
    Names = {root, guest}
    Grants = {g1}
    Repositories = {r1}
    Bootstrap = root
    None = None
    Windows <- OnlyAlways
    TokenTTL = 2
    VerifyWorkers = 1
    MaxTime = 0
    MaxFaults = 1
    MaxCrashes = 1
    Requests <- AdministrationRequests
SYMMETRY Symmetry
SPECIFICATION Spec
INVARIANTS SchemaHolds OnlyAdministratorsMutate SlotsAreReturned
PROPERTIES AdministratorsChangeByTheAPI
