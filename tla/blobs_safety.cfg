CONSTANTS
    Clients = {c1, c2}
    Cleaner = cleaner
    Sessions = {s1, s2}
    None = None
    MaxUploadBytes = 2
    MaxUploadSessions = 1
    MaxFaults = 1
    MaxCrashes = 1
    Requests <- AllRequests
SYMMETRY Symmetry
SPECIFICATION Spec
INVARIANTS AcknowledgedBytesStay SessionLimit TypeOK StoredBlobsAreWhole
