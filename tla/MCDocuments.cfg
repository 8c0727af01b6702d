SPECIFICATION Spec
CONSTANTS
    Users = {u1, u2}
    Docs = {d1, d2}
    Requests = {r1, r2}
    MaxChunks = 2
    None = None
SYMMETRY Symmetry
INVARIANTS
    TypeOK
    ReadyMeansIndexed
    NoRowStuckProcessing
    FailedNotRetrievable
    DeletedNotRetrievable
    OrphansExplained
PROPERTIES
    OnlyOwnerPurges
    KeepsLifecycle
