SPECIFICATION Spec
CONSTANTS
    Users = {u1, u2}
    Docs = {1, 2}
    MaxChunks = 2
    TopK = 2
    SummaryMax = 3
    None = None
SYMMETRY Symmetry
INVARIANTS
    TypeOK
    CitationsAreOwn
    CitationsInScope
    DeletedUncited
    SummaryIsWhole
