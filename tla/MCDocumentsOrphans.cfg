SPECIFICATION Spec
CONSTANTS
    Users = {u1}
    Docs = {d1}
    Requests = {r1}
    MaxChunks = 1
    None = None
INVARIANT RetrievableIsListed
