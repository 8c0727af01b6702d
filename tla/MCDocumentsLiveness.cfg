SPECIFICATION FairSpec
CONSTANTS
    Users = {u1}
    Docs = {d1, d2}
    Requests = {r1, r2}
    MaxChunks = 1
    None = None
PROPERTY EveryUploadSettles
