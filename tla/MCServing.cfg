SPECIFICATION FairSpec
CONSTANTS
    Requests = {r1, r2, r3}
    Probes = {p1, p2}
    PoolLimit = 2
    FailureThreshold = 2
    None = None
INVARIANTS
    TypeOK
    ConnectionsAccounted
PROPERTIES
    EveryRequestEnds
    ReplicaComesBack
