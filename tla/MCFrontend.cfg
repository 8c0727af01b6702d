SPECIFICATION FairSpec
CONSTANTS
    Tasks = {r1, r2}
    MaxSessions = 2
    MaxTurns = 2
    None = None
INVARIANTS
    TypeOK
    ScreenAgrees
PROPERTY
    SendButtonReturns
