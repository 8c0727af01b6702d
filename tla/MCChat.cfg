SPECIFICATION FairSpec
CONSTANTS
    Users = {u1, u2}
    MaxSessions = 2
    Requests = {r1, r2}
    MaxTurns = 2
    MaxTokens = 2
    None = None
INVARIANTS
    TypeOK
    AnswersAreWhole
    DanglingQuestionsExplained
    FailedTurnsLeaveNothing
    PromptsHoldWholeTurns
    SessionsArePrivate
    TurnsStayTogether
PROPERTY EverySendEnds
