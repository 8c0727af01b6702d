SPECIFICATION Spec
CONSTANTS
    Users = {u1, u2}
    MaxSessions = 1
    Requests = {r1}
    MaxTurns = 1
    MaxTokens = 1
    None = None
INVARIANT QuestionsListedFirst
