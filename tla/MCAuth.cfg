SPECIFICATION FairSpec
CONSTANTS
    Emails = {e1, e2}
    Passwords = {p1, p2}
    Accounts = {a1, a2}
    Requests = {r1, r2}
    Calls = {c1}
    AccessTTL = 0
    RefreshTTL = 1
    MaxTime = 2
    None = None
INVARIANTS
    TypeOK
    OneAccountPerEmail
PROPERTIES
    AccessIsFresh
    DeactivatedStaysOut
    EveryRegistrationEnds
