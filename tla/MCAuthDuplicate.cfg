SPECIFICATION Spec
CONSTANTS
    Emails = {e1}
    Passwords = {p1, p2}
    Accounts = {a1, a2}
    Requests = {r1, r2}
    Calls = {c1}
    AccessTTL = 1
    RefreshTTL = 1
    MaxTime = 1
    None = None
SYMMETRY Symmetry
INVARIANT DuplicateIsConflict
