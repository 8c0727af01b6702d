------------------------------- MODULE MCAuth -------------------------------
EXTENDS Auth, TLC
Symmetry == Permutations(Emails) \cup Permutations(Passwords)
               \cup Permutations(Accounts) \cup Permutations(Requests) \cup Permutations(Calls)
=============================================================================
