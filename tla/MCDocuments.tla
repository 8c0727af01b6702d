---------------------------- MODULE MCDocuments ----------------------------
EXTENDS Documents, TLC
Symmetry == Permutations(Users) \cup Permutations(Docs) \cup Permutations(Requests)
=============================================================================
