---------------------------- MODULE MCRetrieval ----------------------------
EXTENDS Retrieval
Symmetry == Permutations(Users)
=============================================================================
