---------------------------- MODULE MCMessageLog ----------------------------
EXTENDS MessageLog, TLC
CONSTANTS ann, bob, c1, c2, hi, ho
Symmetry == Permutations(Users) \cup Permutations(Calls)
=============================================================================
