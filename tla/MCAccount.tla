------------------------------ MODULE MCAccount ------------------------------
EXTENDS Account, TLC

Symmetry == Permutations(Sessions) \cup Permutations(Operators)
==============================================================================
