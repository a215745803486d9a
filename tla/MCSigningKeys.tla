--------------------------- MODULE MCSigningKeys ----------------------------
EXTENDS SigningKeys, TLC

Symmetry == Permutations(Tasks) \cup Permutations(Keys)
==============================================================================
