----------------------------- MODULE MCConsole -----------------------------
EXTENDS Console, TLC
Symmetry == Permutations(Twins)
=============================================================================
