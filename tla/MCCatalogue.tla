---------------------------- MODULE MCCatalogue ----------------------------
EXTENDS Catalogue, TLC
Symmetry == Permutations(Twins) \cup Permutations(Assets) \cup Permutations(Parts)
=============================================================================
