-------------------------- MODULE MCModelVersions --------------------------
(* ModelVersions on small instances.                                       *)
EXTENDS ModelVersions, TLC

Symmetry == Permutations(Models) \cup Permutations(Calls)
=============================================================================
