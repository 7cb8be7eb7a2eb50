--------------------------- MODULE MCRandomPlans ---------------------------
(* An instance of RandomPlans: the members are interchangeable.            *)
EXTENDS RandomPlans, TLC

Symmetry == Permutations(Members)
=============================================================================
