------------------------ MODULE MCConfigDistribution ------------------------
(* Two concurrent admin requests, which are interchangeable. *)
EXTENDS ConfigDistribution, TLC

AdminSymmetry == Permutations(Admin)
=============================================================================
