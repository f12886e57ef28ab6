------------------------- MODULE MCGroupGovernance -------------------------
(* GroupGovernance for TLC: users and goroutines are interchangeable. *)
EXTENDS GroupGovernance, TLC
Symmetry == Permutations(Users) \cup Permutations(Pumps)
=============================================================================
