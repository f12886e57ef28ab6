------------------------- MODULE MCMessageDelivery -------------------------
(* MessageDelivery for TLC: replies are interchangeable. *)
EXTENDS MessageDelivery, TLC
Symmetry == Permutations(Replies)
=============================================================================
