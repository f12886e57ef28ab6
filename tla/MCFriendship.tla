---------------------------- MODULE MCFriendship ----------------------------
(***************************************************************************)
(* Instances of Friendship: two accounts, and connections that answer one  *)
(* request at the same time.                                               *)
(***************************************************************************)
EXTENDS Friendship, TLC

Symmetry == Permutations(Pumps) \cup Permutations(Users) \cup Permutations(Requests)
=============================================================================
