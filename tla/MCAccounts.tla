----------------------------- MODULE MCAccounts -----------------------------
(* Accounts for TLC: connections are interchangeable. *)
EXTENDS Accounts, TLC
Symmetry == Permutations(Connections)
=============================================================================
