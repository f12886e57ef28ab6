---------------------- MODULE MCConversationScheduler ----------------------
(***************************************************************************)
(* ConversationScheduler for TLC: a chat with three messages and two stop  *)
(* commands, next to the control lane with one friend request that can be  *)
(* submitted again and again.                                              *)
(***************************************************************************)
EXTENDS ConversationScheduler, TLC

CONSTANTS chat, lane, m1, m2, m3, stop1, stop2, friend

SafetyConversations == {chat, lane}
SafetyEvents == {m1, m2, m3, stop1, stop2, friend}
SafetyConversationOf == [e \in SafetyEvents |-> IF e = friend THEN lane ELSE chat]
SafetyPriority == {stop1, stop2}
SafetyRetryable == {friend}

Symmetry == Permutations(Actors)
=============================================================================
