----------------------------- MODULE MCDelivery -----------------------------
(***************************************************************************)
(* The replies of Fairy and the session whose connection they use, for     *)
(* TLC.  Init picks the one that is active; the other keeps its initial    *)
(* state.                                                                  *)
(***************************************************************************)
EXTENDS MessageDelivery, FairySession

VARIABLE active

DeliveryInit == active \in {"replies", "session"} /\ Init /\ SessionInit

ReplyStep(A) == active = "replies" /\ A /\ UNCHANGED <<active, sessionVars>>
LoopStep(A) == active = "session" /\ A /\ UNCHANGED <<active, vars>>

DeliveryNext == ReplyStep(Next) \/ LoopStep(ConnectionNext)

allVars == <<active, vars, sessionVars>>

\* The fairness of FairSpec and ConnectionFairness, each of the one that is
\* active.
DeliveryFairness ==
    /\ \A r \in Replies : WF_allVars(ReplyStep(SenderStep(r))) /\ WF_allVars(ReplyStep(Cancel(r)))
    /\ \A c \in Connections : WF_allVars(ReplyStep(ReaderStep(c))) /\ WF_allVars(ReplyStep(HandlerStep(c)))
    /\ WF_allVars(LoopStep(ReadLoopStep)) /\ WF_allVars(LoopStep(RunSessionStep))
    /\ SF_allVars(LoopStep(LeaveLoop)) /\ SF_allVars(LoopStep(DispatchEvent))

DeliverySpec == DeliveryInit /\ [][DeliveryNext]_allVars /\ DeliveryFairness

\* Both have their types: no sender makes more attempts than it may, and the
\* channel of events holds no more than its capacity.
DeliveryTypeOK == TypeOK /\ SessionTypeOK
=============================================================================
