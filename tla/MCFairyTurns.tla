---------------------------- MODULE MCFairyTurns ----------------------------
(***************************************************************************)
(* What comes to an end.  The scheduler: two chats that compete for one    *)
(* slot.  The turns it runs: a message that the agent answers and a        *)
(* command of a plugin, which compete for the slot of the exclusive tools. *)
(* Init picks the one that is active; the other keeps its initial state.   *)
(***************************************************************************)
EXTENDS ConversationScheduler, AgentTurn

CONSTANTS chat, lane, m1, m2, m3, stop1

VARIABLE active

ChatConversations == {chat, lane}
ChatEvents == {m1, m2, m3, stop1}
ChatConversationOf == [e \in ChatEvents |-> IF e = m3 THEN lane ELSE chat]
ChatPriority == {stop1}

PlannerDecisions == {<<"exclusive", "direct">>}

TurnsInit ==
    /\ active \in {"scheduler", "agent"}
    /\ Init /\ AgentInit
    /\ active # "agent" => loadedTools = {}

ScheduleStep(A) == active = "scheduler" /\ A /\ UNCHANGED <<active, agentVars>>
TurnStep(A) == active = "agent" /\ A /\ UNCHANGED <<active, vars>>

TurnsNext == ScheduleStep(Next) \/ TurnStep(AgentNext)

allVars == <<active, vars, agentVars>>

\* Fairness of the scheduler and TurnFairness, each of the one that is active.
TurnsFairness ==
    /\ \A a \in Actors : WF_allVars(ScheduleStep(ActorStep(a)))
    /\ WF_allVars(ScheduleStep(ShutdownReturns))
    /\ \A t \in Turns : WF_allVars(TurnStep(AgentStep(t)))

TurnsSpec == TurnsInit /\ [][TurnsNext]_allVars /\ TurnsFairness
=============================================================================
