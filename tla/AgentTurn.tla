------------------------------ MODULE AgentTurn ------------------------------
(***************************************************************************)
(* One agent turn of Fairy: the planner loop with its single repair, the   *)
(* tool session (fairy/tool.go) and the final reply (fairy/agent.go), and  *)
(* what HandleMessage does with the outcome (fairy/engine.go).  Turns of   *)
(* different conversations run concurrently; they share the slot of the    *)
(* exclusive tools and the tools of the plugins, which may be unloaded and *)
(* reloaded at any time.  A turn may be stopped between any two steps.     *)
(***************************************************************************)
EXTENDS Naturals, Sequences, FiniteSets

CONSTANTS Turns,
          CommandTurns, CommandTools,  \* turns that a command plugin answers with one tool, and those tools
          ExpectingTurns,   \* turns with an ExpectedReply (the agent diagnostic)
          StaticTools, DynamicTools,   \* registered once; owned by plugins
          ExclusiveTools, DirectTools, \* Concurrency = exclusive; ReplyMode = direct
          DeniedTools,      \* refused by the tool policy: risk or side effects
          Decisions,        \* sequences of tools a planner may ask for
          MaxPlannerSteps, MaxToolCalls, MaxVisibleTools

ASSUME AgentAssumption ==
    /\ ExpectingTurns \subseteq Turns /\ CommandTurns \subseteq Turns /\ ExpectingTurns \cap CommandTurns = {}
    /\ CommandTools \subseteq StaticTools \cup DynamicTools
    /\ Decisions \subseteq Seq(StaticTools \cup DynamicTools) \ {<<>>}
    /\ MaxPlannerSteps \in Nat \ {0} /\ MaxToolCalls \in Nat /\ MaxVisibleTools \in Nat
    /\ "free" \notin Turns

AgentTools == StaticTools \cup DynamicTools
MaxRepairs == 1   \* maxPlannerRepairAttempts
FreeSlot == "free"

VARIABLES turn,          \* per turn: where it is and what it has gathered
          exclusiveSlot, \* ToolRuntime.exclusive
          loadedTools    \* dynamic tools whose plugin runs

agentVars == <<turn, exclusiveSlot, loadedTools>>

Ongoing == [kind |-> "none", code |-> "none", whileStopped |-> FALSE]
NewTurn == [pc |-> "new", step |-> 1, repair |-> 0, visible |-> {}, queue |-> <<>>, calls |-> 0,
            results |-> 0, direct |-> FALSE, unanswered |-> 0, requests |-> 0, unpaid |-> 0,
            stopped |-> FALSE, outcome |-> Ongoing, remembered |-> FALSE, sent |-> "none"]

AgentInit == /\ turn = [t \in Turns |-> NewTurn]
             /\ exclusiveSlot = FreeSlot
             /\ loadedTools \in SUBSET DynamicTools

\* ToolRegistry.registered: looked up for every call, so a plugin's tool is
\* there exactly while the plugin runs.
Registered == StaticTools \cup loadedTools
\* visibleToolDefinitions
TooManyTools == Cardinality(Registered) > MaxVisibleTools

-----------------------------------------------------------------------------
(* How a turn ends *)

Ended(state, kind, code) ==
    [state EXCEPT !.pc = "outcome", !.outcome = [kind |-> kind, code |-> code, whileStopped |-> state.stopped]]

\* fallbackToToolResults: an error is hidden by the results the tools have
\* already given, unless the turn was stopped.
Fallback(state, code) ==
    IF state.stopped \/ state.results = 0 THEN Ended(state, "failed", code) ELSE Ended(state, "results", "none")

Become(t, state) == turn' = [turn EXCEPT ![t] = state]

-----------------------------------------------------------------------------
(* Run, plan and complete *)

\* The tools are chosen once, from what is registered now.
BeginTurn(t) ==
    /\ turn[t].pc = "new" /\ t \notin CommandTurns
    /\ Become(t, IF turn[t].stopped THEN Ended(turn[t], "failed", "cancelled")
                 ELSE IF TooManyTools THEN Ended(turn[t], "failed", "unavailable")
                 ELSE [turn[t] EXCEPT !.pc = "plan", !.visible = Registered])
    /\ UNCHANGED <<exclusiveSlot, loadedTools>>

\* Variant: a repair is sent without a reservation of its own.
ReservationOnce(state) == IF state.repair = 0 THEN 1 ELSE 0
\* Every request is reserved, repairs included.
Reservation(state) == 1

\* complete: nothing is asked of the model for a stopped turn or without a
\* reservation; a reservation that is refused is an error like any other.
AskModel(t) ==
    LET s == turn[t]
    IN  /\ s.pc \in {"plan", "reply"}
        /\ \/ s.stopped /\ Become(t, Fallback(s, "cancelled"))
           \/ ~s.stopped /\ Become(t, Fallback(s, "quota"))
           \/ ~s.stopped /\ Become(t, [s EXCEPT !.pc = IF s.pc = "plan" THEN "planning" ELSE "replying",
                                                !.requests = @ + 1, !.unpaid = @ + 1 - Reservation(s)])
        /\ UNCHANGED <<exclusiveSlot, loadedTools>>

\* Variant: the model call does not use the context of the turn, so that
\* nothing ends the call of a turn that is stopped.
ModelFailsUncancelled(t) ==
    /\ turn[t].pc \in {"planning", "replying"} /\ ~turn[t].stopped
    /\ Become(t, Fallback(turn[t], "provider"))
    /\ UNCHANGED <<exclusiveSlot, loadedTools>>
\* The model call of a turn that is stopped fails; otherwise the router's
\* failures are an invalid response, a time limit, or anything else.
ModelFails(t) ==
    LET s == turn[t]
        \* plan and reply: only an invalid response is repaired, once, and a reply only if one was expected.
        repairable == s.repair = 0 /\ (s.pc = "planning" \/ t \in ExpectingTurns)
    IN  /\ s.pc \in {"planning", "replying"}
        /\ \/ s.stopped /\ Become(t, Fallback(s, "cancelled"))
           \/ ~s.stopped /\ \E code \in {"deadline", "provider"} : Become(t, Fallback(s, code))
           \/ ~s.stopped /\ Become(t, IF repairable THEN [s EXCEPT !.pc = IF s.pc = "planning" THEN "plan" ELSE "reply", !.repair = 1]
                                                    ELSE Fallback(s, "invalid_response"))
        /\ UNCHANGED <<exclusiveSlot, loadedTools>>

\* plannerDecisionFromResponse: text that is no decision is repaired once.
Malformed(t) ==
    LET s == turn[t]
    IN  /\ s.pc = "planning" /\ ~s.stopped
        /\ Become(t, IF s.repair < MaxRepairs THEN [s EXCEPT !.pc = "plan", !.repair = 1] ELSE Fallback(s, "invalid_decision"))
        /\ UNCHANGED <<exclusiveSlot, loadedTools>>

Decide(t) ==
    LET s == turn[t]
    IN  /\ s.pc = "planning" /\ ~s.stopped
        /\ \/ Become(t, [s EXCEPT !.pc = "reply", !.repair = 0])
           \/ Become(t, IF s.results > 0 THEN Ended(s, "results", "none") ELSE Ended(s, "stopped", "none"))
           \/ \E decision \in Decisions :
                 Become(t, [s EXCEPT !.pc = "tool", !.repair = 0, !.queue = decision, !.direct = FALSE, !.unanswered = @ + Len(decision)])
        /\ UNCHANGED <<exclusiveSlot, loadedTools>>

-----------------------------------------------------------------------------
(* ToolSession.Execute *)

\* Variant: the step limit reports its failure although tools have answered.
NextStepStrict(state) == IF state.step = MaxPlannerSteps THEN Ended(state, "failed", "step_limit") ELSE [state EXCEPT !.step = @ + 1, !.pc = "plan"]
NextStep(state) == IF state.step = MaxPlannerSteps THEN Fallback(state, "step_limit") ELSE [state EXCEPT !.step = @ + 1, !.pc = "plan"]

\* toolResultForModel: every call gets one result in the transcript.
Answered(state, code) == 1

\* A ToolPlugin's command: one call, in a session that sees only its tool.
BeginCommand(t) ==
    /\ turn[t].pc = "new" /\ t \in CommandTurns
    /\ \E tool \in CommandTools :
          Become(t, IF turn[t].stopped THEN Ended(turn[t], "failed", "cancelled")
                    ELSE [turn[t] EXCEPT !.pc = "tool", !.visible = {tool}, !.queue = <<tool>>])
    /\ UNCHANGED <<exclusiveSlot, loadedTools>>

\* Its result is the answer; without text for the user there is none.
AfterCommand(state, code, text) ==
    IF code = "ok" THEN IF text = "user" THEN Ended([state EXCEPT !.results = 1], "results", "none") ELSE Ended(state, "stopped", "none")
    ELSE Ended(state, "failed", IF code \in {"cancelled", "timeout"} /\ state.stopped THEN "cancelled" ELSE "tool")

\* What Run does with a tool's result; the after-hook may fail.
AfterTool(state, code, text, hookFails) ==
    LET told == IF code = "ok" /\ text = "user"
                THEN [state EXCEPT !.results = @ + 1, !.direct = @ \/ Head(state.queue) \in DirectTools]
                ELSE state
        next == [told EXCEPT !.queue = Tail(@), !.unanswered = @ - Answered(state, code), !.pc = "tool"]
    IN  IF hookFails THEN Fallback(told, "unavailable")
        ELSE IF code \in {"cancelled", "timeout"} /\ state.stopped THEN Ended(told, "failed", "cancelled")
        ELSE IF next.queue # <<>> THEN next
        ELSE IF next.direct THEN Ended(next, "results", "none")
        ELSE NextStep(next)

\* The hooks belong to the agent, not to commands.
AfterCall(t, code, text) ==
    IF t \in CommandTurns THEN Become(t, AfterCommand(turn[t], code, text))
    ELSE \E hookFails \in BOOLEAN : Become(t, AfterTool(turn[t], code, text, hookFails))

\* registered, the schemas, visibility, policy and the number of calls, in
\* this order; the code that refuses the call, if any.
Refusals(state, tool) ==
    IF tool \notin Registered THEN {"not_found"}
    ELSE {"invalid_arguments"} \cup
         (IF tool \notin state.visible THEN {"not_visible"}
          ELSE IF tool \in DeniedTools THEN {"policy_denied"}
          ELSE IF state.calls >= MaxToolCalls THEN {"limit_exceeded"}
          ELSE {"none"})

\* The before-hook, which ends the turn without regard to earlier results if
\* it fails, and the checks.
StartTool(t) ==
    LET s == turn[t]
        tool == Head(s.queue)
    IN  /\ s.pc = "tool"
        /\ \/ t \notin CommandTurns /\ Become(t, Ended(s, "failed", "before_hook"))
           \/ \E code \in Refusals(s, tool) \ {"none"} : AfterCall(t, code, "none")
           \/ /\ "none" \in Refusals(s, tool)
              /\ Become(t, [s EXCEPT !.calls = @ + 1, !.pc = IF tool \in ExclusiveTools THEN "slot" ELSE "running"])
        /\ UNCHANGED <<exclusiveSlot, loadedTools>>

TakeSlot(t) ==
    /\ turn[t].pc = "slot" /\ exclusiveSlot = FreeSlot
    /\ exclusiveSlot' = t
    /\ Become(t, [turn[t] EXCEPT !.pc = "running"])
    /\ UNCHANGED loadedTools

\* The tool's time limit passes, or the turn is stopped, while it waits.
GiveUpSlot(t) ==
    /\ turn[t].pc = "slot"
    /\ AfterCall(t, IF turn[t].stopped THEN "cancelled" ELSE "timeout", "none")
    /\ UNCHANGED <<exclusiveSlot, loadedTools>>

SlotAfter(t, code) == IF exclusiveSlot = t THEN FreeSlot ELSE exclusiveSlot

\* The tool returns; the context's error wins over whatever it returned.  A
\* direct tool without text for the user is an invalid output.
FinishTool(t) ==
    LET s == turn[t]
        tool == Head(s.queue)
    IN  /\ s.pc = "running"
        /\ \E result \in (IF s.stopped THEN {<<"cancelled", "none">>}
                          ELSE {<<"timeout", "none">>, <<"failed", "none">>, <<"ok", "user">>}
                               \cup (IF tool \in DirectTools THEN {} ELSE {<<"ok", "model">>})) :
              /\ AfterCall(t, result[1], result[2])
              /\ exclusiveSlot' = SlotAfter(t, result[1])
        /\ UNCHANGED loadedTools

-----------------------------------------------------------------------------
(* reply, and the end of HandleMessage *)

\* validateAgentReply: calls of tools, a text the output policy refuses, or
\* one that differs from what was expected.
ReplyAnswered(t) ==
    LET s == turn[t]
        maxRepairs == IF t \in ExpectingTurns THEN 1 ELSE 0
    IN  /\ s.pc = "replying" /\ ~s.stopped
        /\ \/ Become(t, Ended(s, "reply", "none"))
           \/ Become(t, IF s.repair < maxRepairs THEN [s EXCEPT !.pc = "reply", !.repair = 1] ELSE Fallback(s, "invalid_reply"))
        /\ UNCHANGED <<exclusiveSlot, loadedTools>>

\* The outcome: errors that come from a context are silent, other errors have
\* a fixed reply; an answer is remembered before it is sent.
UseOutcome(t) ==
    LET s == turn[t]
    IN  /\ s.pc = "outcome"
        /\ Become(t, IF \/ s.outcome.kind = "stopped"
                        \/ s.outcome.kind = "failed" /\ (s.stopped \/ s.outcome.code \in {"cancelled", "deadline"})
                     THEN [s EXCEPT !.pc = "closed"]
                     ELSE [s EXCEPT !.pc = "send", !.remembered = s.outcome.kind # "failed" /\ t \notin CommandTurns])
        /\ UNCHANGED <<exclusiveSlot, loadedTools>>

\* Variant: the answer is sent also when the turn has been stopped meanwhile.
SendReplyAnyway(t) ==
    LET s == turn[t]
    IN  /\ s.pc = "send"
        /\ Become(t, [s EXCEPT !.pc = "closed", !.sent = IF s.outcome.kind = "failed" THEN "failure" ELSE "answer"])
        /\ UNCHANGED <<exclusiveSlot, loadedTools>>
\* Engine.reply sends nothing for a stopped turn.
SendReply(t) ==
    LET s == turn[t]
    IN  /\ s.pc = "send"
        /\ Become(t, [s EXCEPT !.pc = "closed",
                               !.sent = IF s.stopped THEN "none" ELSE IF s.outcome.kind = "failed" THEN "failure" ELSE "answer"])
        /\ UNCHANGED <<exclusiveSlot, loadedTools>>

StopTurn(t) ==
    /\ turn[t].pc # "closed" /\ ~turn[t].stopped
    /\ Become(t, [turn[t] EXCEPT !.stopped = TRUE])
    /\ UNCHANGED <<exclusiveSlot, loadedTools>>

\* A plugin is unloaded or loaded by the host.
PluginsChange ==
    /\ loadedTools' \in SUBSET DynamicTools
    /\ loadedTools' # loadedTools
    /\ UNCHANGED <<turn, exclusiveSlot>>

AgentStep(t) == \/ BeginTurn(t) \/ BeginCommand(t) \/ AskModel(t) \/ ModelFails(t) \/ Malformed(t) \/ Decide(t) \/ StartTool(t) \/ TakeSlot(t) \/ GiveUpSlot(t)
                \/ FinishTool(t) \/ ReplyAnswered(t) \/ UseOutcome(t) \/ SendReply(t)

AgentNext == PluginsChange \/ \E t \in Turns : AgentStep(t) \/ StopTurn(t)
AgentSpec == AgentInit /\ [][AgentNext]_agentVars

\* The goroutine of a turn runs; model calls and tools have time limits, so
\* each of its waits ends.
TurnFairness == \A t \in Turns : WF_agentVars(AgentStep(t))
FairAgentSpec == AgentSpec /\ TurnFairness

-----------------------------------------------------------------------------
(* Properties *)

\* The turns, the slot and the tools have their types.
AgentTypeOK ==
    /\ exclusiveSlot \in Turns \cup {FreeSlot} /\ loadedTools \subseteq DynamicTools
    /\ \A t \in Turns :
          /\ turn[t].pc \in {"new", "plan", "planning", "tool", "slot", "running", "reply", "replying", "outcome", "send", "closed"}
          /\ turn[t].step \in 1..MaxPlannerSteps /\ turn[t].repair \in 0..MaxRepairs
          /\ turn[t].visible \subseteq AgentTools /\ turn[t].queue \in Seq(AgentTools)
          /\ turn[t].pc \in {"tool", "slot", "running"} => turn[t].queue # <<>>
          /\ turn[t].calls \in 0..MaxToolCalls /\ turn[t].outcome.kind \in {"none", "reply", "results", "stopped", "failed"}
          /\ turn[t].sent \in {"none", "answer", "failure"}

\* complete and maxPlannerSteps: a turn never sends more requests than it has
\* reserved, at most two for each step of the planner and one for the reply
\* (two if a reply was expected).
RequestsArePaid ==
    \A t \in Turns : /\ turn[t].unpaid = 0
                     /\ turn[t].requests <= 2 * MaxPlannerSteps + (IF t \in ExpectingTurns THEN 2 ELSE 1)

\* ToolRuntime.exclusive: the slot is held exactly by the turn that runs an
\* exclusive tool; a time limit, a stop or a hook never leaves it taken.
SlotIsHeldByItsTool ==
    \A t \in Turns : exclusiveSlot = t <=> turn[t].pc = "running" /\ Head(turn[t].queue) \in ExclusiveTools

\* Run: when the model is asked, every tool call of the transcript has its one
\* result, failed and refused calls included.
TranscriptIsComplete ==
    \A t \in Turns : turn[t].pc \in {"plan", "planning", "reply", "replying"} => turn[t].unanswered = 0

\* fallbackToToolResults: once a tool has answered for the user, the turn does
\* not end in an error, unless it was stopped or a before-hook failed.
ResultsAreNotLost ==
    \A t \in Turns : turn[t].outcome.kind = "failed" /\ turn[t].results > 0
                     => turn[t].outcome.whileStopped \/ turn[t].outcome.code = "before_hook"

\* HandleMessage: a turn that is over has sent its answer or its failure,
\* except for a turn that was stopped, one the planner (or a tool that has
\* nothing for the user) ended, and one whose
\* model call ran into a time limit, which HandleMessage takes for a stop; a
\* failure is never remembered as an answer.
TurnsAreAnswered ==
    \A t \in Turns :
        turn[t].pc = "closed" =>
            /\ turn[t].sent = "none" => turn[t].stopped \/ turn[t].outcome.kind = "stopped" \/ turn[t].outcome.code = "deadline"
            /\ turn[t].sent = "answer" => turn[t].remembered \/ t \in CommandTurns
            /\ turn[t].outcome.kind \in {"failed", "stopped"} => ~turn[t].remembered

\* A turn pays for its requests, shows the model a complete transcript and
\* holds the slot of the exclusive tools only while its tool runs.
TurnsAreAccounted == AgentTypeOK /\ RequestsArePaid /\ SlotIsHeldByItsTool /\ TranscriptIsComplete

\* A turn that nobody stopped answers: with the reply, or with what its tools
\* found before it failed, or with the failure.
AnswersReachTheUser == ResultsAreNotLost /\ TurnsAreAnswered

\* Engine.reply: nothing is sent for a turn that has been stopped.
StoppedTurnsAreSilent == [][\A t \in Turns : turn[t].stopped => turn'[t].sent = turn[t].sent]_agentVars

\* Run and HandleMessage: a turn that has begun ends, whatever the model and
\* the tools answer, however often plugins come and go, and whoever holds the
\* slot of the exclusive tools.  This is what the scheduler relies on when it
\* waits for its turns.
TurnsEnd == \A t \in Turns : (turn[t].pc # "new") ~> (turn[t].pc = "closed")
=============================================================================
