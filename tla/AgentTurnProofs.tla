--------------------------- MODULE AgentTurnProofs ---------------------------
(***************************************************************************)
(* Theorems about AgentTurn, for any number of concurrent turns and tools  *)
(* and every value of the limits: what a turn asks of the model, what it   *)
(* shows it, who holds the slot of the exclusive tools, and which turns    *)
(* end without an answer.                                                  *)
(***************************************************************************)
EXTENDS AgentTurn, Integers, TLAPS

-----------------------------------------------------------------------------
(* The inductive invariant *)

Places == {"new", "plan", "planning", "tool", "slot", "running", "reply", "replying", "outcome", "send", "closed"}
Kinds == {"none", "reply", "results", "stopped", "failed"}
Codes == {"none", "cancelled", "unavailable", "quota", "deadline", "provider", "invalid_response",
          "invalid_decision", "step_limit", "tool", "before_hook", "invalid_reply"}

TurnRecord ==
    [pc : Places, step : 1..MaxPlannerSteps, repair : 0..MaxRepairs, visible : SUBSET AgentTools,
     queue : Seq(AgentTools), calls : 0..MaxToolCalls, results : Nat, direct : BOOLEAN, unanswered : Int,
     requests : Nat, unpaid : Int, stopped : BOOLEAN,
     outcome : [kind : Kinds, code : Codes, whileStopped : BOOLEAN], remembered : BOOLEAN,
     sent : {"none", "answer", "failure"}]

\* What is known of a turn wherever it is before its outcome.
Underway(t, s) ==
    /\ s \in TurnRecord /\ s.unpaid = 0
    /\ s.requests <= 2 * s.step + (IF t \in ExpectingTurns THEN 2 ELSE 1)
    /\ s.outcome = Ongoing /\ ~s.remembered /\ s.sent = "none"

\* complete: the requests a turn has sent, by its place in the loop; each step
\* of the planner takes at most two, a repair is the second of them.
RequestsByPlace(t, s) ==
    /\ s.pc = "new" => s.requests = 0 /\ s.repair = 0 /\ s.results = 0
    /\ s.pc = "plan" => s.requests <= 2 * (s.step - 1) + s.repair
    /\ s.pc = "planning" => s.requests <= 2 * (s.step - 1) + s.repair + 1
    /\ s.pc \in {"tool", "slot", "running"} => s.repair = 0 /\ s.requests <= 2 * s.step
    /\ s.pc = "reply" => s.requests <= 2 * s.step + s.repair
    /\ s.pc = "replying" => s.requests <= 2 * s.step + s.repair + 1
    /\ s.pc \in {"reply", "replying"} => s.repair = 0 \/ t \in ExpectingTurns

\* ToolSession: the calls of a decision that have no result are those that are
\* still queued, the one under way first.
QueueByPlace(t, s) ==
    /\ s.pc \in {"tool", "slot", "running"} => s.queue # <<>>
    /\ s.pc = "slot" => Head(s.queue) \in ExclusiveTools
    /\ s.pc \in {"new", "plan", "planning", "reply", "replying"} => s.unanswered = 0
    /\ s.pc \in {"tool", "slot", "running"} /\ t \notin CommandTurns => s.unanswered = Len(s.queue)
    /\ t \in CommandTurns => /\ s.pc \notin {"plan", "planning", "reply", "replying"}
                             /\ s.pc \in {"tool", "slot", "running"} => s.results = 0

\* The outcome: cancelled only if stopped, and no error where a tool has
\* answered unless the turn was stopped or a before-hook failed.
OutcomeOK(s) ==
    /\ s.outcome.code = "cancelled" => s.stopped
    /\ s.outcome.kind = "failed" /\ s.results > 0 => s.outcome.whileStopped \/ s.outcome.code = "before_hook"

\* HandleMessage: what is remembered and sent follows the outcome.
EndByPlace(t, s) ==
    /\ s.pc = "outcome" => ~s.remembered /\ s.sent = "none"
    /\ s.pc = "send" => /\ s.sent = "none" /\ s.outcome.kind # "stopped"
                        /\ s.remembered <=> s.outcome.kind # "failed" /\ t \notin CommandTurns
    /\ s.pc = "closed" =>
         /\ s.sent = "none" => s.stopped \/ s.outcome.kind = "stopped" \/ s.outcome.code = "deadline"
         /\ s.sent = "answer" => s.remembered \/ t \in CommandTurns
         /\ s.outcome.kind \in {"failed", "stopped"} => ~s.remembered

Over(s) == s.pc \in {"outcome", "send", "closed"}

TurnOK(t, s) ==
    /\ s \in TurnRecord /\ s.unpaid = 0
    /\ s.requests <= 2 * MaxPlannerSteps + (IF t \in ExpectingTurns THEN 2 ELSE 1)
    /\ ~Over(s) => Underway(t, s)
    /\ RequestsByPlace(t, s) /\ QueueByPlace(t, s) /\ OutcomeOK(s) /\ EndByPlace(t, s)

TurnsOK ==
    /\ turn = [t \in Turns |-> turn[t]] /\ \A t \in Turns : TurnOK(t, turn[t])
    /\ loadedTools \subseteq DynamicTools /\ exclusiveSlot \in Turns \cup {FreeSlot}

AgentInv == TurnsOK /\ SlotIsHeldByItsTool

LEMMA RepairRange == 0 \in 0..MaxRepairs /\ 1 \in 0..MaxRepairs
  BY DEF MaxRepairs

\* AgentInv says what the runs check.
LEMMA InvImplies ==
  ASSUME AgentInv
  PROVE  TurnsAreAccounted /\ AnswersReachTheUser
<1>1. AgentTypeOK
  BY DEF AgentInv, TurnsOK, TurnOK, TurnRecord, AgentTypeOK, Places, Kinds, QueueByPlace
<1>2. RequestsArePaid
  BY DEF AgentInv, TurnsOK, TurnOK, RequestsArePaid
<1>3. TranscriptIsComplete
  BY DEF AgentInv, TurnsOK, TurnOK, QueueByPlace, TranscriptIsComplete
<1>4. ResultsAreNotLost
  BY DEF AgentInv, TurnsOK, TurnOK, OutcomeOK, ResultsAreNotLost
<1>5. TurnsAreAnswered
  BY DEF AgentInv, TurnsOK, TurnOK, EndByPlace, TurnsAreAnswered
<1> QED BY <1>1, <1>2, <1>3, <1>4, <1>5 DEF AgentInv, TurnsAreAccounted, AnswersReachTheUser

-----------------------------------------------------------------------------
(* How a turn ends *)

\* Ended: the outcome of a turn that is under way.
LEMMA EndedOK ==
  ASSUME NEW t \in Turns, NEW s, Underway(t, s), NEW kind \in Kinds, NEW code \in Codes,
         code = "cancelled" => s.stopped,
         kind = "failed" /\ s.results > 0 => s.stopped \/ code = "before_hook"
  PROVE  TurnOK(t, Ended(s, kind, code)) /\ Ended(s, kind, code).pc = "outcome"
         /\ Ended(s, kind, code).sent = s.sent
<1> DEFINE x == Ended(s, kind, code)
<1>1. s \in TurnRecord
  BY DEF Underway
<1>2. [kind |-> kind, code |-> code, whileStopped |-> s.stopped] \in [kind : Kinds, code : Codes, whileStopped : BOOLEAN]
  BY <1>1 DEF TurnRecord
<1>3. x \in TurnRecord
  BY <1>1, <1>2 DEF TurnRecord, Ended, Places
<1>4. /\ x.pc = "outcome" /\ x.unpaid = s.unpaid /\ x.requests = s.requests /\ x.step = s.step
      /\ x.remembered = s.remembered /\ x.sent = s.sent /\ x.results = s.results /\ x.stopped = s.stopped
      /\ x.outcome = [kind |-> kind, code |-> code, whileStopped |-> s.stopped]
  BY <1>1 DEF TurnRecord, Ended
<1> HIDE DEF x
<1>5. x.requests <= 2 * MaxPlannerSteps + (IF t \in ExpectingTurns THEN 2 ELSE 1)
  <2>1. s.step \in Nat /\ s.step <= MaxPlannerSteps /\ s.requests \in Nat /\ MaxPlannerSteps \in Nat
    BY <1>1, AgentAssumption DEF TurnRecord
  <2> QED BY <1>4, <2>1 DEF Underway
<1>6. OutcomeOK(x)
  BY <1>4 DEF OutcomeOK
<1>7. RequestsByPlace(t, x) /\ QueueByPlace(t, x) /\ EndByPlace(t, x) /\ Over(x)
  BY <1>4 DEF RequestsByPlace, QueueByPlace, EndByPlace, Over, Underway
<1>8. TurnOK(t, x)
  BY <1>3, <1>4, <1>5, <1>6, <1>7 DEF TurnOK, Underway
<1> QED BY <1>4, <1>8 DEF x

\* fallbackToToolResults ends the turn with an error only where nothing is lost.
LEMMA FallbackOK ==
  ASSUME NEW t \in Turns, NEW s, Underway(t, s), NEW code \in Codes, code = "cancelled" => s.stopped
  PROVE  TurnOK(t, Fallback(s, code)) /\ Fallback(s, code).pc = "outcome" /\ Fallback(s, code).sent = s.sent
<1>1. s.results \in Nat /\ {"failed", "results"} \subseteq Kinds /\ "none" \in Codes
  BY DEF Underway, TurnRecord, Kinds, Codes
<1>2. CASE s.stopped \/ s.results = 0
  BY <1>1, <1>2, EndedOK DEF Fallback
<1>3. CASE ~(s.stopped \/ s.results = 0)
  BY <1>1, <1>3, EndedOK DEF Fallback
<1> QED BY <1>2, <1>3

-----------------------------------------------------------------------------
(* The steps *)

\* Nothing is sent for a turn that has been stopped.
Silent == \A t \in Turns : turn[t].stopped => turn'[t].sent = turn[t].sent

RunsExclusive(s) == s.pc = "running" /\ Head(s.queue) \in ExclusiveTools

\* A turn that neither gains nor loses the slot.
LEMMA BecomeOK ==
  ASSUME AgentInv, NEW t \in Turns, NEW x, Become(t, x), TurnOK(t, x),
         RunsExclusive(x) <=> RunsExclusive(turn[t]),
         turn[t].stopped => x.sent = turn[t].sent,
         UNCHANGED <<exclusiveSlot, loadedTools>>
  PROVE  AgentInv' /\ Silent
<1>1. turn' = [u \in Turns |-> IF u = t THEN x ELSE turn[u]]
  BY DEF AgentInv, TurnsOK, Become
<1>2. turn'[t] = x /\ \A u \in Turns \ {t} : turn'[u] = turn[u]
  BY <1>1
<1>3. TurnsOK'
  BY <1>1, <1>2 DEF AgentInv, TurnsOK
<1>4. SlotIsHeldByItsTool'
  BY <1>2 DEF AgentInv, SlotIsHeldByItsTool, RunsExclusive
<1> QED BY <1>2, <1>3, <1>4 DEF AgentInv, Silent

\* The state of a turn that is not over.
LEMMA TurnUnderway ==
  ASSUME AgentInv, NEW t \in Turns, ~Over(turn[t])
  PROVE  /\ Underway(t, turn[t]) /\ turn[t] \in TurnRecord
         /\ RequestsByPlace(t, turn[t]) /\ QueueByPlace(t, turn[t])
  BY DEF AgentInv, TurnsOK, TurnOK, Underway

\* Where a step has left a turn that is under way.
LEMMA UnderwayOK ==
  ASSUME NEW t \in Turns, NEW x, ~Over(x), Underway(t, x), RequestsByPlace(t, x), QueueByPlace(t, x)
  PROVE  TurnOK(t, x)
<1>1. /\ x.step \in Nat /\ x.step <= MaxPlannerSteps /\ x.requests \in Nat /\ MaxPlannerSteps \in Nat
  BY AgentAssumption DEF Underway, TurnRecord
<1>2. x.requests <= 2 * MaxPlannerSteps + (IF t \in ExpectingTurns THEN 2 ELSE 1)
  BY <1>1 DEF Underway
<1>3. OutcomeOK(x)
  BY DEF Underway, Ongoing, OutcomeOK
<1>4. EndByPlace(t, x)
  BY DEF Over, EndByPlace
<1> QED BY <1>2, <1>3, <1>4 DEF TurnOK, Underway

LEMMA BeginTurnOK ==
  ASSUME AgentInv, NEW t \in Turns, BeginTurn(t)
  PROVE  AgentInv' /\ Silent
<1> DEFINE s == turn[t]
<1> DEFINE x == [s EXCEPT !.pc = "plan", !.visible = Registered]
<1>0. s.pc = "new" /\ t \notin CommandTurns /\ ~Over(s) /\ ~RunsExclusive(s)
  BY DEF BeginTurn, Over, RunsExclusive
<1>1. Underway(t, s) /\ s \in TurnRecord /\ RequestsByPlace(t, s) /\ QueueByPlace(t, s)
  BY <1>0, TurnUnderway
<1>2. CASE s.stopped
  <2>1. Become(t, Ended(s, "failed", "cancelled"))
    BY <1>2 DEF BeginTurn
  <2>2. TurnOK(t, Ended(s, "failed", "cancelled")) /\ Ended(s, "failed", "cancelled").pc = "outcome"
        /\ Ended(s, "failed", "cancelled").sent = s.sent
    BY <1>1, <1>2, EndedOK DEF Kinds, Codes
  <2> QED BY <1>0, <2>1, <2>2, BecomeOK DEF BeginTurn, RunsExclusive
<1>3. CASE ~s.stopped /\ TooManyTools
  <2>1. Become(t, Ended(s, "failed", "unavailable"))
    BY <1>3 DEF BeginTurn
  <2>2. TurnOK(t, Ended(s, "failed", "unavailable")) /\ Ended(s, "failed", "unavailable").pc = "outcome"
        /\ Ended(s, "failed", "unavailable").sent = s.sent
    BY <1>0, <1>1, EndedOK DEF Kinds, Codes, RequestsByPlace
  <2> QED BY <1>0, <2>1, <2>2, BecomeOK DEF BeginTurn, RunsExclusive
<1>4. CASE ~s.stopped /\ ~TooManyTools
  <2>1. Become(t, x)
    BY <1>4 DEF BeginTurn
  <2>2. x \in TurnRecord
    BY <1>1 DEF TurnRecord, Places, AgentInv, TurnsOK, Registered, AgentTools
  <2>3. /\ x.pc = "plan" /\ x.requests = s.requests /\ x.step = s.step /\ x.repair = s.repair
        /\ x.unanswered = s.unanswered /\ x.unpaid = s.unpaid /\ x.outcome = s.outcome
        /\ x.remembered = s.remembered /\ x.sent = s.sent
    BY <1>1 DEF TurnRecord
  <2> HIDE DEF x
  <2>4. Underway(t, x)
    BY <1>1, <2>2, <2>3 DEF Underway
  <2>5. RequestsByPlace(t, x) /\ QueueByPlace(t, x) /\ ~Over(x)
    BY <1>0, <1>1, <2>3 DEF RequestsByPlace, QueueByPlace, Over, TurnRecord
  <2> QED BY <1>0, <2>1, <2>3, <2>4, <2>5, UnderwayOK, BecomeOK DEF BeginTurn, RunsExclusive
<1> QED BY <1>2, <1>3, <1>4

\* A step that ends the turn with an error or with what its tools have found.
LEMMA FallbackStep ==
  ASSUME AgentInv, NEW t \in Turns, ~Over(turn[t]), ~RunsExclusive(turn[t]),
         NEW code \in Codes, code = "cancelled" => turn[t].stopped,
         Become(t, Fallback(turn[t], code)), UNCHANGED <<exclusiveSlot, loadedTools>>
  PROVE  AgentInv' /\ Silent
<1>1. Underway(t, turn[t])
  BY TurnUnderway
<1>2. TurnOK(t, Fallback(turn[t], code)) /\ Fallback(turn[t], code).pc = "outcome" /\ Fallback(turn[t], code).sent = turn[t].sent
  BY <1>1, FallbackOK
<1>3. ~RunsExclusive(Fallback(turn[t], code))
  BY <1>2 DEF RunsExclusive
<1> QED BY <1>2, <1>3, BecomeOK

\* A step that ends the turn outright.
LEMMA EndedStep ==
  ASSUME AgentInv, NEW t \in Turns, ~Over(turn[t]), ~RunsExclusive(turn[t]),
         NEW kind \in Kinds, NEW code \in Codes, code = "cancelled" => turn[t].stopped,
         kind = "failed" /\ turn[t].results > 0 => turn[t].stopped \/ code = "before_hook",
         Become(t, Ended(turn[t], kind, code)), UNCHANGED <<exclusiveSlot, loadedTools>>
  PROVE  AgentInv' /\ Silent
<1> DEFINE x == Ended(turn[t], kind, code)
<1>1. Underway(t, turn[t])
  BY TurnUnderway
<1>2. TurnOK(t, x) /\ x.pc = "outcome" /\ x.sent = turn[t].sent
  BY <1>1, EndedOK
<1>3. ~RunsExclusive(x)
  BY <1>2 DEF RunsExclusive
<1> HIDE DEF x
<1> QED BY <1>2, <1>3, BecomeOK DEF x

\* A step that leaves the turn under way, without the slot.
LEMMA UnderwayStep ==
  ASSUME AgentInv, NEW t \in Turns, ~Over(turn[t]), ~RunsExclusive(turn[t]),
         NEW x, Become(t, x), ~Over(x), ~RunsExclusive(x), Underway(t, x), RequestsByPlace(t, x), QueueByPlace(t, x),
         UNCHANGED <<exclusiveSlot, loadedTools>>
  PROVE  AgentInv' /\ Silent
<1>1. Underway(t, turn[t])
  BY TurnUnderway
<1>2. TurnOK(t, x)
  BY UnderwayOK
<1>3. x.sent = turn[t].sent
  BY <1>1 DEF Underway
<1> QED BY <1>2, <1>3, BecomeOK

LEMMA AskModelOK ==
  ASSUME AgentInv, NEW t \in Turns, AskModel(t)
  PROVE  AgentInv' /\ Silent
<1> DEFINE s == turn[t]
<1> DEFINE x == [s EXCEPT !.pc = IF s.pc = "plan" THEN "planning" ELSE "replying",
                          !.requests = @ + 1, !.unpaid = @ + 1 - Reservation(s)]
<1>0. s.pc \in {"plan", "reply"} /\ ~Over(s) /\ ~RunsExclusive(s) /\ UNCHANGED <<exclusiveSlot, loadedTools>>
  BY DEF AskModel, Over, RunsExclusive
<1>1. Underway(t, s) /\ s \in TurnRecord /\ RequestsByPlace(t, s) /\ QueueByPlace(t, s)
  BY <1>0, TurnUnderway
<1>2. CASE s.stopped /\ Become(t, Fallback(s, "cancelled"))
  BY <1>0, <1>2, FallbackStep DEF Codes
<1>3. CASE Become(t, Fallback(s, "quota"))
  BY <1>0, <1>3, FallbackStep DEF Codes
<1>4. CASE Become(t, x)
  <2>1. x \in TurnRecord
    <3>1. s.unpaid + 1 - Reservation(s) \in Int /\ s.requests + 1 \in Nat
      BY <1>1 DEF TurnRecord, Reservation
    <3>2. (IF s.pc = "plan" THEN "planning" ELSE "replying") \in Places
      BY DEF Places
    <3> QED BY <1>1, <3>1, <3>2 DEF TurnRecord
  <2>2. /\ x.pc = (IF s.pc = "plan" THEN "planning" ELSE "replying") /\ x.requests = s.requests + 1
        /\ x.unpaid = s.unpaid /\ x.step = s.step /\ x.repair = s.repair /\ x.unanswered = s.unanswered
        /\ x.outcome = s.outcome /\ x.remembered = s.remembered /\ x.sent = s.sent
    BY <1>1 DEF TurnRecord, Reservation
  <2> HIDE DEF x
  <2>3. s.requests \in Nat /\ s.step \in Nat /\ s.repair \in {0, 1}
    BY <1>1 DEF TurnRecord, MaxRepairs
  <2>4. Underway(t, x)
    <3>1. x.requests <= 2 * x.step + (IF t \in ExpectingTurns THEN 2 ELSE 1)
      BY <1>0, <1>1, <2>2, <2>3 DEF RequestsByPlace
    <3> QED BY <1>1, <2>1, <2>2, <3>1 DEF Underway
  <2>5. RequestsByPlace(t, x)
    BY <1>0, <1>1, <2>2, <2>3 DEF RequestsByPlace
  <2>6. QueueByPlace(t, x) /\ ~Over(x) /\ ~RunsExclusive(x)
    BY <1>0, <1>1, <2>2 DEF QueueByPlace, Over, RunsExclusive
  <2> QED BY <1>0, <1>4, <2>4, <2>5, <2>6, UnderwayStep
<1> QED BY <1>2, <1>3, <1>4 DEF AskModel

\* Back from the model to the request of a repair, of the plan or of the reply.
LEMMA RepairOK ==
  ASSUME AgentInv, NEW t \in Turns, turn[t].pc \in {"planning", "replying"}, turn[t].repair = 0,
         turn[t].pc = "planning" \/ t \in ExpectingTurns,
         Become(t, [turn[t] EXCEPT !.pc = IF turn[t].pc = "planning" THEN "plan" ELSE "reply", !.repair = 1]),
         UNCHANGED <<exclusiveSlot, loadedTools>>
  PROVE  AgentInv' /\ Silent
<1> DEFINE s == turn[t]
<1> DEFINE x == [s EXCEPT !.pc = IF s.pc = "planning" THEN "plan" ELSE "reply", !.repair = 1]
<1>0. ~Over(s) /\ ~RunsExclusive(s)
  BY DEF Over, RunsExclusive
<1>1. Underway(t, s) /\ s \in TurnRecord /\ RequestsByPlace(t, s) /\ QueueByPlace(t, s)
  BY <1>0, TurnUnderway
<1>2. x \in TurnRecord
  <2>1. (IF s.pc = "planning" THEN "plan" ELSE "reply") \in Places
    BY DEF Places
  <2> QED BY <1>1, <2>1, RepairRange DEF TurnRecord
<1>3. /\ x.pc = (IF s.pc = "planning" THEN "plan" ELSE "reply") /\ x.requests = s.requests
      /\ x.unpaid = s.unpaid /\ x.step = s.step /\ x.repair = 1 /\ x.unanswered = s.unanswered
      /\ x.outcome = s.outcome /\ x.remembered = s.remembered /\ x.sent = s.sent
  BY <1>1 DEF TurnRecord
<1> HIDE DEF x
<1>4. Underway(t, x)
  BY <1>1, <1>2, <1>3 DEF Underway
<1>5. RequestsByPlace(t, x)
  BY <1>1, <1>3 DEF RequestsByPlace, TurnRecord
<1>6. QueueByPlace(t, x) /\ ~Over(x) /\ ~RunsExclusive(x)
  BY <1>1, <1>3 DEF QueueByPlace, Over, RunsExclusive
<1> QED BY <1>0, <1>4, <1>5, <1>6, UnderwayStep DEF x

LEMMA ModelFailsOK ==
  ASSUME AgentInv, NEW t \in Turns, ModelFails(t)
  PROVE  AgentInv' /\ Silent
<1> DEFINE s == turn[t]
<1> DEFINE repairable == s.repair = 0 /\ (s.pc = "planning" \/ t \in ExpectingTurns)
<1>0. s.pc \in {"planning", "replying"} /\ ~Over(s) /\ ~RunsExclusive(s) /\ UNCHANGED <<exclusiveSlot, loadedTools>>
  BY DEF ModelFails, Over, RunsExclusive
<1>2. CASE s.stopped /\ Become(t, Fallback(s, "cancelled"))
  BY <1>0, <1>2, FallbackStep DEF Codes
<1>3. CASE \E code \in {"deadline", "provider"} : Become(t, Fallback(s, code))
  BY <1>0, <1>3, FallbackStep DEF Codes
<1>4. CASE repairable /\ Become(t, [s EXCEPT !.pc = IF s.pc = "planning" THEN "plan" ELSE "reply", !.repair = 1])
  BY <1>0, <1>4, RepairOK
<1>5. CASE Become(t, Fallback(s, "invalid_response"))
  BY <1>0, <1>5, FallbackStep DEF Codes
<1> QED BY <1>2, <1>3, <1>4, <1>5 DEF ModelFails

LEMMA MalformedOK ==
  ASSUME AgentInv, NEW t \in Turns, Malformed(t)
  PROVE  AgentInv' /\ Silent
<1> DEFINE s == turn[t]
<1>0. s.pc = "planning" /\ ~Over(s) /\ ~RunsExclusive(s) /\ UNCHANGED <<exclusiveSlot, loadedTools>>
  BY DEF Malformed, Over, RunsExclusive
<1>1. s.repair \in {0, 1}
  BY <1>0, TurnUnderway DEF TurnRecord, MaxRepairs
<1>2. CASE s.repair < MaxRepairs
  <2>1. Become(t, [s EXCEPT !.pc = "plan", !.repair = 1])
    BY <1>2 DEF Malformed
  <2>2. s.repair = 0
    BY <1>1, <1>2 DEF MaxRepairs
  <2> QED BY <1>0, <2>1, <2>2, RepairOK
<1>3. CASE ~(s.repair < MaxRepairs)
  BY <1>0, <1>3, FallbackStep DEF Malformed, Codes
<1> QED BY <1>2, <1>3

LEMMA ReplyAnsweredOK ==
  ASSUME AgentInv, NEW t \in Turns, ReplyAnswered(t)
  PROVE  AgentInv' /\ Silent
<1> DEFINE s == turn[t]
<1> DEFINE maxRepairs == IF t \in ExpectingTurns THEN 1 ELSE 0
<1>0. s.pc = "replying" /\ ~Over(s) /\ ~RunsExclusive(s) /\ UNCHANGED <<exclusiveSlot, loadedTools>>
  BY DEF ReplyAnswered, Over, RunsExclusive
<1>1. s.repair \in {0, 1}
  BY <1>0, TurnUnderway DEF TurnRecord, MaxRepairs
<1>2. CASE Become(t, Ended(s, "reply", "none"))
  BY <1>0, <1>2, EndedStep DEF Kinds, Codes
<1>3. CASE s.repair < maxRepairs /\ Become(t, [s EXCEPT !.pc = "reply", !.repair = 1])
  <2>1. s.repair = 0 /\ t \in ExpectingTurns
    BY <1>1, <1>3
  <2> QED BY <1>0, <1>3, <2>1, RepairOK
<1>4. CASE Become(t, Fallback(s, "invalid_reply"))
  BY <1>0, <1>4, FallbackStep DEF Codes
<1> QED BY <1>2, <1>3, <1>4 DEF ReplyAnswered

LEMMA DecideOK ==
  ASSUME AgentInv, NEW t \in Turns, Decide(t)
  PROVE  AgentInv' /\ Silent
<1> DEFINE s == turn[t]
<1> DEFINE x == [s EXCEPT !.pc = "reply", !.repair = 0]
<1> DEFINE y(decision) == [s EXCEPT !.pc = "tool", !.repair = 0, !.queue = decision, !.direct = FALSE, !.unanswered = @ + Len(decision)]
<1>0. s.pc = "planning" /\ ~Over(s) /\ ~RunsExclusive(s) /\ UNCHANGED <<exclusiveSlot, loadedTools>>
  BY DEF Decide, Over, RunsExclusive
<1>1. Underway(t, s) /\ s \in TurnRecord /\ RequestsByPlace(t, s) /\ QueueByPlace(t, s)
  BY <1>0, TurnUnderway
<1>2. s.requests \in Nat /\ s.step \in Nat /\ s.repair \in {0, 1} /\ s.requests <= 2 * s.step /\ s.unanswered = 0 /\ t \notin CommandTurns
  BY <1>0, <1>1 DEF TurnRecord, MaxRepairs, RequestsByPlace, QueueByPlace
<1>3. CASE Become(t, x)
  <2>1. x \in TurnRecord
    <3>1. "reply" \in Places
      BY DEF Places
    <3> QED BY <1>1, <3>1, RepairRange DEF TurnRecord
  <2>2. /\ x.pc = "reply" /\ x.requests = s.requests /\ x.unpaid = s.unpaid /\ x.step = s.step /\ x.repair = 0
        /\ x.unanswered = s.unanswered /\ x.outcome = s.outcome /\ x.remembered = s.remembered /\ x.sent = s.sent
    BY <1>1 DEF TurnRecord
  <2> HIDE DEF x
  <2>4. Underway(t, x)
    BY <1>1, <2>1, <2>2 DEF Underway
  <2>5. RequestsByPlace(t, x)
    BY <1>2, <2>2 DEF RequestsByPlace
  <2>6. QueueByPlace(t, x) /\ ~Over(x) /\ ~RunsExclusive(x)
    BY <1>2, <2>2 DEF QueueByPlace, Over, RunsExclusive
  <2> QED BY <1>0, <1>3, <2>4, <2>5, <2>6, UnderwayStep
<1>4. CASE Become(t, IF s.results > 0 THEN Ended(s, "results", "none") ELSE Ended(s, "stopped", "none"))
  <2>1. CASE Become(t, Ended(s, "results", "none"))
    BY <1>0, <2>1, EndedStep DEF Kinds, Codes
  <2>2. CASE Become(t, Ended(s, "stopped", "none"))
    BY <1>0, <2>2, EndedStep DEF Kinds, Codes
  <2> QED BY <1>4, <2>1, <2>2
<1>5. ASSUME NEW decision \in Decisions, Become(t, y(decision))
      PROVE  AgentInv' /\ Silent
  <2> DEFINE z == y(decision)
  <2>0. decision \in Seq(AgentTools) /\ decision # <<>> /\ Len(decision) \in Nat
    BY AgentAssumption DEF AgentTools
  <2>1. z \in TurnRecord
    <3>1. "tool" \in Places
      BY DEF Places
    <3>2. s.unanswered + Len(decision) \in Int
      BY <1>2, <2>0
    <3> QED BY <1>1, <2>0, <3>1, <3>2, RepairRange DEF TurnRecord
  <2>2. /\ z.pc = "tool" /\ z.requests = s.requests /\ z.unpaid = s.unpaid /\ z.step = s.step /\ z.repair = 0
        /\ z.unanswered = Len(decision) /\ z.queue = decision
        /\ z.outcome = s.outcome /\ z.remembered = s.remembered /\ z.sent = s.sent
    BY <1>1, <1>2, <2>0 DEF TurnRecord
  <2>3. Become(t, z)
    BY <1>5
  <2> HIDE DEF z
  <2>4. Underway(t, z)
    BY <1>1, <2>1, <2>2 DEF Underway
  <2>5. RequestsByPlace(t, z)
    BY <1>2, <2>2 DEF RequestsByPlace
  <2>6. QueueByPlace(t, z) /\ ~Over(z) /\ ~RunsExclusive(z)
    BY <1>2, <2>0, <2>2 DEF QueueByPlace, Over, RunsExclusive
  <2> QED BY <1>0, <2>3, <2>4, <2>5, <2>6, UnderwayStep
<1> QED BY <1>3, <1>4, <1>5 DEF Decide

-----------------------------------------------------------------------------
(* Tool calls *)

CallPlaces == {"tool", "slot", "running"}

\* A turn in one of the three places of a tool call.
InCall(t, s) == Underway(t, s) /\ s.pc \in CallPlaces /\ RequestsByPlace(t, s) /\ QueueByPlace(t, s)

\* What a step must show of the turn it leaves, if it has not the slot.
LeftOK(t, s, x) == TurnOK(t, x) /\ ~RunsExclusive(x) /\ x.sent = s.sent

LEMMA EndedLeft ==
  ASSUME NEW t \in Turns, NEW s, Underway(t, s), NEW kind \in Kinds, NEW code \in Codes,
         code = "cancelled" => s.stopped,
         kind = "failed" /\ s.results > 0 => s.stopped \/ code = "before_hook"
  PROVE  LeftOK(t, s, Ended(s, kind, code))
<1> DEFINE x == Ended(s, kind, code)
<1>1. TurnOK(t, x) /\ x.pc = "outcome" /\ x.sent = s.sent
  BY EndedOK
<1> HIDE DEF x
<1>2. LeftOK(t, s, x)
  BY <1>1 DEF LeftOK, RunsExclusive
<1> QED BY <1>2 DEF x

LEMMA FallbackLeft ==
  ASSUME NEW t \in Turns, NEW s, Underway(t, s), NEW code \in Codes, code = "cancelled" => s.stopped
  PROVE  LeftOK(t, s, Fallback(s, code))
<1> DEFINE x == Fallback(s, code)
<1>1. TurnOK(t, x) /\ x.pc = "outcome" /\ x.sent = s.sent
  BY FallbackOK
<1> HIDE DEF x
<1>2. LeftOK(t, s, x)
  BY <1>1 DEF LeftOK, RunsExclusive
<1> QED BY <1>2 DEF x

LEMMA AfterCommandOK ==
  ASSUME NEW t \in CommandTurns, NEW s, InCall(t, s), NEW code, NEW text
  PROVE  LeftOK(t, s, AfterCommand(s, code, text))
<1> DEFINE told == [s EXCEPT !.results = 1]
<1>0. t \in Turns /\ s \in TurnRecord /\ s.results = 0
  BY AgentAssumption DEF InCall, Underway, QueueByPlace, CallPlaces
<1>1. told \in TurnRecord
  BY <1>0 DEF TurnRecord
<1>2. /\ told.unpaid = s.unpaid /\ told.requests = s.requests /\ told.step = s.step /\ told.outcome = s.outcome
      /\ told.remembered = s.remembered /\ told.sent = s.sent
  BY <1>0 DEF TurnRecord
<1>3. {"failed", "results", "stopped"} \subseteq Kinds /\ {"none", "cancelled", "tool"} \subseteq Codes
  BY DEF Kinds, Codes
<1>4. CASE code = "ok" /\ text = "user"
  <2> HIDE DEF told
  <2>1. Underway(t, told)
    BY <1>1, <1>2 DEF InCall, Underway
  <2>2. LeftOK(t, told, Ended(told, "results", "none"))
    BY <1>0, <1>3, <2>1, EndedLeft
  <2>3. AfterCommand(s, code, text) = Ended(told, "results", "none")
    BY <1>4 DEF AfterCommand, told
  <2> QED BY <1>2, <2>2, <2>3 DEF LeftOK
<1>5. CASE code = "ok" /\ text # "user"
  BY <1>0, <1>3, <1>5, EndedLeft DEF AfterCommand, InCall
<1>6. CASE code # "ok" /\ code \in {"cancelled", "timeout"} /\ s.stopped
  BY <1>0, <1>3, <1>6, EndedLeft DEF AfterCommand, InCall
<1>7. CASE code # "ok" /\ ~(code \in {"cancelled", "timeout"} /\ s.stopped)
  BY <1>0, <1>3, <1>7, EndedLeft DEF AfterCommand, InCall
<1> QED BY <1>4, <1>5, <1>6, <1>7

\* The next round of the planner, or the end at the step limit.
LEMMA NextStepOK ==
  ASSUME NEW t \in Turns, NEW s, Underway(t, s), t \notin CommandTurns,
         s.repair = 0, s.requests <= 2 * s.step, s.unanswered = 0
  PROVE  LeftOK(t, s, NextStep(s))
<1> DEFINE x == [s EXCEPT !.step = @ + 1, !.pc = "plan"]
<1>0. s \in TurnRecord
  BY DEF Underway
<1>1. CASE s.step = MaxPlannerSteps
  BY <1>1, FallbackLeft DEF NextStep, Codes
<1>2. CASE s.step # MaxPlannerSteps
  <2>1. s.step + 1 \in 1..MaxPlannerSteps /\ s.step \in Nat /\ s.requests \in Nat
    BY <1>0, <1>2, AgentAssumption DEF TurnRecord
  <2>2. x \in TurnRecord
    <3>1. "plan" \in Places
      BY DEF Places
    <3> QED BY <1>0, <2>1, <3>1 DEF TurnRecord
  <2>3. /\ x.pc = "plan" /\ x.requests = s.requests /\ x.unpaid = s.unpaid /\ x.step = s.step + 1 /\ x.repair = s.repair
        /\ x.unanswered = s.unanswered /\ x.outcome = s.outcome /\ x.remembered = s.remembered /\ x.sent = s.sent
    BY <1>0 DEF TurnRecord
  <2>4. NextStep(s) = x
    BY <1>2 DEF NextStep
  <2> HIDE DEF x
  <2>5. Underway(t, x)
    BY <2>1, <2>2, <2>3 DEF Underway
  <2>6. RequestsByPlace(t, x)
    BY <2>1, <2>3 DEF RequestsByPlace
  <2>7. QueueByPlace(t, x) /\ ~Over(x) /\ ~RunsExclusive(x)
    BY <2>3 DEF QueueByPlace, Over, RunsExclusive
  <2>8. TurnOK(t, x)
    BY <2>5, <2>6, <2>7, UnderwayOK
  <2> QED BY <2>3, <2>4, <2>7, <2>8 DEF LeftOK
<1> QED BY <1>1, <1>2

LEMMA AfterToolOK ==
  ASSUME NEW t \in Turns \ CommandTurns, NEW s, InCall(t, s), NEW code, NEW text, NEW hookFails \in BOOLEAN
  PROVE  LeftOK(t, s, AfterTool(s, code, text, hookFails))
<1> DEFINE told == IF code = "ok" /\ text = "user"
                   THEN [s EXCEPT !.results = @ + 1, !.direct = @ \/ Head(s.queue) \in DirectTools]
                   ELSE s
<1> DEFINE next == [told EXCEPT !.queue = Tail(@), !.unanswered = @ - Answered(s, code), !.pc = "tool"]
<1> DEFINE result == AfterTool(s, code, text, hookFails)
<1>0. /\ s \in TurnRecord /\ Underway(t, s) /\ s.repair = 0 /\ s.requests <= 2 * s.step
      /\ s.queue # <<>> /\ s.unanswered = Len(s.queue)
  BY DEF InCall, Underway, QueueByPlace, RequestsByPlace, CallPlaces
<1>1. told \in TurnRecord
  <2>1. s.results + 1 \in Nat
    BY <1>0 DEF TurnRecord
  <2>2. (s.direct \/ Head(s.queue) \in DirectTools) \in BOOLEAN
    OBVIOUS
  <2> QED BY <1>0, <2>1, <2>2, ZenonT(30) DEF TurnRecord
<1>2. /\ told.unpaid = s.unpaid /\ told.requests = s.requests /\ told.step = s.step /\ told.outcome = s.outcome
      /\ told.remembered = s.remembered /\ told.sent = s.sent /\ told.repair = s.repair /\ told.stopped = s.stopped
      /\ told.queue = s.queue /\ told.unanswered = s.unanswered
  BY <1>0 DEF TurnRecord
<1>3. result = IF hookFails THEN Fallback(told, "unavailable")
               ELSE IF code \in {"cancelled", "timeout"} /\ s.stopped THEN Ended(told, "failed", "cancelled")
               ELSE IF next.queue # <<>> THEN next
               ELSE IF next.direct THEN Ended(next, "results", "none")
               ELSE NextStep(next)
  BY DEF AfterTool
<1> HIDE DEF told, result
<1>4. Underway(t, told)
  BY <1>0, <1>1, <1>2 DEF Underway
<1>5. Tail(s.queue) \in Seq(AgentTools) /\ Len(Tail(s.queue)) = Len(s.queue) - 1 /\ Len(s.queue) \in Nat
  BY <1>0 DEF TurnRecord
<1>6. next \in TurnRecord
  <2>1. "tool" \in Places
    BY DEF Places
  <2>2. told.unanswered - Answered(s, code) \in Int
    BY <1>0, <1>2, <1>5 DEF Answered
  <2> QED BY <1>1, <1>2, <1>5, <2>1, <2>2 DEF TurnRecord
<1>7. /\ next.unpaid = s.unpaid /\ next.requests = s.requests /\ next.step = s.step /\ next.outcome = s.outcome
      /\ next.remembered = s.remembered /\ next.sent = s.sent /\ next.repair = s.repair
      /\ next.queue = Tail(s.queue) /\ next.unanswered = s.unanswered - 1 /\ next.pc = "tool"
  BY <1>1, <1>2 DEF TurnRecord, Answered
<1> HIDE DEF next
<1>8. Underway(t, next) /\ next.unanswered = Len(next.queue)
  BY <1>0, <1>5, <1>6, <1>7 DEF Underway
<1>9. {"failed", "results"} \subseteq Kinds /\ {"none", "cancelled", "unavailable"} \subseteq Codes
  BY DEF Kinds, Codes
<1>10. CASE hookFails
  <2>1. LeftOK(t, told, Fallback(told, "unavailable"))
    BY <1>4, <1>9, FallbackLeft
  <2> QED BY <1>2, <1>3, <1>10, <2>1 DEF LeftOK, result
<1>11. CASE ~hookFails /\ code \in {"cancelled", "timeout"} /\ s.stopped
  <2>1. LeftOK(t, told, Ended(told, "failed", "cancelled"))
    BY <1>2, <1>4, <1>9, <1>11, EndedLeft
  <2> QED BY <1>2, <1>3, <1>11, <2>1 DEF LeftOK, result
<1>12. CASE ~hookFails /\ ~(code \in {"cancelled", "timeout"} /\ s.stopped) /\ next.queue # <<>>
  <2>1. result = next
    BY <1>3, <1>12
  <2>2. RequestsByPlace(t, next)
    BY <1>0, <1>7 DEF RequestsByPlace
  <2>3. QueueByPlace(t, next) /\ ~Over(next) /\ ~RunsExclusive(next)
    BY <1>7, <1>8, <1>12 DEF QueueByPlace, Over, RunsExclusive
  <2>4. TurnOK(t, next)
    BY <1>8, <2>2, <2>3, UnderwayOK
  <2> QED BY <1>7, <2>1, <2>3, <2>4 DEF LeftOK, result
<1>13. CASE ~hookFails /\ ~(code \in {"cancelled", "timeout"} /\ s.stopped) /\ next.queue = <<>> /\ next.direct
  <2>1. LeftOK(t, next, Ended(next, "results", "none"))
    BY <1>8, <1>9, EndedLeft
  <2>2. result = Ended(next, "results", "none")
    BY <1>3, <1>13
  <2> QED BY <1>7, <2>1, <2>2 DEF LeftOK, result
<1>14. CASE ~hookFails /\ ~(code \in {"cancelled", "timeout"} /\ s.stopped) /\ next.queue = <<>> /\ ~next.direct
  <2>1. next.unanswered = 0
    BY <1>8, <1>14
  <2>2. LeftOK(t, next, NextStep(next))
    BY <1>0, <1>7, <1>8, <2>1, NextStepOK
  <2>3. result = NextStep(next)
    BY <1>3, <1>14
  <2> QED BY <1>7, <2>2, <2>3 DEF LeftOK, result
<1> QED BY <1>10, <1>11, <1>12, <1>13, <1>14

\* The end of a tool call returns the slot if the turn holds it.
LEMMA AfterCallOK ==
  ASSUME AgentInv, NEW t \in Turns, turn[t].pc \in CallPlaces, NEW code, NEW text, AfterCall(t, code, text),
         exclusiveSlot' = SlotAfter(t, code), UNCHANGED loadedTools
  PROVE  AgentInv' /\ Silent
<1>1. InCall(t, turn[t])
  <2>1. ~Over(turn[t])
    BY DEF CallPlaces, Over
  <2> QED BY <2>1, TurnUnderway DEF InCall
<1>2. PICK x : Become(t, x) /\ LeftOK(t, turn[t], x)
  <2>1. CASE t \in CommandTurns
    BY <1>1, <2>1, AfterCommandOK DEF AfterCall
  <2>2. CASE t \notin CommandTurns
    BY <1>1, <2>2, AfterToolOK DEF AfterCall
  <2> QED BY <2>1, <2>2
<1>3. turn' = [u \in Turns |-> IF u = t THEN x ELSE turn[u]]
  BY <1>2 DEF AgentInv, TurnsOK, Become
<1>4. turn'[t] = x /\ \A u \in Turns \ {t} : turn'[u] = turn[u]
  BY <1>3
<1>5. exclusiveSlot' \in Turns \cup {FreeSlot} /\ FreeSlot \notin Turns
  BY AgentAssumption DEF AgentInv, TurnsOK, SlotAfter, FreeSlot
<1>6. TurnsOK'
  BY <1>2, <1>3, <1>4, <1>5 DEF AgentInv, TurnsOK, LeftOK
<1>7. SlotIsHeldByItsTool'
  <2>1. exclusiveSlot' # t /\ \A u \in Turns \ {t} : exclusiveSlot' = u <=> exclusiveSlot = u
    BY <1>5 DEF SlotAfter
  <2> QED BY <1>2, <1>4, <2>1 DEF AgentInv, SlotIsHeldByItsTool, LeftOK, RunsExclusive
<1> QED BY <1>2, <1>4, <1>6, <1>7 DEF AgentInv, Silent, LeftOK

\* A turn in the tool loop that does not run an exclusive tool has not the slot.
LEMMA SlotKept ==
  ASSUME AgentInv, NEW t \in Turns, ~RunsExclusive(turn[t]), NEW code
  PROVE  SlotAfter(t, code) = exclusiveSlot
  BY DEF AgentInv, SlotIsHeldByItsTool, RunsExclusive, SlotAfter

LEMMA BeginCommandOK ==
  ASSUME AgentInv, NEW t \in Turns, BeginCommand(t)
  PROVE  AgentInv' /\ Silent
<1> DEFINE s == turn[t]
<1>0. s.pc = "new" /\ t \in CommandTurns /\ ~Over(s) /\ ~RunsExclusive(s) /\ UNCHANGED <<exclusiveSlot, loadedTools>>
  BY DEF BeginCommand, Over, RunsExclusive
<1>1. Underway(t, s) /\ s \in TurnRecord /\ RequestsByPlace(t, s) /\ QueueByPlace(t, s)
  BY <1>0, TurnUnderway
<1>2. CASE s.stopped
  <2>1. Become(t, Ended(s, "failed", "cancelled"))
    BY <1>2 DEF BeginCommand
  <2> QED BY <1>0, <1>2, <2>1, EndedStep DEF Kinds, Codes
<1>3. CASE ~s.stopped
  <2>1. PICK tool \in CommandTools : Become(t, [s EXCEPT !.pc = "tool", !.visible = {tool}, !.queue = <<tool>>])
    BY <1>3 DEF BeginCommand
  <2> DEFINE x == [s EXCEPT !.pc = "tool", !.visible = {tool}, !.queue = <<tool>>]
  <2>2. x \in TurnRecord
    <3>1. tool \in AgentTools /\ <<tool>> \in Seq(AgentTools) /\ "tool" \in Places
      BY AgentAssumption DEF AgentTools, Places
    <3> QED BY <1>1, <3>1 DEF TurnRecord
  <2>3. /\ x.pc = "tool" /\ x.requests = s.requests /\ x.unpaid = s.unpaid /\ x.step = s.step /\ x.repair = s.repair
        /\ x.queue = <<tool>> /\ x.results = s.results
        /\ x.outcome = s.outcome /\ x.remembered = s.remembered /\ x.sent = s.sent
    BY <1>1 DEF TurnRecord
  <2>4. Become(t, x)
    BY <2>1
  <2> HIDE DEF x
  <2>5. Underway(t, x)
    BY <1>1, <2>2, <2>3 DEF Underway
  <2>6. RequestsByPlace(t, x)
    <3>1. s.requests = 0 /\ s.repair = 0 /\ s.step \in Nat
      BY <1>0, <1>1 DEF RequestsByPlace, TurnRecord
    <3> QED BY <2>3, <3>1 DEF RequestsByPlace
  <2>7. QueueByPlace(t, x) /\ ~Over(x) /\ ~RunsExclusive(x)
    <3>1. s.results = 0 /\ <<tool>> # <<>>
      BY <1>0, <1>1 DEF RequestsByPlace
    <3> QED BY <1>0, <2>3, <3>1 DEF QueueByPlace, Over, RunsExclusive
  <2> QED BY <1>0, <2>4, <2>5, <2>6, <2>7, UnderwayStep
<1> QED BY <1>2, <1>3

LEMMA StartToolOK ==
  ASSUME AgentInv, NEW t \in Turns, StartTool(t)
  PROVE  AgentInv' /\ Silent
<1> DEFINE s == turn[t]
<1> DEFINE tool == Head(s.queue)
<1> DEFINE x == [s EXCEPT !.calls = @ + 1, !.pc = IF tool \in ExclusiveTools THEN "slot" ELSE "running"]
<1>0. s.pc = "tool" /\ ~Over(s) /\ ~RunsExclusive(s) /\ UNCHANGED <<exclusiveSlot, loadedTools>>
  BY DEF StartTool, Over, RunsExclusive
<1>1. Underway(t, s) /\ s \in TurnRecord /\ RequestsByPlace(t, s) /\ QueueByPlace(t, s)
  BY <1>0, TurnUnderway
<1>2. CASE Become(t, Ended(s, "failed", "before_hook"))
  BY <1>0, <1>2, EndedStep DEF Kinds, Codes
<1>3. ASSUME NEW code, AfterCall(t, code, "none")
      PROVE  AgentInv' /\ Silent
  <2>1. exclusiveSlot' = SlotAfter(t, code)
    BY <1>0, SlotKept
  <2> QED BY <1>0, <1>3, <2>1, AfterCallOK DEF CallPlaces
<1>4. CASE "none" \in Refusals(s, tool) /\ Become(t, x)
  <2>1. s.calls < MaxToolCalls /\ s.calls \in Nat /\ MaxToolCalls \in Nat
    <3>1. s.calls \in Nat /\ MaxToolCalls \in Nat
      BY <1>1, AgentAssumption DEF TurnRecord
    <3>2. ~(s.calls >= MaxToolCalls)
      BY <1>4 DEF Refusals
    <3> QED BY <3>1, <3>2
  <2>2. x \in TurnRecord
    <3>1. (IF tool \in ExclusiveTools THEN "slot" ELSE "running") \in Places
      BY DEF Places
    <3>2. s.calls + 1 \in 0..MaxToolCalls
      BY <2>1
    <3> QED BY <1>1, <3>1, <3>2 DEF TurnRecord
  <2>3. /\ x.pc = (IF tool \in ExclusiveTools THEN "slot" ELSE "running")
        /\ x.requests = s.requests /\ x.unpaid = s.unpaid /\ x.step = s.step /\ x.repair = s.repair
        /\ x.queue = s.queue /\ x.unanswered = s.unanswered /\ x.results = s.results
        /\ x.outcome = s.outcome /\ x.remembered = s.remembered /\ x.sent = s.sent
    BY <1>1 DEF TurnRecord
  <2> HIDE DEF x
  <2>4. Underway(t, x)
    BY <1>1, <2>2, <2>3 DEF Underway
  <2>5. RequestsByPlace(t, x)
    BY <1>0, <1>1, <2>3 DEF RequestsByPlace
  <2>6. QueueByPlace(t, x) /\ ~Over(x) /\ ~RunsExclusive(x)
    BY <1>0, <1>1, <2>3 DEF QueueByPlace, Over, RunsExclusive
  <2> QED BY <1>0, <1>4, <2>4, <2>5, <2>6, UnderwayStep
<1> QED BY <1>2, <1>3, <1>4 DEF StartTool

LEMMA TakeSlotOK ==
  ASSUME AgentInv, NEW t \in Turns, TakeSlot(t)
  PROVE  AgentInv' /\ Silent
<1> DEFINE s == turn[t]
<1> DEFINE x == [s EXCEPT !.pc = "running"]
<1>0. s.pc = "slot" /\ ~Over(s) /\ exclusiveSlot = FreeSlot /\ exclusiveSlot' = t /\ UNCHANGED loadedTools /\ Become(t, x)
  BY DEF TakeSlot, Over
<1>1. Underway(t, s) /\ s \in TurnRecord /\ RequestsByPlace(t, s) /\ QueueByPlace(t, s)
  BY <1>0, TurnUnderway
<1>2. x \in TurnRecord
  <2>1. "running" \in Places
    BY DEF Places
  <2> QED BY <1>1, <2>1 DEF TurnRecord
<1>3. /\ x.pc = "running" /\ x.requests = s.requests /\ x.unpaid = s.unpaid /\ x.step = s.step /\ x.repair = s.repair
      /\ x.queue = s.queue /\ x.unanswered = s.unanswered /\ x.results = s.results
      /\ x.outcome = s.outcome /\ x.remembered = s.remembered /\ x.sent = s.sent
  BY <1>1 DEF TurnRecord
<1> HIDE DEF x
<1>4. Underway(t, x)
  BY <1>1, <1>2, <1>3 DEF Underway
<1>5. RequestsByPlace(t, x)
  BY <1>0, <1>1, <1>3 DEF RequestsByPlace
<1>6. QueueByPlace(t, x) /\ ~Over(x) /\ RunsExclusive(x)
  BY <1>0, <1>1, <1>3 DEF QueueByPlace, Over, RunsExclusive
<1>7. TurnOK(t, x)
  BY <1>4, <1>5, <1>6, UnderwayOK
<1>8. turn' = [u \in Turns |-> IF u = t THEN x ELSE turn[u]]
  BY <1>0 DEF AgentInv, TurnsOK, Become
<1>9. turn'[t] = x /\ \A u \in Turns \ {t} : turn'[u] = turn[u]
  BY <1>8
<1>10. TurnsOK'
  BY <1>0, <1>7, <1>8, <1>9 DEF AgentInv, TurnsOK
<1>11. SlotIsHeldByItsTool'
  <2>1. FreeSlot \notin Turns
    BY AgentAssumption DEF FreeSlot
  <2>2. \A u \in Turns \ {t} : exclusiveSlot # u /\ exclusiveSlot' # u
    BY <1>0, <2>1
  <2> QED BY <1>0, <1>6, <1>9, <2>2 DEF AgentInv, SlotIsHeldByItsTool, RunsExclusive
<1> QED BY <1>3, <1>9, <1>10, <1>11 DEF AgentInv, Silent

LEMMA GiveUpSlotOK ==
  ASSUME AgentInv, NEW t \in Turns, GiveUpSlot(t)
  PROVE  AgentInv' /\ Silent
<1> DEFINE code == IF turn[t].stopped THEN "cancelled" ELSE "timeout"
<1>1. turn[t].pc = "slot" /\ AfterCall(t, code, "none") /\ UNCHANGED <<exclusiveSlot, loadedTools>>
  BY DEF GiveUpSlot
<1> HIDE DEF code
<1>2. exclusiveSlot' = SlotAfter(t, code)
  BY <1>1, SlotKept DEF RunsExclusive
<1> QED BY <1>1, <1>2, AfterCallOK DEF CallPlaces

LEMMA FinishToolOK ==
  ASSUME AgentInv, NEW t \in Turns, FinishTool(t)
  PROVE  AgentInv' /\ Silent
<1>1. turn[t].pc = "running" /\ UNCHANGED loadedTools
  BY DEF FinishTool
<1>2. PICK result : AfterCall(t, result[1], result[2]) /\ exclusiveSlot' = SlotAfter(t, result[1])
  BY Zenon DEF FinishTool
<1> QED BY <1>1, <1>2, AfterCallOK DEF CallPlaces

-----------------------------------------------------------------------------
(* The end of the turn *)

LEMMA UseOutcomeOK ==
  ASSUME AgentInv, NEW t \in Turns, UseOutcome(t)
  PROVE  AgentInv' /\ Silent
<1> DEFINE s == turn[t]
<1> DEFINE silent == \/ s.outcome.kind = "stopped"
                     \/ s.outcome.kind = "failed" /\ (s.stopped \/ s.outcome.code \in {"cancelled", "deadline"})
<1> DEFINE x == [s EXCEPT !.pc = "closed"]
<1> DEFINE y == [s EXCEPT !.pc = "send", !.remembered = s.outcome.kind # "failed" /\ t \notin CommandTurns]
<1>0. s.pc = "outcome" /\ ~RunsExclusive(s) /\ UNCHANGED <<exclusiveSlot, loadedTools>>
  BY DEF UseOutcome, RunsExclusive
<1>1. TurnOK(t, s) /\ s \in TurnRecord
  BY DEF AgentInv, TurnsOK, TurnOK
<1>2. {"closed", "send"} \subseteq Places
  BY DEF Places
<1>3. CASE silent
  <2>1. Become(t, x)
    BY <1>3 DEF UseOutcome
  <2>2. x \in TurnRecord
    BY <1>1, <1>2 DEF TurnRecord
  <2>3. /\ x.pc = "closed" /\ x.requests = s.requests /\ x.unpaid = s.unpaid /\ x.results = s.results /\ x.stopped = s.stopped
        /\ x.outcome = s.outcome /\ x.remembered = s.remembered /\ x.sent = s.sent
    BY <1>1 DEF TurnRecord
  <2> HIDE DEF x
  <2>4. OutcomeOK(x) /\ EndByPlace(t, x)
    BY <1>0, <1>1, <1>3, <2>3 DEF TurnOK, OutcomeOK, EndByPlace
  <2>5. RequestsByPlace(t, x) /\ QueueByPlace(t, x) /\ Over(x) /\ ~RunsExclusive(x)
    BY <2>3 DEF RequestsByPlace, QueueByPlace, Over, RunsExclusive
  <2>6. TurnOK(t, x)
    BY <1>1, <2>2, <2>3, <2>4, <2>5 DEF TurnOK
  <2> QED BY <1>0, <2>1, <2>3, <2>5, <2>6, BecomeOK
<1>4. CASE ~silent
  <2>1. Become(t, y)
    BY <1>4 DEF UseOutcome
  <2>2. y \in TurnRecord
    BY <1>1, <1>2 DEF TurnRecord
  <2>3. /\ y.pc = "send" /\ y.requests = s.requests /\ y.unpaid = s.unpaid /\ y.results = s.results /\ y.stopped = s.stopped
        /\ y.outcome = s.outcome /\ y.remembered = (s.outcome.kind # "failed" /\ t \notin CommandTurns) /\ y.sent = s.sent
    BY <1>1 DEF TurnRecord
  <2> HIDE DEF y
  <2>4. OutcomeOK(y) /\ EndByPlace(t, y)
    BY <1>0, <1>1, <1>4, <2>3 DEF TurnOK, OutcomeOK, EndByPlace
  <2>5. RequestsByPlace(t, y) /\ QueueByPlace(t, y) /\ Over(y) /\ ~RunsExclusive(y)
    BY <2>3 DEF RequestsByPlace, QueueByPlace, Over, RunsExclusive
  <2>6. TurnOK(t, y)
    BY <1>1, <2>2, <2>3, <2>4, <2>5 DEF TurnOK
  <2> QED BY <1>0, <2>1, <2>3, <2>5, <2>6, BecomeOK
<1> QED BY <1>3, <1>4

LEMMA SendReplyOK ==
  ASSUME AgentInv, NEW t \in Turns, SendReply(t)
  PROVE  AgentInv' /\ Silent
<1> DEFINE s == turn[t]
<1> DEFINE word == IF s.stopped THEN "none" ELSE IF s.outcome.kind = "failed" THEN "failure" ELSE "answer"
<1> DEFINE x == [s EXCEPT !.pc = "closed", !.sent = word]
<1>0. s.pc = "send" /\ ~RunsExclusive(s) /\ UNCHANGED <<exclusiveSlot, loadedTools>> /\ Become(t, x)
  BY DEF SendReply, RunsExclusive
<1>1. TurnOK(t, s) /\ s \in TurnRecord
  BY DEF AgentInv, TurnsOK, TurnOK
<1>2. x \in TurnRecord
  <2>1. "closed" \in Places /\ word \in {"none", "answer", "failure"}
    BY DEF Places
  <2> QED BY <1>1, <2>1 DEF TurnRecord
<1>3. /\ x.pc = "closed" /\ x.requests = s.requests /\ x.unpaid = s.unpaid /\ x.results = s.results /\ x.stopped = s.stopped
      /\ x.outcome = s.outcome /\ x.remembered = s.remembered /\ x.sent = word
  BY <1>1 DEF TurnRecord
<1> HIDE DEF x
<1>4. OutcomeOK(x) /\ EndByPlace(t, x)
  BY <1>0, <1>1, <1>3 DEF TurnOK, OutcomeOK, EndByPlace
<1>5. RequestsByPlace(t, x) /\ QueueByPlace(t, x) /\ Over(x) /\ ~RunsExclusive(x)
  BY <1>3 DEF RequestsByPlace, QueueByPlace, Over, RunsExclusive
<1>6. TurnOK(t, x)
  BY <1>1, <1>2, <1>3, <1>4, <1>5 DEF TurnOK
<1>7. s.stopped => x.sent = s.sent
  BY <1>0, <1>1, <1>3 DEF TurnOK, EndByPlace
<1> QED BY <1>0, <1>5, <1>6, <1>7, BecomeOK

LEMMA StopTurnOK ==
  ASSUME AgentInv, NEW t \in Turns, StopTurn(t)
  PROVE  AgentInv' /\ Silent
<1> DEFINE s == turn[t]
<1> DEFINE x == [s EXCEPT !.stopped = TRUE]
<1>0. s.pc # "closed" /\ ~s.stopped /\ UNCHANGED <<exclusiveSlot, loadedTools>> /\ Become(t, x)
  BY DEF StopTurn
<1>1. TurnOK(t, s) /\ s \in TurnRecord
  BY DEF AgentInv, TurnsOK, TurnOK
<1>2. x \in TurnRecord
  BY <1>1 DEF TurnRecord
<1>3. /\ x.pc = s.pc /\ x.requests = s.requests /\ x.unpaid = s.unpaid /\ x.results = s.results /\ x.stopped = TRUE
      /\ x.outcome = s.outcome /\ x.remembered = s.remembered /\ x.sent = s.sent /\ x.step = s.step /\ x.repair = s.repair
      /\ x.queue = s.queue /\ x.unanswered = s.unanswered
  BY <1>1 DEF TurnRecord
<1> HIDE DEF x
<1>4. OutcomeOK(x) /\ EndByPlace(t, x) /\ (Over(x) <=> Over(s)) /\ (RunsExclusive(x) <=> RunsExclusive(s))
  BY <1>0, <1>1, <1>3 DEF TurnOK, OutcomeOK, EndByPlace, Over, RunsExclusive
<1>5. RequestsByPlace(t, x) /\ QueueByPlace(t, x)
  BY <1>1, <1>3 DEF RequestsByPlace, QueueByPlace, TurnOK
<1>6. ~Over(x) => Underway(t, x)
  BY <1>1, <1>2, <1>3, <1>4 DEF TurnOK, Underway
<1>7. TurnOK(t, x)
  BY <1>1, <1>2, <1>3, <1>4, <1>5, <1>6 DEF TurnOK
<1> QED BY <1>0, <1>3, <1>4, <1>7, BecomeOK

LEMMA AgentNextOK ==
  ASSUME AgentInv, [AgentNext]_agentVars
  PROVE  AgentInv' /\ Silent
<1>1. ASSUME NEW t \in Turns, AgentStep(t)
      PROVE  AgentInv' /\ Silent
  BY <1>1, BeginTurnOK, BeginCommandOK, AskModelOK, ModelFailsOK, MalformedOK, DecideOK, StartToolOK, TakeSlotOK,
     GiveUpSlotOK, FinishToolOK, ReplyAnsweredOK, UseOutcomeOK, SendReplyOK DEF AgentStep
<1>2. CASE PluginsChange
  BY <1>2 DEF PluginsChange, AgentInv, TurnsOK, SlotIsHeldByItsTool, Silent
<1>3. CASE UNCHANGED agentVars
  BY <1>3 DEF agentVars, AgentInv, TurnsOK, SlotIsHeldByItsTool, Silent
<1> QED BY <1>1, <1>2, <1>3, StopTurnOK DEF AgentNext

LEMMA AgentInitOK == AgentInit => AgentInv
<1> SUFFICES ASSUME AgentInit PROVE AgentInv
  OBVIOUS
<1>1. NewTurn \in TurnRecord
  <2>1. Ongoing \in [kind : Kinds, code : Codes, whileStopped : BOOLEAN]
    BY DEF Ongoing, Kinds, Codes
  <2>2. "new" \in Places /\ 1 \in 1..MaxPlannerSteps /\ 0 \in 0..MaxToolCalls /\ <<>> \in Seq(AgentTools) /\ {} \in SUBSET AgentTools
    BY AgentAssumption DEF Places
  <2> QED BY <2>1, <2>2, RepairRange DEF NewTurn, TurnRecord
<1>2. ASSUME NEW t \in Turns
      PROVE  TurnOK(t, NewTurn)
  <2>1. Underway(t, NewTurn)
    BY <1>1 DEF Underway, NewTurn
  <2>2. RequestsByPlace(t, NewTurn) /\ QueueByPlace(t, NewTurn) /\ ~Over(NewTurn)
    BY DEF RequestsByPlace, QueueByPlace, Over, NewTurn
  <2> QED BY <2>1, <2>2, UnderwayOK
<1>3. SlotIsHeldByItsTool
  <2>1. \A t \in Turns : turn[t].pc = "new"
    BY DEF AgentInit, NewTurn
  <2>2. \A t \in Turns : exclusiveSlot # t
    BY AgentAssumption DEF AgentInit, FreeSlot
  <2> QED BY <2>1, <2>2 DEF SlotIsHeldByItsTool
<1> QED BY <1>2, <1>3 DEF AgentInit, AgentInv, TurnsOK

-----------------------------------------------------------------------------
(* The theorems *)

\* Run, complete and ToolRuntime.exclusive: every request of a turn is
\* reserved and there are at most two for each step and the reply, the model
\* is asked only with a complete transcript, and the slot of the exclusive
\* tools is held exactly by the turn that runs one.
THEOREM TurnsStayAccounted == AgentSpec => []TurnsAreAccounted
<1>1. AgentInv /\ [AgentNext]_agentVars => AgentInv'
  BY AgentNextOK
<1>2. AgentInv => TurnsAreAccounted
  BY InvImplies
<1> QED BY AgentInitOK, <1>1, <1>2, PTL DEF AgentSpec

\* fallbackToToolResults and HandleMessage: what a tool has found for the user
\* is never replaced by an error, and a turn that nobody stopped is answered.
THEOREM TurnsReachTheUser == AgentSpec => []AnswersReachTheUser
<1>1. AgentInv /\ [AgentNext]_agentVars => AgentInv'
  BY AgentNextOK
<1>2. AgentInv => AnswersReachTheUser
  BY InvImplies
<1> QED BY AgentInitOK, <1>1, <1>2, PTL DEF AgentSpec

\* Engine.reply: no step sends anything for a turn that is already stopped.
THEOREM StoppedTurnsStaySilent == AgentSpec => StoppedTurnsAreSilent
<1>1. AgentInv /\ [AgentNext]_agentVars => AgentInv'
  BY AgentNextOK
<1>2. AgentInv /\ [AgentNext]_agentVars => [\A t \in Turns : turn[t].stopped => turn'[t].sent = turn[t].sent]_agentVars
  BY AgentNextOK DEF Silent
<1> QED BY AgentInitOK, <1>1, <1>2, PTL DEF AgentSpec, StoppedTurnsAreSilent
=============================================================================
