-------------------- MODULE ConversationSchedulerProofs --------------------
(***************************************************************************)
(* Theorems about ConversationScheduler, for every set of conversations,   *)
(* events and actors and every admissible value of the limits.             *)
(***************************************************************************)
EXTENDS ConversationScheduler, FiniteSetTheorems, FunctionTheorems, SequenceTheorems, TLAPS

\* Putting a turn into a queue record yields a queue record.
LEMMA EnqueuedType ==
  ASSUME NEW q \in QueueRecord, NEW e \in Events
  PROVE  Enqueued(q, e) \in QueueRecord
<1>1. <<e>> \o q.items \in Seq(Events) /\ Append(q.items, e) \in Seq(Events)
  BY DEF QueueRecord
<1>2. [q EXCEPT !.items = <<e>> \o @, !.controlQueued = TRUE, !.running = TRUE] \in QueueRecord
  BY <1>1 DEF QueueRecord
<1>3. [q EXCEPT !.items = Append(@, e), !.running = TRUE] \in QueueRecord
  BY <1>1 DEF QueueRecord
<1> QED BY <1>2, <1>3 DEF Enqueued

\* Cancelling an actor's context changes at most its cause.
LEMMA CancelledType ==
  ASSUME NEW x \in ActorRecord, NEW c, NEW cause \in Causes
  PROVE  /\ Cancelled(x, c, cause) \in ActorRecord
         /\ Cancelled(x, c, cause).pc = x.pc
         /\ Cancelled(x, c, cause).conversation = x.conversation
         /\ Cancelled(x, c, cause).event = x.event
  BY DEF Cancelled, ActorRecord

\* What Step does to the table of goroutines.
LEMMA StepType ==
  ASSUME TypeOK, NEW a \in Actors, actors[a].pc # "idle",
         NEW pc \in Serving \cup {"release"}, Step(a, pc)
  PROVE  /\ actors' \in [Actors -> ActorRecord]
         /\ actors'[a] = [actors[a] EXCEPT !.pc = pc]
         /\ \A b \in Actors : actors'[b].pc # "idle" => actors'[b].conversation \in Conversations
<1>1. /\ actors[a] \in ActorRecord
      /\ actors' = [actors EXCEPT ![a] = [actors[a] EXCEPT !.pc = pc]]
  BY DEF TypeOK, Step
<1>2. [actors[a] EXCEPT !.pc = pc] \in ActorRecord
  BY <1>1 DEF ActorRecord
<1>3. [actors[a] EXCEPT !.pc = pc].conversation = actors[a].conversation
  BY <1>1 DEF ActorRecord
<1> QED BY <1>1, <1>2, <1>3 DEF TypeOK

\* Submit may write every variable but the lifecycle, so its typing is a lemma.
LEMMA SubmitType ==
  ASSUME TypeOK, NEW e \in Events, Submit(e)
  PROVE  TypeOK'
<1> DEFINE c == ConversationOf[e]
<1>1. c \in Conversations /\ e # None
  BY EventAssumption
<1>2. queues' \in [Conversations -> QueueRecord]
  <2>1. Enqueued(queues[c], e) \in QueueRecord
    BY <1>1, EnqueuedType DEF TypeOK
  <2> QED BY <1>1, <2>1 DEF Submit, TypeOK
<1>3. Interrupted(e) \in [Actors -> ActorRecord]
  <2>1. \A a \in Actors : Cancelled(actors[a], c, "stopped") \in ActorRecord
    BY CancelledType DEF TypeOK, Causes
  <2> QED BY <2>1 DEF Interrupted, TypeOK
<1>4. [IdleActor EXCEPT !.pc = "acquire", !.conversation = c] \in ActorRecord
  BY <1>1 DEF IdleActor, ActorRecord, Serving, Causes
<1>5. /\ actors' \in [Actors -> ActorRecord]
      /\ \A b \in Actors : actors'[b].pc # "idle" => actors'[b].conversation \in Conversations
  <2>1. \A b \in Actors : /\ Interrupted(e)[b].pc = actors[b].pc
                          /\ Interrupted(e)[b].conversation = actors[b].conversation
    BY CancelledType DEF Interrupted, TypeOK, Causes
  <2>2. [IdleActor EXCEPT !.pc = "acquire", !.conversation = c].conversation = c
    BY DEF IdleActor
  <2> QED BY <1>1, <1>3, <1>4, <2>1, <2>2 DEF Submit, TypeOK
<1>6. claimed' \subseteq Events /\ reserved' \subseteq Events
  BY DEF Submit, Claim, TypeOK
<1>7. admitted' \in [Conversations -> Seq(Events)]
  BY <1>1 DEF Submit, TypeOK
<1>8. pending' \in Int
  BY DEF Submit, TypeOK
<1> QED BY <1>2, <1>5, <1>6, <1>7, <1>8 DEF Submit, TypeOK

-----------------------------------------------------------------------------
\* The type invariant of the scheduler: every operation leaves each variable
\* in the set of values its Go type allows, and runs stays within its cap.
THEOREM TypeCorrect == Spec => []TypeOK
<1>1. Init => TypeOK
  <2>1. NoQueue \in QueueRecord /\ IdleActor \in ActorRecord
    BY DEF NoQueue, QueueRecord, IdleActor, ActorRecord, Causes
  <2>2. IdleActor.pc = "idle"
    BY DEF IdleActor
  <2> QED BY <2>1, <2>2 DEF Init, TypeOK
<1>2. TypeOK /\ [Next]_vars => TypeOK'
  <2> SUFFICES ASSUME TypeOK, [Next]_vars PROVE TypeOK'
    OBVIOUS
  <2>0. NoQueue \in QueueRecord /\ IdleActor \in ActorRecord
    BY DEF NoQueue, QueueRecord, IdleActor, ActorRecord, Causes
  <2>1. ASSUME NEW e \in Events, Submit(e) PROVE TypeOK'
    BY <2>1, SubmitType
  <2>2. ASSUME NEW c \in Conversations, Cancel(c) PROVE TypeOK'
    <3>1. \A a \in Actors :
             LET x == Cancelled(actors[a], c, "cancelled")
             IN  x \in ActorRecord /\ x.pc = actors[a].pc /\ x.conversation = actors[a].conversation
      BY CancelledType DEF Causes, TypeOK
    <3> QED BY <2>2, <3>1 DEF Cancel, history, TypeOK
  <2>3. ASSUME NEW a \in Actors, AcquireSlot(a) PROVE TypeOK'
    <3>1. actors[a].pc # "idle" /\ "loop" \in Serving /\ Step(a, "loop")
      BY <2>3 DEF AcquireSlot, Serving
    <3>2. /\ actors' \in [Actors -> ActorRecord]
          /\ \A b \in Actors : actors'[b].pc # "idle" => actors'[b].conversation \in Conversations
      BY <3>1, StepType
    <3> QED BY <2>3, <3>2 DEF AcquireSlot, history, TypeOK
  <2>4. ASSUME NEW a \in Actors, DiscardQueue(a) PROVE TypeOK'
    <3>1. Len(queues[actors[a].conversation].items) \in Int
      BY <2>4 DEF DiscardQueue, TypeOK, QueueRecord
    <3>2. IdleActor.pc = "idle"
      BY DEF IdleActor
    <3> QED BY <2>0, <2>4, <3>1, <3>2 DEF DiscardQueue, DropQueue, history, TypeOK
  <2>5. ASSUME NEW a \in Actors, LeaveQueue(a) PROVE TypeOK'
    <3>1. Len(queues[actors[a].conversation].items) \in Int
      BY <2>5 DEF LeaveQueue, TypeOK, QueueRecord
    <3>2. /\ actors' \in [Actors -> ActorRecord]
          /\ \A b \in Actors : actors'[b].pc # "idle" => actors'[b].conversation \in Conversations
      BY <2>5, StepType DEF LeaveQueue
    <3> QED BY <2>0, <2>5, <3>1, <3>2 DEF LeaveQueue, DropQueue, history, TypeOK
  <2>6. ASSUME NEW a \in Actors, NextTurn(a) PROVE TypeOK'
    <3> DEFINE c == actors[a].conversation
               q == queues[c]
               e == Head(q.items)
               q2 == Dequeued(q)
               x2 == [actors[a] EXCEPT !.pc = "run", !.event = e, !.cause = "none"]
    <3>1. c \in Conversations /\ q \in QueueRecord /\ actors[a] \in ActorRecord
      BY <2>6 DEF NextTurn, TypeOK
    <3>2. q.items \in Seq(Events) /\ q.items # <<>>
      BY <2>6, <3>1 DEF NextTurn, QueueRecord
    <3>3. e \in Events /\ Tail(q.items) \in Seq(Events)
      BY <3>2
    <3>4. q2 \in QueueRecord /\ x2 \in ActorRecord /\ x2.conversation = c
      BY <3>1, <3>3 DEF Dequeued, QueueRecord, ActorRecord, Serving, Causes
    <3>5. queues' = [queues EXCEPT ![c] = q2]
      BY <2>6 DEF NextTurn
    <3>6. actors' = [actors EXCEPT ![a] = x2]
      BY <2>6 DEF NextTurn
    <3>7. begun' \in [Conversations -> Seq(Events)] /\ runs' \in [Events -> 0..2]
      <4>1. begun' = IF e \in Normal THEN [begun EXCEPT ![c] = Append(@, e)] ELSE begun
        BY <2>6 DEF NextTurn
      <4>2. runs' = [runs EXCEPT ![e] = IF @ < 2 THEN @ + 1 ELSE @]
        BY <2>6 DEF NextTurn
      <4>3. begun' \in [Conversations -> Seq(Events)]
        BY <4>1, <3>1, <3>3 DEF TypeOK
      <4>4. runs' \in [Events -> 0..2]
        BY <4>2, <3>3 DEF TypeOK
      <4> QED BY <4>3, <4>4
    <3>8. pending' \in Int
      BY <2>6 DEF NextTurn, TypeOK
    <3>9. /\ queues' \in [Conversations -> QueueRecord] /\ actors' \in [Actors -> ActorRecord]
          /\ \A b \in Actors : actors'[b].pc # "idle" => actors'[b].conversation \in Conversations
      BY <3>1, <3>4, <3>5, <3>6 DEF TypeOK
    <3> QED BY <2>6, <3>7, <3>8, <3>9 DEF NextTurn, TypeOK
  <2>7. ASSUME NEW a \in Actors, TurnTimeout(a) PROVE TypeOK'
    <3>1. actors[a] \in ActorRecord
      BY DEF TypeOK
    <3>2. /\ [actors[a] EXCEPT !.cause = "deadline"] \in ActorRecord
          /\ [actors[a] EXCEPT !.cause = "deadline"].pc = actors[a].pc
          /\ [actors[a] EXCEPT !.cause = "deadline"].conversation = actors[a].conversation
      BY <3>1 DEF ActorRecord, Causes
    <3>3. actors' = [actors EXCEPT ![a] = [actors[a] EXCEPT !.cause = "deadline"]]
      BY <2>7 DEF TurnTimeout
    <3> QED BY <2>7, <3>2, <3>3 DEF TurnTimeout, history, TypeOK
  <2>8. ASSUME NEW a \in Actors, TurnReturns(a) PROVE TypeOK'
    <3>1. actors[a].pc # "idle" /\ "returned" \in Serving /\ Step(a, "returned")
      BY <2>8 DEF TurnReturns, Serving
    <3>2. /\ actors' \in [Actors -> ActorRecord]
          /\ \A b \in Actors : actors'[b].pc # "idle" => actors'[b].conversation \in Conversations
      BY <3>1, StepType
    <3> QED BY <2>8, <3>2 DEF TurnReturns, history, TypeOK
  <2>9. ASSUME NEW a \in Actors, Finish(a) PROVE TypeOK'
    <3> DEFINE c == actors[a].conversation
               x2 == [actors[a] EXCEPT !.pc = "loop", !.event = None, !.cause = "none"]
    <3>1. c \in Conversations /\ queues[c] \in QueueRecord /\ actors[a] \in ActorRecord
      BY <2>9 DEF Finish, TypeOK
    <3>2. [queues[c] EXCEPT !.current = FALSE] \in QueueRecord /\ x2 \in ActorRecord /\ x2.conversation = c
      BY <3>1 DEF QueueRecord, ActorRecord, Serving, Causes
    <3>3. queues' = [queues EXCEPT ![c] = [queues[c] EXCEPT !.current = FALSE]]
      BY <2>9 DEF Finish
    <3>4. actors' = [actors EXCEPT ![a] = x2]
      BY <2>9 DEF Finish
    <3>5. /\ queues' \in [Conversations -> QueueRecord] /\ actors' \in [Actors -> ActorRecord]
          /\ \A b \in Actors : actors'[b].pc # "idle" => actors'[b].conversation \in Conversations
      BY <3>1, <3>2, <3>3, <3>4 DEF TypeOK
    <3> QED BY <2>9, <3>5 DEF Finish, history, TypeOK
  <2>10. ASSUME NEW a \in Actors, ReleaseSlot(a) PROVE TypeOK'
    <3>1. IdleActor.pc = "idle"
      BY DEF IdleActor
    <3> QED BY <2>0, <2>10, <3>1 DEF ReleaseSlot, history, TypeOK
  <2>11. CASE BeginShutdown
    BY <2>11 DEF BeginShutdown, history, TypeOK
  <2>12. CASE DrainTimeout
    BY <2>12, CancelledType, SMTT(30) DEF DrainTimeout, history, TypeOK, Causes
  <2>13. CASE ShutdownReturns
    BY <2>13 DEF ShutdownReturns, history, TypeOK
  <2>14. CASE Restart
    <3>1. IdleActor.pc = "idle"
      BY DEF IdleActor
    <3> QED BY <2>0, <2>14, <3>1 DEF Restart, TypeOK
  <2>15. CASE UNCHANGED vars
    BY <2>15 DEF vars, TypeOK
  <2> QED
    BY <2>1, <2>2, <2>3, <2>4, <2>5, <2>6, <2>7, <2>8, <2>9, <2>10, <2>11, <2>12,
       <2>13, <2>14, <2>15 DEF Next, ActorStep
<1> QED BY <1>1, <1>2, PTL DEF Spec

-----------------------------------------------------------------------------
\* The strengthening that makes the single-actor discipline inductive: the
\* queue records and the goroutine table agree, and a waiting stop command is
\* the head of its queue.
SchedulerInv == OneActorPerQueue /\ StopIsNext /\ QueuesBounded

\* A step that leaves the queues alone, changes neither who serves a queue nor
\* whose turn is under way, and revokes no cancellation, keeps the invariant.
LEMMA SameServing ==
  ASSUME SchedulerInv, queues' = queues,
         \A b \in Actors : \A c \in Conversations :
            /\ Serves(b, c)' <=> Serves(b, c)
            /\ (Serves(b, c) /\ actors[b].pc \in InTurn)' <=> (Serves(b, c) /\ actors[b].pc \in InTurn)
            /\ (Serves(b, c) /\ actors[b].pc \in InTurn)' /\ actors[b].cause # "none"
                  => actors'[b].cause # "none"
  PROVE  SchedulerInv'
<1>1. OneActorPerQueue'
  BY DEF SchedulerInv, OneActorPerQueue
<1>2. StopIsNext'
  BY DEF SchedulerInv, StopIsNext
<1>3. QueuesBounded'
  BY DEF SchedulerInv, QueuesBounded
<1> QED BY <1>1, <1>2, <1>3 DEF SchedulerInv

\* An actor that leaves its conversation takes the queue with it.
LEMMA LeavingKeepsInv ==
  ASSUME SchedulerInv, TypeOK, NEW a \in Actors, actors[a].pc \in {"acquire", "loop"},
         queues' = [queues EXCEPT ![actors[a].conversation] = NoQueue],
         actors'[a].pc \notin Serving,
         \A b \in Actors \ {a} : actors'[b] = actors[b]
  PROVE  SchedulerInv'
<1>0. PICK c \in Conversations : c = actors[a].conversation
  BY DEF TypeOK
<1>1. Serves(a, c)
  BY <1>0 DEF Serves, Serving
<1>2. \A b \in Actors : ~Serves(b, c)'
  <2>1. ~Serves(a, c)'
    BY DEF Serves
  <2>2. ASSUME NEW b \in Actors \ {a} PROVE ~Serves(b, c)'
    <3>1. ~Serves(b, c)
      BY <1>1 DEF SchedulerInv, OneActorPerQueue
    <3> QED BY <3>1 DEF Serves
  <2> QED BY <2>1, <2>2
<1>3. \A b \in Actors : \A d \in Conversations \ {c} :
         /\ Serves(b, d)' <=> Serves(b, d)
         /\ (Serves(b, d) /\ actors[b].pc \in InTurn)' <=> (Serves(b, d) /\ actors[b].pc \in InTurn)
         /\ Serves(b, d)' => actors'[b].cause = actors[b].cause
  BY <1>0, <1>1 DEF Serves
<1>4. queues'[c] = NoQueue /\ \A d \in Conversations \ {c} : queues'[d] = queues[d]
  BY <1>0 DEF TypeOK
<1>5. NoQueue.running = FALSE /\ NoQueue.current = FALSE /\ NoQueue.controlQueued = FALSE
      /\ Len(NoQueue.items) = 0
  BY DEF NoQueue
<1>6. OneActorPerQueue'
  <2> SUFFICES ASSUME NEW d \in Conversations
               PROVE  /\ \A x, y \in Actors : Serves(x, d)' /\ Serves(y, d)' => x = y
                      /\ queues'[d].running <=> \E x \in Actors : Serves(x, d)'
                      /\ queues'[d].current <=> \E x \in Actors : (Serves(x, d) /\ actors[x].pc \in InTurn)'
                      /\ ~queues'[d].running => queues'[d] = NoQueue
    BY DEF OneActorPerQueue
  <2>1. CASE d = c
    BY <1>2, <1>4, <1>5, <2>1
  <2>2. CASE d # c
    BY <1>3, <1>4, <2>2 DEF SchedulerInv, OneActorPerQueue
  <2> QED BY <2>1, <2>2
<1>7. StopIsNext'
  BY <1>3, <1>4, <1>5 DEF SchedulerInv, StopIsNext
<1>8. QueuesBounded'
  BY <1>4, <1>5, LimitAssumption DEF SchedulerInv, QueuesBounded
<1> QED BY <1>6, <1>7, <1>8 DEF SchedulerInv

\* Submit: what it does to the queue and to the goroutines.
LEMMA SubmitKeepsInv ==
  ASSUME SchedulerInv, TypeOK, NEW e \in Events, Submit(e)
  PROVE  SchedulerInv'
<1>0. PICK c \in Conversations : c = ConversationOf[e]
  BY EventAssumption
<1> DEFINE q == queues[c]
           q2 == Enqueued(queues[c], e)
<1>1. q \in QueueRecord /\ q.items \in Seq(Events) /\ Len(q.items) \in Nat
  BY DEF TypeOK, QueueRecord
<1>2. queues' = [queues EXCEPT ![c] = q2]
  BY <1>0 DEF Submit
<1>3. queues'[c] = q2 /\ \A d \in Conversations \ {c} : queues'[d] = queues[d]
  BY <1>2 DEF TypeOK
<1>4. /\ q2.running = TRUE /\ q2.current = q.current
      /\ Len(q2.items) = Len(q.items) + 1
      /\ e \in Priority => q2.controlQueued = TRUE /\ q2.items # <<>> /\ Head(q2.items) = e
      /\ e \notin Priority => /\ q2.controlQueued = q.controlQueued
                              /\ q.items # <<>> => q2.items # <<>> /\ Head(q2.items) = Head(q.items)
  <2>1. CASE e \in Priority
    <3>1. q2 = [q EXCEPT !.items = <<e>> \o @, !.controlQueued = TRUE, !.running = TRUE]
      BY <2>1 DEF Enqueued
    <3>2. q2.items = <<e>> \o q.items /\ q2.controlQueued = TRUE /\ q2.running = TRUE
          /\ q2.current = q.current
      BY <1>1, <3>1 DEF QueueRecord
    <3>3. Len(<<e>> \o q.items) = Len(q.items) + 1 /\ Head(<<e>> \o q.items) = e
          /\ <<e>> \o q.items # <<>>
      BY <1>1
    <3> QED BY <2>1, <3>2, <3>3
  <2>2. CASE e \notin Priority
    <3>1. q2 = [q EXCEPT !.items = Append(@, e), !.running = TRUE]
      BY <2>2 DEF Enqueued
    <3>2. q2.items = Append(q.items, e) /\ q2.controlQueued = q.controlQueued /\ q2.running = TRUE
          /\ q2.current = q.current
      BY <1>1, <3>1 DEF QueueRecord
    <3>3. Len(Append(q.items, e)) = Len(q.items) + 1
          /\ (q.items # <<>> => Append(q.items, e) # <<>> /\ Head(Append(q.items, e)) = Head(q.items))
      BY <1>1
    <3> QED BY <2>2, <3>2, <3>3
  <2> QED BY <2>1, <2>2
<1>5. \A b \in Actors :
         LET x == Interrupted(e)[b]
         IN  /\ x.pc = actors[b].pc /\ x.conversation = actors[b].conversation
             /\ actors[b].cause # "none" => x.cause # "none"
  BY CancelledType DEF Interrupted, Cancelled, TypeOK, Causes, ActorRecord
<1>6. e \in Priority /\ q.current = TRUE =>
        \A b \in Actors : Serves(b, c) /\ actors[b].pc \in InTurn => Interrupted(e)[b].cause # "none"
  BY <1>0 DEF Interrupted, Cancelled, TypeOK, Serves, ActorRecord
<1>7. OneActorPerQueue' /\ StopIsNext'
  <2>1. CASE q.running
    <3>1. actors' = Interrupted(e)
      BY <1>0, <2>1 DEF Submit
    <3>2. \A b \in Actors : \A d \in Conversations :
             /\ Serves(b, d)' <=> Serves(b, d)
             /\ (Serves(b, d) /\ actors[b].pc \in InTurn)' <=> (Serves(b, d) /\ actors[b].pc \in InTurn)
             /\ actors[b].cause # "none" => actors'[b].cause # "none"
      BY <1>5, <3>1 DEF Serves
    <3>3. OneActorPerQueue'
      <4> SUFFICES ASSUME NEW d \in Conversations
                   PROVE  /\ \A x, y \in Actors : Serves(x, d)' /\ Serves(y, d)' => x = y
                          /\ queues'[d].running <=> \E x \in Actors : Serves(x, d)'
                          /\ queues'[d].current <=> \E x \in Actors : (Serves(x, d) /\ actors[x].pc \in InTurn)'
                          /\ ~queues'[d].running => queues'[d] = NoQueue
        BY DEF OneActorPerQueue
      <4>1. CASE d = c
        BY <1>3, <1>4, <2>1, <3>2, <4>1 DEF SchedulerInv, OneActorPerQueue
      <4>2. CASE d # c
        BY <1>3, <3>2, <4>2 DEF SchedulerInv, OneActorPerQueue
      <4> QED BY <4>1, <4>2
    <3>4. StopIsNext'
      <4> SUFFICES ASSUME NEW d \in Conversations, queues'[d].controlQueued
                   PROVE  /\ queues'[d].items # <<>> /\ Head(queues'[d].items) \in Priority
                          /\ \A b \in Actors : (Serves(b, d) /\ actors[b].pc \in InTurn)'
                                                 => actors'[b].cause # "none"
        BY DEF StopIsNext
      <4>1. CASE d = c /\ e \in Priority /\ q.current
        BY <1>3, <1>4, <1>6, <3>1, <3>2, <4>1 DEF QueueRecord
      <4>2. CASE d = c /\ e \in Priority /\ ~q.current
        BY <1>3, <1>4, <3>2, <4>2 DEF SchedulerInv, OneActorPerQueue
      <4>3. CASE d = c /\ e \notin Priority
        BY <1>3, <1>4, <3>2, <4>3 DEF SchedulerInv, StopIsNext
      <4>4. CASE d # c
        BY <1>3, <3>2, <4>4 DEF SchedulerInv, StopIsNext
      <4> QED BY <4>1, <4>2, <4>3, <4>4
    <3> QED BY <3>3, <3>4
  <2>2. CASE ~q.running
    <3>0. q = NoQueue /\ q.current = FALSE /\ \A b \in Actors : ~Serves(b, c)
      BY <2>2 DEF SchedulerInv, OneActorPerQueue, NoQueue
    <3>1. PICK a \in Actors : /\ actors[a].pc = "idle"
                              /\ actors' = [Interrupted(e) EXCEPT ![a] =
                                     [IdleActor EXCEPT !.pc = "acquire", !.conversation = c]]
      BY <1>0, <2>2 DEF Submit
    <3>2. actors'[a].pc = "acquire" /\ actors'[a].conversation = c
      BY <3>1 DEF IdleActor, Interrupted, TypeOK
    <3>3. \A b \in Actors \ {a} : actors'[b] = Interrupted(e)[b]
      BY <3>1 DEF Interrupted, TypeOK
    <3>4. Serves(a, c)' /\ ~(Serves(a, c) /\ actors[a].pc \in InTurn)'
          /\ \A d \in Conversations : ~Serves(a, d)
      BY <3>1, <3>2 DEF Serves, Serving, InTurn
    <3>5. \A d \in Conversations \ {c} : ~Serves(a, d)'
      BY <3>2 DEF Serves
    <3>6. \A b \in Actors \ {a} : \A d \in Conversations :
             /\ Serves(b, d)' <=> Serves(b, d)
             /\ (Serves(b, d) /\ actors[b].pc \in InTurn)' <=> (Serves(b, d) /\ actors[b].pc \in InTurn)
             /\ actors[b].cause # "none" => actors'[b].cause # "none"
      BY <1>5, <3>3 DEF Serves
    <3>7. OneActorPerQueue'
      <4> SUFFICES ASSUME NEW d \in Conversations
                   PROVE  /\ \A x, y \in Actors : Serves(x, d)' /\ Serves(y, d)' => x = y
                          /\ queues'[d].running <=> \E x \in Actors : Serves(x, d)'
                          /\ queues'[d].current <=> \E x \in Actors : (Serves(x, d) /\ actors[x].pc \in InTurn)'
                          /\ ~queues'[d].running => queues'[d] = NoQueue
        BY DEF OneActorPerQueue
      <4>1. CASE d = c
        <5>1. \A x \in Actors : Serves(x, c)' <=> x = a
          BY <3>0, <3>4, <3>6
        <5>2. ~\E x \in Actors : (Serves(x, c) /\ actors[x].pc \in InTurn)'
          BY <3>4, <5>1
        <5> QED BY <1>3, <1>4, <3>0, <4>1, <5>1, <5>2
      <4>2. CASE d # c
        BY <1>3, <3>4, <3>5, <3>6, <4>2 DEF SchedulerInv, OneActorPerQueue
      <4> QED BY <4>1, <4>2
    <3>8. StopIsNext'
      <4> SUFFICES ASSUME NEW d \in Conversations, queues'[d].controlQueued
                   PROVE  /\ queues'[d].items # <<>> /\ Head(queues'[d].items) \in Priority
                          /\ \A b \in Actors : (Serves(b, d) /\ actors[b].pc \in InTurn)'
                                                 => actors'[b].cause # "none"
        BY DEF StopIsNext
      <4>1. CASE d = c
        <5>0. q.controlQueued = FALSE
          BY <3>0 DEF NoQueue
        <5>1. e \in Priority
          BY <1>3, <1>4, <4>1, <5>0
        <5> QED BY <1>3, <1>4, <3>0, <3>4, <3>6, <4>1, <5>1
      <4>2. CASE d # c
        BY <1>3, <3>5, <3>6, <4>2 DEF SchedulerInv, StopIsNext
      <4> QED BY <4>1, <4>2
    <3> QED BY <3>7, <3>8
  <2> QED BY <2>1, <2>2
<1>8. QueuesBounded'
  <2> SUFFICES ASSUME NEW d \in Conversations
               PROVE  Len(queues'[d].items) <= MaxConversationPending
                                 + (IF queues'[d].controlQueued THEN 1 ELSE 0)
    BY DEF QueuesBounded
  <2>1. CASE d = c /\ PriorityBypass(e)
    <3>1. e \in Priority /\ ~q.controlQueued
      BY <1>0, <2>1 DEF PriorityBypass
    <3>2. Len(q.items) <= MaxConversationPending
      BY <3>1, LimitAssumption DEF SchedulerInv, QueuesBounded
    <3> QED BY <1>1, <1>3, <1>4, <2>1, <3>1, <3>2, LimitAssumption
  <2>2. CASE d = c /\ ~PriorityBypass(e)
    <3>1. Len(q.items) < MaxConversationPending
      BY <1>0, <2>2 DEF Submit, WithinLimits
    <3> QED BY <1>1, <1>3, <1>4, <2>2, <3>1, LimitAssumption
  <2>3. CASE d # c
    BY <1>3, <2>3 DEF SchedulerInv, QueuesBounded
  <2> QED BY <2>1, <2>2, <2>3
<1> QED BY <1>7, <1>8 DEF SchedulerInv

\* NextTurn: the head leaves the queue and its turn is under way.
LEMMA NextTurnKeepsInv ==
  ASSUME SchedulerInv, TypeOK, NEW a \in Actors, NextTurn(a)
  PROVE  SchedulerInv'
<1>0. PICK c \in Conversations : c = actors[a].conversation
  BY DEF NextTurn, TypeOK
<1> DEFINE q == queues[c]
           e == Head(queues[c].items)
<1>1. q \in QueueRecord /\ q.items \in Seq(Events) /\ q.items # <<>> /\ actors[a] \in ActorRecord
  BY <1>0 DEF NextTurn, TypeOK, QueueRecord
<1>2. /\ queues'[c] = Dequeued(q) /\ \A d \in Conversations \ {c} : queues'[d] = queues[d]
      /\ actors'[a] = [actors[a] EXCEPT !.pc = "run", !.event = e, !.cause = "none"]
      /\ \A b \in Actors \ {a} : actors'[b] = actors[b]
  BY <1>0 DEF NextTurn, TypeOK
<1>3. /\ Dequeued(q).running = q.running /\ Dequeued(q).current = TRUE
      /\ Len(Dequeued(q).items) = Len(q.items) - 1
      /\ Dequeued(q).controlQueued = (q.controlQueued /\ e \notin Priority)
  BY <1>1 DEF Dequeued, QueueRecord
<1>4. actors'[a].pc = "run" /\ actors'[a].conversation = c
  BY <1>0, <1>1, <1>2 DEF ActorRecord
<1>5. Serves(a, c) /\ (Serves(a, c) /\ actors[a].pc \in InTurn)'
  BY <1>0, <1>4 DEF NextTurn, Serves, Serving, InTurn
<1>6. \A b \in Actors \ {a} : \A d \in Conversations :
         /\ Serves(b, d)' <=> Serves(b, d)
         /\ (Serves(b, d) /\ actors[b].pc \in InTurn)' <=> (Serves(b, d) /\ actors[b].pc \in InTurn)
         /\ actors'[b].cause = actors[b].cause
  BY <1>2 DEF Serves
<1>7. \A d \in Conversations \ {c} : ~Serves(a, d) /\ ~Serves(a, d)'
  BY <1>0, <1>4 DEF Serves
<1>8. OneActorPerQueue'
  <2> SUFFICES ASSUME NEW d \in Conversations
               PROVE  /\ \A x, y \in Actors : Serves(x, d)' /\ Serves(y, d)' => x = y
                      /\ queues'[d].running <=> \E x \in Actors : Serves(x, d)'
                      /\ queues'[d].current <=> \E x \in Actors : (Serves(x, d) /\ actors[x].pc \in InTurn)'
                      /\ ~queues'[d].running => queues'[d] = NoQueue
    BY DEF OneActorPerQueue
  <2>1. CASE d = c
    <3>1. \A x \in Actors : Serves(x, c)' <=> x = a
      BY <1>5, <1>6 DEF SchedulerInv, OneActorPerQueue
    <3>2. q.running
      BY <1>5 DEF SchedulerInv, OneActorPerQueue
    <3> QED BY <1>2, <1>3, <1>5, <2>1, <3>1, <3>2
  <2>2. CASE d # c
    BY <1>2, <1>6, <1>7, <2>2 DEF SchedulerInv, OneActorPerQueue
  <2> QED BY <2>1, <2>2
<1>9. q.controlQueued => e \in Priority
  BY DEF SchedulerInv, StopIsNext
<1>10. StopIsNext'
  <2> SUFFICES ASSUME NEW d \in Conversations, queues'[d].controlQueued
               PROVE  /\ queues'[d].items # <<>> /\ Head(queues'[d].items) \in Priority
                      /\ \A b \in Actors : (Serves(b, d) /\ actors[b].pc \in InTurn)'
                                             => actors'[b].cause # "none"
    BY DEF StopIsNext
  <2>1. d # c
    BY <1>2, <1>3, <1>9
  <2> QED BY <1>2, <1>6, <1>7, <2>1 DEF SchedulerInv, StopIsNext
<1>11. QueuesBounded'
  <2> SUFFICES ASSUME NEW d \in Conversations
               PROVE  Len(queues'[d].items) <= MaxConversationPending
                                 + (IF queues'[d].controlQueued THEN 1 ELSE 0)
    BY DEF QueuesBounded
  <2>1. CASE d = c
    <3>1. Len(q.items) \in Nat
      BY <1>1
    <3>2. Len(q.items) <= MaxConversationPending + 1
      BY <3>1, LimitAssumption DEF SchedulerInv, QueuesBounded
    <3> QED BY <1>2, <1>3, <2>1, <3>1, <3>2, LimitAssumption
  <2>2. CASE d # c
    BY <1>2, <2>2 DEF SchedulerInv, QueuesBounded
  <2> QED BY <2>1, <2>2
<1> QED BY <1>8, <1>10, <1>11 DEF SchedulerInv

\* finish: the turn is over, the actor goes back to its queue.
LEMMA FinishKeepsInv ==
  ASSUME SchedulerInv, TypeOK, NEW a \in Actors, Finish(a)
  PROVE  SchedulerInv'
<1>0. PICK c \in Conversations : c = actors[a].conversation
  BY DEF Finish, TypeOK
<1> DEFINE q == queues[c]
<1>1. q \in QueueRecord /\ actors[a] \in ActorRecord
  BY DEF TypeOK
<1>2. /\ queues'[c] = [q EXCEPT !.current = FALSE]
      /\ \A d \in Conversations \ {c} : queues'[d] = queues[d]
      /\ actors'[a] = [actors[a] EXCEPT !.pc = "loop", !.event = None, !.cause = "none"]
      /\ \A b \in Actors \ {a} : actors'[b] = actors[b]
  BY <1>0 DEF Finish, TypeOK
<1>3. /\ queues'[c].running = q.running /\ queues'[c].current = FALSE
      /\ queues'[c].items = q.items /\ queues'[c].controlQueued = q.controlQueued
  BY <1>1, <1>2 DEF QueueRecord
<1>4. actors'[a].pc = "loop" /\ actors'[a].conversation = c
  BY <1>0, <1>1, <1>2 DEF ActorRecord
<1>5. Serves(a, c) /\ Serves(a, c)' /\ ~(Serves(a, c) /\ actors[a].pc \in InTurn)'
  BY <1>0, <1>4 DEF Finish, Serves, Serving, InTurn
<1>6. \A b \in Actors \ {a} : \A d \in Conversations :
         /\ Serves(b, d)' <=> Serves(b, d)
         /\ (Serves(b, d) /\ actors[b].pc \in InTurn)' <=> (Serves(b, d) /\ actors[b].pc \in InTurn)
         /\ actors'[b].cause = actors[b].cause
  BY <1>2 DEF Serves
<1>7. \A d \in Conversations \ {c} : ~Serves(a, d) /\ ~Serves(a, d)'
  BY <1>0, <1>4 DEF Serves
<1>8. \A x \in Actors : Serves(x, c)' <=> x = a
  BY <1>5, <1>6 DEF SchedulerInv, OneActorPerQueue
<1>9. OneActorPerQueue'
  <2> SUFFICES ASSUME NEW d \in Conversations
               PROVE  /\ \A x, y \in Actors : Serves(x, d)' /\ Serves(y, d)' => x = y
                      /\ queues'[d].running <=> \E x \in Actors : Serves(x, d)'
                      /\ queues'[d].current <=> \E x \in Actors : (Serves(x, d) /\ actors[x].pc \in InTurn)'
                      /\ ~queues'[d].running => queues'[d] = NoQueue
    BY DEF OneActorPerQueue
  <2>1. CASE d = c
    <3>1. q.running
      BY <1>5 DEF SchedulerInv, OneActorPerQueue
    <3> QED BY <1>3, <1>5, <1>8, <2>1, <3>1
  <2>2. CASE d # c
    BY <1>2, <1>6, <1>7, <2>2 DEF SchedulerInv, OneActorPerQueue
  <2> QED BY <2>1, <2>2
<1>10. StopIsNext'
  <2> SUFFICES ASSUME NEW d \in Conversations, queues'[d].controlQueued
               PROVE  /\ queues'[d].items # <<>> /\ Head(queues'[d].items) \in Priority
                      /\ \A b \in Actors : (Serves(b, d) /\ actors[b].pc \in InTurn)'
                                             => actors'[b].cause # "none"
    BY DEF StopIsNext
  <2>1. CASE d = c
    BY <1>3, <1>5, <1>8, <2>1 DEF SchedulerInv, StopIsNext
  <2>2. CASE d # c
    BY <1>2, <1>6, <1>7, <2>2 DEF SchedulerInv, StopIsNext
  <2> QED BY <2>1, <2>2
<1>11. QueuesBounded'
  BY <1>2, <1>3 DEF SchedulerInv, QueuesBounded
<1> QED BY <1>9, <1>10, <1>11 DEF SchedulerInv

\* A fresh process has empty queues and no goroutine.
LEMMA FreshInv ==
  (queues = [c \in Conversations |-> NoQueue] /\ actors = [a \in Actors |-> IdleActor])
  => SchedulerInv
<1> SUFFICES ASSUME queues = [c \in Conversations |-> NoQueue],
                    actors = [a \in Actors |-> IdleActor]
             PROVE  SchedulerInv
  OBVIOUS
<1>1. \A a \in Actors : \A c \in Conversations : ~Serves(a, c)
  BY DEF IdleActor, Serves, Serving
<1>2. \A c \in Conversations :
         /\ queues[c] = NoQueue /\ queues[c].running = FALSE /\ queues[c].current = FALSE
         /\ queues[c].controlQueued = FALSE /\ Len(queues[c].items) = 0
  BY DEF NoQueue
<1>3. OneActorPerQueue
  BY <1>1, <1>2 DEF OneActorPerQueue
<1>4. StopIsNext /\ QueuesBounded
  BY <1>2, LimitAssumption DEF StopIsNext, QueuesBounded
<1> QED BY <1>3, <1>4 DEF SchedulerInv

\* Every queue has exactly one actor while it exists, a waiting stop command is
\* the next turn and has interrupted the current one, and the bypass of the
\* limits never adds more than one turn to a queue: Submit, nextTurn, finish,
\* discardQueue and Shutdown keep these facts under every interleaving, for
\* every number of conversations, events and goroutines.
THEOREM SchedulerSafe == Spec => [](OneActorPerQueue /\ StopIsNext /\ QueuesBounded)
<1>1. Init => SchedulerInv
  BY FreshInv DEF Init
<1>2. TypeOK /\ SchedulerInv /\ [Next]_vars => SchedulerInv'
  <2> SUFFICES ASSUME TypeOK, SchedulerInv, [Next]_vars PROVE SchedulerInv'
    OBVIOUS
  <2>1. ASSUME NEW e \in Events, Submit(e) PROVE SchedulerInv'
    BY <2>1, SubmitKeepsInv
  <2>2. ASSUME NEW c \in Conversations, Cancel(c) PROVE SchedulerInv'
    <3>1. \A b \in Actors : /\ actors'[b].pc = actors[b].pc
                            /\ actors'[b].conversation = actors[b].conversation
                            /\ actors[b].cause # "none" => actors'[b].cause # "none"
      BY <2>2, CancelledType DEF Cancel, Cancelled, TypeOK, Causes
    <3>2. queues' = queues
      BY <2>2 DEF Cancel
    <3> QED BY <3>1, <3>2, SameServing DEF Serves
  <2>3. ASSUME NEW a \in Actors, AcquireSlot(a) PROVE SchedulerInv'
    <3>1. /\ queues' = queues /\ actors[a].pc = "acquire"
          /\ actors'[a] = [actors[a] EXCEPT !.pc = "loop"]
          /\ \A b \in Actors \ {a} : actors'[b] = actors[b]
      BY <2>3 DEF AcquireSlot, Step, TypeOK
    <3>2. /\ actors'[a].pc = "loop" /\ actors'[a].conversation = actors[a].conversation
      BY <3>1 DEF TypeOK, ActorRecord
    <3> QED BY <3>1, <3>2, SameServing DEF Serves, Serving, InTurn
  <2>4. ASSUME NEW a \in Actors, DiscardQueue(a) PROVE SchedulerInv'
    BY <2>4, LeavingKeepsInv DEF DiscardQueue, DropQueue, TypeOK, IdleActor, Serving
  <2>5. ASSUME NEW a \in Actors, LeaveQueue(a) PROVE SchedulerInv'
    <3>1. /\ actors'[a] = [actors[a] EXCEPT !.pc = "release"]
          /\ \A b \in Actors \ {a} : actors'[b] = actors[b]
      BY <2>5 DEF LeaveQueue, Step, TypeOK
    <3>2. actors'[a].pc \notin Serving
      BY <3>1 DEF TypeOK, ActorRecord, Serving
    <3> QED BY <2>5, <3>1, <3>2, LeavingKeepsInv DEF LeaveQueue, DropQueue
  <2>6. ASSUME NEW a \in Actors, NextTurn(a) PROVE SchedulerInv'
    BY <2>6, NextTurnKeepsInv
  <2>7. ASSUME NEW a \in Actors, TurnTimeout(a) PROVE SchedulerInv'
    <3>1. /\ queues' = queues
          /\ actors'[a] = [actors[a] EXCEPT !.cause = "deadline"]
          /\ \A b \in Actors \ {a} : actors'[b] = actors[b]
      BY <2>7 DEF TurnTimeout, TypeOK
    <3>2. /\ actors'[a].pc = actors[a].pc /\ actors'[a].conversation = actors[a].conversation
          /\ actors'[a].cause = "deadline"
      BY <3>1 DEF TypeOK, ActorRecord
    <3> QED BY <3>1, <3>2, SameServing DEF Serves
  <2>8. ASSUME NEW a \in Actors, TurnReturns(a) PROVE SchedulerInv'
    <3>1. /\ queues' = queues /\ actors[a].pc = "run"
          /\ actors'[a] = [actors[a] EXCEPT !.pc = "returned"]
          /\ \A b \in Actors \ {a} : actors'[b] = actors[b]
      BY <2>8 DEF TurnReturns, Step, TypeOK
    <3>2. /\ actors'[a].pc = "returned" /\ actors'[a].conversation = actors[a].conversation
          /\ actors'[a].cause = actors[a].cause
      BY <3>1 DEF TypeOK, ActorRecord
    <3> QED BY <3>1, <3>2, SameServing DEF Serves, Serving, InTurn
  <2>9. ASSUME NEW a \in Actors, Finish(a) PROVE SchedulerInv'
    BY <2>9, FinishKeepsInv
  <2>10. ASSUME NEW a \in Actors, ReleaseSlot(a) PROVE SchedulerInv'
    <3>1. /\ queues' = queues /\ actors[a].pc = "release" /\ actors'[a].pc = "idle"
          /\ \A b \in Actors \ {a} : actors'[b] = actors[b]
      BY <2>10 DEF ReleaseSlot, TypeOK, IdleActor
    <3> QED BY <3>1, SameServing DEF Serves, Serving, InTurn
  <2>11. CASE BeginShutdown \/ ShutdownReturns \/ UNCHANGED vars
    <3>1. queues' = queues /\ actors' = actors
      BY <2>11 DEF BeginShutdown, ShutdownReturns, vars
    <3> QED BY <3>1, SameServing DEF Serves
  <2>12. CASE DrainTimeout
    <3>1. \A b \in Actors : /\ actors'[b].pc = actors[b].pc
                            /\ actors'[b].conversation = actors[b].conversation
                            /\ actors[b].cause # "none" => actors'[b].cause # "none"
      BY <2>12, CancelledType DEF DrainTimeout, Cancelled, TypeOK, Causes
    <3>2. queues' = queues
      BY <2>12 DEF DrainTimeout
    <3> QED BY <3>1, <3>2, SameServing DEF Serves
  <2>13. CASE Restart
    <3>1. ((queues = [c \in Conversations |-> NoQueue] /\ actors = [a \in Actors |-> IdleActor])
           => SchedulerInv)'
      BY FreshInv, PTL
    <3> QED BY <2>13, <3>1 DEF Restart
  <2> QED
    BY <2>1, <2>2, <2>3, <2>4, <2>5, <2>6, <2>7, <2>8, <2>9, <2>10, <2>11, <2>12,
       <2>13 DEF Next, ActorStep
<1>3. SchedulerInv => OneActorPerQueue /\ StopIsNext /\ QueuesBounded
  BY DEF SchedulerInv
<1> QED BY <1>1, <1>2, <1>3, TypeCorrect, PTL DEF Spec

\* Submit and nextTurn: a stop command that waits is the next turn, and the
\* turn it overtakes has been told to stop.
THEOREM StopsComeNext == Spec => []StopIsNext
  BY SchedulerSafe, PTL

-----------------------------------------------------------------------------
(* Claims and reservations *)

Items(queue) == {queue.items[i] : i \in DOMAIN queue.items}
Distinct(s) == \A i, j \in DOMAIN s : s[i] = s[j] => i = j

\* A turn for the event waits or runs.
Held(e) == \/ e \in Items(queues[ConversationOf[e]])
           \/ \E a \in Actors : actors[a].pc = "run" /\ actors[a].event = e

\* An event waits once, in the queue of its conversation; one with a durable
\* claim waits only before its turn.
QueuedOnce ==
    \A c \in Conversations :
        /\ Distinct(queues[c].items)
        /\ \A e \in Items(queues[c]) : /\ ConversationOf[e] = c
                                       /\ e \notin Retryable => e \in claimed /\ runs[e] = 0

\* An event whose turn runs does not wait for another.
RunningOnce ==
    \A a \in Actors : actors[a].pc = "run" =>
        /\ actors[a].event \in Events /\ ConversationOf[actors[a].event] = actors[a].conversation
        /\ actors[a].event \notin Items(queues[actors[a].conversation])
        /\ actors[a].event \notin Retryable => actors[a].event \in claimed

HeldReserved ==
    /\ reserved \subseteq Retryable
    /\ \A e \in Retryable : Held(e) => e \in reserved
    /\ lifecycle = "live" => \A e \in reserved : Held(e)

ClaimInv == QueuedOnce /\ RunningOnce /\ HeldReserved /\ AtMostOnce

LEMMA ClaimInvImplies ==
  ASSUME TypeOK, ClaimInv
  PROVE  ClaimsHold
<1>1. \A e \in Retryable :
        Held(e) <=> \/ \E c \in Conversations : \E i \in DOMAIN queues[c].items : queues[c].items[i] = e
                    \/ \E a \in Actors : actors[a].pc = "run" /\ actors[a].event = e
  <2>1. ASSUME NEW e \in Retryable, NEW c \in Conversations, NEW i \in DOMAIN queues[c].items, queues[c].items[i] = e
        PROVE  Held(e)
    <3>1. e \in Items(queues[c]) /\ ConversationOf[e] = c
      BY <2>1 DEF Items, ClaimInv, QueuedOnce
    <3> QED BY <3>1 DEF Held
  <2>2. ASSUME NEW e \in Retryable, e \in Items(queues[ConversationOf[e]])
        PROVE  \E c \in Conversations : \E i \in DOMAIN queues[c].items : queues[c].items[i] = e
    BY <2>2, EventAssumption DEF Items
  <2> QED BY <2>1, <2>2 DEF Held
<1>2. ReservationsHeld
  BY <1>1 DEF ReservationsHeld, ClaimInv, HeldReserved
<1> QED BY <1>2 DEF ClaimsHold, ClaimInv

LEMMA EnqueuedItems ==
  ASSUME NEW q \in QueueRecord, NEW e \in Events
  PROVE  /\ Items(Enqueued(q, e)) = Items(q) \cup {e}
         /\ Distinct(q.items) /\ e \notin Items(q) => Distinct(Enqueued(q, e).items)
<1>1. q.items \in Seq(Events)
  BY DEF QueueRecord
<1>2. CASE e \in Priority
  <2> DEFINE s == <<e>> \o q.items
  <2>1. Enqueued(q, e).items = s
    BY <1>2 DEF Enqueued, QueueRecord
  <2>2. s \in Seq(Events) /\ Len(s) = Len(q.items) + 1 /\ s[1] = e
        /\ \A i \in 1..Len(q.items) : s[i + 1] = q.items[i]
    BY <1>1
  <2>3. DOMAIN s = 1..(Len(q.items) + 1) /\ DOMAIN q.items = 1..Len(q.items) /\ Len(q.items) \in Nat
    BY <1>1, <2>2
  <2> HIDE DEF s
  <2>4. \A i \in DOMAIN s : i = 1 \/ (i - 1 \in DOMAIN q.items /\ s[i] = q.items[i - 1])
    BY <2>2, <2>3
  <2>5. \A i \in DOMAIN q.items : i + 1 \in DOMAIN s /\ s[i + 1] = q.items[i]
    BY <2>2, <2>3
  <2>6. {s[i] : i \in DOMAIN s} = {q.items[i] : i \in DOMAIN q.items} \cup {e}
    <3>1. 1 \in DOMAIN s
      BY <2>3
    <3> QED BY <2>2, <2>4, <2>5, <3>1
  <2>7. Distinct(q.items) /\ e \notin Items(q) => Distinct(s)
    BY <2>2, <2>3, <2>4 DEF Distinct, Items
  <2> QED BY <2>1, <2>6, <2>7 DEF Items
<1>3. CASE e \notin Priority
  <2> DEFINE s == Append(q.items, e)
  <2>1. Enqueued(q, e).items = s
    BY <1>3 DEF Enqueued, QueueRecord
  <2>2. s \in Seq(Events) /\ Len(s) = Len(q.items) + 1 /\ s[Len(q.items) + 1] = e
        /\ \A i \in 1..Len(q.items) : s[i] = q.items[i]
    BY <1>1
  <2>3. DOMAIN s = 1..(Len(q.items) + 1) /\ DOMAIN q.items = 1..Len(q.items) /\ Len(q.items) \in Nat
    BY <1>1, <2>2
  <2> HIDE DEF s
  <2>4. \A i \in DOMAIN s : i = Len(q.items) + 1 \/ (i \in DOMAIN q.items /\ s[i] = q.items[i])
    BY <2>2, <2>3
  <2>5. \A i \in DOMAIN q.items : i \in DOMAIN s /\ s[i] = q.items[i]
    BY <2>2, <2>3
  <2>6. {s[i] : i \in DOMAIN s} = {q.items[i] : i \in DOMAIN q.items} \cup {e}
    <3>1. Len(q.items) + 1 \in DOMAIN s
      BY <2>3
    <3> QED BY <2>2, <2>4, <2>5, <3>1
  <2>7. Distinct(q.items) /\ e \notin Items(q) => Distinct(s)
    BY <2>2, <2>3, <2>4 DEF Distinct, Items
  <2> QED BY <2>1, <2>6, <2>7 DEF Items
<1> QED BY <1>2, <1>3

LEMMA DequeuedItems ==
  ASSUME NEW q \in QueueRecord, q.items # <<>>, Distinct(q.items)
  PROVE  /\ Head(q.items) \in Items(q) /\ Items(Dequeued(q)) = Items(q) \ {Head(q.items)}
         /\ Distinct(Dequeued(q).items)
<1> DEFINE s == Tail(q.items)
<1>1. q.items \in Seq(Events)
  BY DEF QueueRecord
<1>2. Dequeued(q).items = s
  BY DEF Dequeued, QueueRecord
<1>3. /\ DOMAIN s = 1..(Len(q.items) - 1) /\ DOMAIN q.items = 1..Len(q.items) /\ Len(q.items) \in Nat \ {0}
      /\ Head(q.items) = q.items[1] /\ \A i \in 1..(Len(q.items) - 1) : s[i] = q.items[i + 1]
  BY <1>1
<1> HIDE DEF s
<1>4. \A i \in DOMAIN q.items : i = 1 \/ (i - 1 \in DOMAIN s /\ s[i - 1] = q.items[i])
  BY <1>3
<1>5. \A i \in DOMAIN s : i + 1 \in DOMAIN q.items /\ s[i] = q.items[i + 1] /\ i + 1 # 1
  BY <1>3
<1>6. 1 \in DOMAIN q.items
  BY <1>3
<1>7. {s[i] : i \in DOMAIN s} = {q.items[i] : i \in DOMAIN q.items} \ {q.items[1]}
  BY <1>4, <1>5, <1>6 DEF Distinct
<1>8. Distinct(s)
  BY <1>3, <1>5 DEF Distinct
<1> QED BY <1>2, <1>3, <1>6, <1>7, <1>8, SMTT(30) DEF Items

\* A step that touches neither what waits nor what runs.
LEMMA SameClaims ==
  ASSUME ClaimInv, TypeOK, TypeOK',
         \A c \in Conversations : queues'[c].items = queues[c].items,
         \A b \in Actors : /\ actors'[b].pc = "run" <=> actors[b].pc = "run"
                           /\ actors[b].pc = "run" => /\ actors'[b].event = actors[b].event
                                                      /\ actors'[b].conversation = actors[b].conversation,
         UNCHANGED <<claimed, reserved, runs>>,
         lifecycle' = "live" => lifecycle = "live"
  PROVE  ClaimInv'
<1>1. \A c \in Conversations : Items(queues'[c]) = Items(queues[c])
  BY DEF Items
<1>2. \A e \in Events : Held(e)' <=> Held(e)
  BY <1>1, EventAssumption DEF Held
<1>3. QueuedOnce'
  BY <1>1 DEF ClaimInv, QueuedOnce
<1>4. RunningOnce'
  BY <1>1 DEF ClaimInv, RunningOnce, TypeOK
<1>5. HeldReserved'
  BY <1>2, EventAssumption DEF ClaimInv, HeldReserved, TypeOK
<1>6. AtMostOnce'
  BY DEF ClaimInv, AtMostOnce
<1> QED BY <1>3, <1>4, <1>5, <1>6 DEF ClaimInv

\* A queue leaves the map only empty, or after the lifecycle has ended.
LEMMA DroppedClaims ==
  ASSUME ClaimInv, TypeOK, TypeOK', NEW c \in Conversations,
         queues'[c] = NoQueue, \A d \in Conversations \ {c} : queues'[d] = queues[d],
         \A b \in Actors : /\ actors'[b].pc = "run" <=> actors[b].pc = "run"
                           /\ actors[b].pc = "run" => /\ actors'[b].event = actors[b].event
                                                      /\ actors'[b].conversation = actors[b].conversation,
         UNCHANGED <<claimed, reserved, runs, lifecycle>>,
         lifecycle = "cancelled" \/ queues[c].items = <<>>
  PROVE  ClaimInv'
<1>0. Items(NoQueue) = {} /\ Distinct(NoQueue.items)
  BY DEF Items, Distinct, NoQueue
<1>1. \A d \in Conversations : Items(queues'[d]) \subseteq Items(queues[d])
  BY <1>0
<1>2. lifecycle = "live" => \A d \in Conversations : Items(queues'[d]) = Items(queues[d])
  <2>1. lifecycle = "live" => Items(queues[c]) = {}
    BY DEF Items
  <2> QED BY <1>0, <2>1
<1>3. \A e \in Events : (Held(e)' => Held(e)) /\ (lifecycle = "live" /\ Held(e) => Held(e)')
  BY <1>1, <1>2, EventAssumption DEF Held
<1>4. QueuedOnce'
  BY <1>0, <1>1 DEF ClaimInv, QueuedOnce
<1>5. RunningOnce'
  BY <1>1 DEF ClaimInv, RunningOnce, TypeOK
<1>6. HeldReserved'
  BY <1>3, EventAssumption DEF ClaimInv, HeldReserved, TypeOK
<1>7. AtMostOnce'
  BY DEF ClaimInv, AtMostOnce
<1> QED BY <1>4, <1>5, <1>6, <1>7 DEF ClaimInv

\* Submit: the event has a claim or a reservation of its own, so no turn for
\* it waits or runs.
LEMMA SubmitClaims ==
  ASSUME ClaimInv, TypeOK, TypeOK', NEW e \in Events, Submit(e)
  PROVE  ClaimInv'
<1>0. PICK c \in Conversations : c = ConversationOf[e]
  BY EventAssumption
<1>1. queues[c] \in QueueRecord /\ queues'[c] = Enqueued(queues[c], e)
      /\ \A d \in Conversations \ {c} : queues'[d] = queues[d]
  BY <1>0 DEF Submit, TypeOK
<1>2. \A b \in Actors : /\ actors'[b].pc = "run" <=> actors[b].pc = "run"
                        /\ actors[b].pc = "run" => /\ actors'[b].event = actors[b].event
                                                   /\ actors'[b].conversation = actors[b].conversation
  <2>1. \A b \in Actors : /\ Interrupted(e)[b].pc = actors[b].pc
                          /\ Interrupted(e)[b].conversation = actors[b].conversation
                          /\ Interrupted(e)[b].event = actors[b].event
    BY CancelledType DEF Interrupted, TypeOK, Causes
  <2>2. CASE queues[c].running
    BY <1>0, <2>1, <2>2 DEF Submit
  <2>3. CASE ~queues[c].running
    <3>1. PICK a \in Actors : /\ actors[a].pc = "idle"
                              /\ actors' = [Interrupted(e) EXCEPT ![a] =
                                     [IdleActor EXCEPT !.pc = "acquire", !.conversation = c]]
      BY <1>0, <2>3 DEF Submit
    <3>2. actors'[a].pc = "acquire"
      BY <3>1 DEF IdleActor, Interrupted, TypeOK
    <3>3. \A b \in Actors \ {a} : actors'[b] = Interrupted(e)[b]
      BY <3>1 DEF Interrupted, TypeOK
    <3>4. ASSUME NEW b \in Actors
          PROVE  /\ actors'[b].pc = "run" <=> actors[b].pc = "run"
                 /\ actors[b].pc = "run" => /\ actors'[b].event = actors[b].event
                                            /\ actors'[b].conversation = actors[b].conversation
      <4>1. CASE b = a
        BY <3>1, <3>2, <4>1
      <4>2. CASE b # a
        BY <2>1, <3>3, <4>2
      <4> QED BY <4>1, <4>2
    <3> QED BY <3>4
  <2> QED BY <2>2, <2>3
<1>3. UNCHANGED <<runs, lifecycle>> /\ Claim(e)
  BY DEF Submit
<1>4. e \notin Items(queues[c]) /\ ~Held(e) /\ (e \notin Retryable => runs[e] = 0)
  <2>1. CASE e \in Retryable
    <3>1. e \notin reserved
      BY <1>3, <2>1 DEF Claim
    <3> QED BY <1>0, <2>1, <3>1 DEF ClaimInv, HeldReserved, Held
  <2>2. CASE e \notin Retryable
    <3>1. e \notin claimed
      BY <1>3, <2>2 DEF Claim
    <3>2. e \notin Items(queues[c])
      BY <2>2, <3>1 DEF ClaimInv, QueuedOnce
    <3>3. ~\E a \in Actors : actors[a].pc = "run" /\ actors[a].event = e
      BY <2>2, <3>1 DEF ClaimInv, RunningOnce
    <3>4. runs[e] = 0
      <4>1. runs[e] \in 0..2 /\ runs[e] <= 1 /\ runs[e] # 1
        BY <2>2, <3>1 DEF ClaimInv, AtMostOnce, TypeOK
      <4> QED BY <4>1
    <3> QED BY <1>0, <3>2, <3>3, <3>4 DEF Held
  <2> QED BY <2>1, <2>2
<1>5. Items(queues'[c]) = Items(queues[c]) \cup {e} /\ Distinct(queues'[c].items)
  BY <1>1, <1>4, EnqueuedItems DEF ClaimInv, QueuedOnce
<1>6. \A f \in Events : Held(f)' <=> Held(f) \/ f = e
  <2> SUFFICES ASSUME NEW f \in Events PROVE Held(f)' <=> Held(f) \/ f = e
    OBVIOUS
  <2>1. \A b \in Actors : (actors'[b].pc = "run" /\ actors'[b].event = f) <=> (actors[b].pc = "run" /\ actors[b].event = f)
    BY <1>2
  <2>2. f \in Items(queues'[ConversationOf[f]]) <=> f \in Items(queues[ConversationOf[f]]) \/ f = e
    <3>1. CASE ConversationOf[f] = c
      BY <1>5, <3>1
    <3>2. CASE ConversationOf[f] # c
      BY <1>0, <1>1, <3>2, EventAssumption
    <3> QED BY <3>1, <3>2
  <2> QED BY <2>1, <2>2 DEF Held
<1>7. claimed \subseteq claimed' /\ (e \notin Retryable => e \in claimed')
  BY <1>3 DEF Claim
<1>8. QueuedOnce'
  <2> SUFFICES ASSUME NEW d \in Conversations
               PROVE  /\ Distinct(queues'[d].items)
                      /\ \A f \in Items(queues'[d]) : /\ ConversationOf[f] = d
                                                      /\ f \notin Retryable => f \in claimed' /\ runs'[f] = 0
    BY DEF QueuedOnce
  <2>1. CASE d = c
    BY <1>0, <1>3, <1>4, <1>5, <1>7, <2>1 DEF ClaimInv, QueuedOnce
  <2>2. CASE d # c
    BY <1>1, <1>3, <1>7, <2>2 DEF ClaimInv, QueuedOnce
  <2> QED BY <2>1, <2>2
<1>9. RunningOnce'
  <2> SUFFICES ASSUME NEW a \in Actors, actors'[a].pc = "run"
               PROVE  /\ actors'[a].event \in Events /\ ConversationOf[actors'[a].event] = actors'[a].conversation
                      /\ actors'[a].event \notin Items(queues'[actors'[a].conversation])
                      /\ actors'[a].event \notin Retryable => actors'[a].event \in claimed'
    BY DEF RunningOnce
  <2>0. actors[a].pc = "run" /\ actors'[a].event = actors[a].event /\ actors'[a].conversation = actors[a].conversation
    BY <1>2
  <2>1. actors[a].pc = "run" /\ actors'[a].event = actors[a].event /\ actors'[a].conversation = actors[a].conversation
        /\ actors[a].conversation \in Conversations
    BY <2>0 DEF TypeOK
  <2>2. actors[a].event # e
    BY <1>4, <2>1 DEF Held
  <2> QED BY <1>1, <1>5, <1>7, <2>1, <2>2 DEF ClaimInv, RunningOnce
<1>10. HeldReserved'
  <2>1. CASE e \in Retryable
    <3>1. reserved' = reserved \cup {e}
      BY <1>3, <2>1 DEF Claim
    <3> QED BY <1>3, <1>6, <2>1, <3>1, EventAssumption DEF ClaimInv, HeldReserved, TypeOK
  <2>2. CASE e \notin Retryable
    <3>1. reserved' = reserved
      BY <1>3, <2>2 DEF Claim
    <3> QED BY <1>3, <1>6, <2>2, <3>1, EventAssumption DEF ClaimInv, HeldReserved, TypeOK
  <2> QED BY <2>1, <2>2
<1>11. AtMostOnce'
  BY <1>3, <1>7 DEF ClaimInv, AtMostOnce
<1> QED BY <1>8, <1>9, <1>10, <1>11 DEF ClaimInv

\* NextTurn: the event that waited now runs, for the first time if its claim
\* is durable.
LEMMA NextTurnClaims ==
  ASSUME ClaimInv, TypeOK, TypeOK', NEW a \in Actors, NextTurn(a)
  PROVE  ClaimInv'
<1>0. PICK c \in Conversations : c = actors[a].conversation
  BY DEF NextTurn, TypeOK
<1> DEFINE e == Head(queues[c].items)
<1>1. /\ queues[c] \in QueueRecord /\ queues[c].items # <<>> /\ queues'[c] = Dequeued(queues[c])
      /\ \A d \in Conversations \ {c} : queues'[d] = queues[d]
  BY <1>0 DEF NextTurn, TypeOK
<1>2. /\ e \in Items(queues[c]) /\ Items(queues'[c]) = Items(queues[c]) \ {e} /\ Distinct(queues'[c].items)
  BY <1>1, DequeuedItems DEF ClaimInv, QueuedOnce
<1>3. e \in Events /\ ConversationOf[e] = c /\ (e \notin Retryable => e \in claimed /\ runs[e] = 0)
  <2>1. e \in Events
    BY <1>1 DEF QueueRecord
  <2> QED BY <1>2, <2>1 DEF ClaimInv, QueuedOnce
<1>4. /\ actors[a].pc = "loop" /\ actors'[a].pc = "run" /\ actors'[a].event = e /\ actors'[a].conversation = c
      /\ \A b \in Actors \ {a} : actors'[b] = actors[b]
  BY <1>0 DEF NextTurn, TypeOK, ActorRecord
<1>5. UNCHANGED <<claimed, reserved, lifecycle>>
  BY DEF NextTurn
<1>6. \A f \in Events \ {e} : runs'[f] = runs[f]
  BY <1>0 DEF NextTurn, TypeOK
<1>7. e \notin Retryable => runs'[e] = 1
  <2>1. runs' = [runs EXCEPT ![e] = IF @ < 2 THEN @ + 1 ELSE @]
    BY <1>0 DEF NextTurn
  <2> QED BY <1>3, <2>1 DEF TypeOK
<1> HIDE DEF e
<1>8. \A f \in Events : Held(f)' <=> Held(f)
  <2> SUFFICES ASSUME NEW f \in Events PROVE Held(f)' <=> Held(f)
    OBVIOUS
  <2>1. CASE f = e
    BY <1>2, <1>3, <1>4, <2>1 DEF Held
  <2>2. CASE f # e
    <3>1. f \in Items(queues'[ConversationOf[f]]) <=> f \in Items(queues[ConversationOf[f]])
      BY <1>1, <1>2, <2>2, EventAssumption
    <3>2. \A b \in Actors : actors'[b].pc = "run" /\ actors'[b].event = f <=> actors[b].pc = "run" /\ actors[b].event = f
      BY <1>4, <2>2
    <3> QED BY <3>1, <3>2 DEF Held
  <2> QED BY <2>1, <2>2
<1>9. QueuedOnce'
  <2> SUFFICES ASSUME NEW d \in Conversations
               PROVE  /\ Distinct(queues'[d].items)
                      /\ \A f \in Items(queues'[d]) : /\ ConversationOf[f] = d
                                                      /\ f \notin Retryable => f \in claimed' /\ runs'[f] = 0
    BY DEF QueuedOnce
  <2>0. Items(queues[d]) \subseteq Events
    BY DEF Items, TypeOK, QueueRecord
  <2>1. CASE d = c
    BY <1>2, <1>5, <1>6, <2>0, <2>1 DEF ClaimInv, QueuedOnce
  <2>2. CASE d # c
    BY <1>1, <1>3, <1>5, <1>6, <2>0, <2>2 DEF ClaimInv, QueuedOnce
  <2> QED BY <2>1, <2>2
<1>10. RunningOnce'
  <2> SUFFICES ASSUME NEW b \in Actors, actors'[b].pc = "run"
               PROVE  /\ actors'[b].event \in Events /\ ConversationOf[actors'[b].event] = actors'[b].conversation
                      /\ actors'[b].event \notin Items(queues'[actors'[b].conversation])
                      /\ actors'[b].event \notin Retryable => actors'[b].event \in claimed'
    BY DEF RunningOnce
  <2>1. CASE b = a
    BY <1>2, <1>3, <1>4, <1>5, <2>1
  <2>2. CASE b # a
    <3>1. actors'[b] = actors[b] /\ actors[b].conversation \in Conversations
      BY <1>4, <2>2 DEF TypeOK
    <3> QED BY <1>1, <1>2, <1>5, <3>1 DEF ClaimInv, RunningOnce
  <2> QED BY <2>1, <2>2
<1>11. HeldReserved'
  BY <1>5, <1>8, EventAssumption DEF ClaimInv, HeldReserved, TypeOK
<1>12. AtMostOnce'
  <2> SUFFICES ASSUME NEW f \in Events \ Retryable
               PROVE  runs'[f] <= 1 /\ (runs'[f] = 1 => f \in claimed')
    BY DEF AtMostOnce
  <2>1. CASE f = e
    BY <1>3, <1>5, <1>7, <2>1
  <2>2. CASE f # e
    BY <1>5, <1>6, <2>2 DEF ClaimInv, AtMostOnce
  <2> QED BY <2>1, <2>2
<1> QED BY <1>9, <1>10, <1>11, <1>12 DEF ClaimInv

\* TurnReturns: the reservation that is released is the one of the turn that
\* returns, and no other turn needs it.
LEMMA TurnReturnsClaims ==
  ASSUME ClaimInv, TypeOK, TypeOK', OneActorPerQueue, NEW a \in Actors, TurnReturns(a)
  PROVE  ClaimInv'
<1>0. PICK e : e = actors[a].event
  OBVIOUS
<1>1. /\ actors[a].pc = "run" /\ actors'[a].pc = "returned"
      /\ \A b \in Actors \ {a} : actors'[b] = actors[b]
      /\ UNCHANGED <<queues, claimed, runs, lifecycle>> /\ reserved' = reserved \ {e}
  BY <1>0 DEF TurnReturns, Step, TypeOK, ActorRecord, history
<1>2. /\ e \in Events /\ ConversationOf[e] = actors[a].conversation /\ actors[a].conversation \in Conversations
      /\ e \notin Items(queues[ConversationOf[e]])
  BY <1>0, <1>1 DEF ClaimInv, RunningOnce, TypeOK
<1>3. \A b \in Actors : actors[b].pc = "run" /\ actors[b].event = e => b = a
  <2> SUFFICES ASSUME NEW b \in Actors, actors[b].pc = "run", actors[b].event = e
               PROVE  b = a
    OBVIOUS
  <2>1. actors[b].conversation = actors[a].conversation
    BY <1>2 DEF ClaimInv, RunningOnce
  <2>2. Serves(a, actors[a].conversation) /\ Serves(b, actors[a].conversation)
    BY <1>1, <2>1 DEF Serves, Serving
  <2> QED BY <1>2, <2>2 DEF OneActorPerQueue
<1>4. ~Held(e)'
  BY <1>1, <1>2, <1>3 DEF Held
<1>5. \A f \in Events \ {e} : Held(f)' <=> Held(f)
  BY <1>0, <1>1 DEF Held
<1>6. HeldReserved'
  BY <1>1, <1>4, <1>5, EventAssumption DEF ClaimInv, HeldReserved, TypeOK
<1>7. QueuedOnce' /\ AtMostOnce'
  BY <1>1 DEF ClaimInv, QueuedOnce, AtMostOnce
<1>8. RunningOnce'
  BY <1>1 DEF ClaimInv, RunningOnce
<1> QED BY <1>6, <1>7, <1>8 DEF ClaimInv

\* A fresh process holds nothing in memory; what it has claimed is durable.
LEMMA FreshClaims ==
  (queues = [c \in Conversations |-> NoQueue] /\ actors = [a \in Actors |-> IdleActor]
   /\ reserved = {} /\ AtMostOnce)
  => ClaimInv
<1> SUFFICES ASSUME queues = [c \in Conversations |-> NoQueue],
                    actors = [a \in Actors |-> IdleActor], reserved = {}, AtMostOnce
             PROVE  ClaimInv
  OBVIOUS
<1>1. \A c \in Conversations : Items(queues[c]) = {} /\ Distinct(queues[c].items)
  BY DEF Items, Distinct, NoQueue
<1>2. \A a \in Actors : actors[a].pc = "idle"
  BY DEF IdleActor
<1>3. QueuedOnce /\ RunningOnce
  BY <1>1, <1>2 DEF QueuedOnce, RunningOnce
<1>4. HeldReserved
  BY <1>1, <1>2, EventAssumption DEF HeldReserved, Held
<1> QED BY <1>3, <1>4 DEF ClaimInv

\* ClaimIngress, submitFriendRequest and the release of a reservation: no
\* claimed event begins two turns, restarts included, and a friend request is
\* reserved exactly while a turn for it waits or runs.
THEOREM ClaimsAreKept == Spec => []ClaimsHold
<1>1. Init => ClaimInv
  <2>1. Init => AtMostOnce
    BY DEF Init, AtMostOnce
  <2> QED BY <2>1, FreshClaims DEF Init
<1>2. TypeOK /\ TypeOK' /\ OneActorPerQueue /\ ClaimInv /\ [Next]_vars => ClaimInv'
  <2> SUFFICES ASSUME TypeOK, TypeOK', OneActorPerQueue, ClaimInv, [Next]_vars PROVE ClaimInv'
    OBVIOUS
  <2>1. ASSUME NEW e \in Events, Submit(e) PROVE ClaimInv'
    BY <2>1, SubmitClaims
  <2>2. ASSUME NEW c \in Conversations, Cancel(c) PROVE ClaimInv'
    <3>1. \A b \in Actors : /\ actors'[b].pc = actors[b].pc /\ actors'[b].event = actors[b].event
                            /\ actors'[b].conversation = actors[b].conversation
      BY <2>2, CancelledType DEF Cancel, TypeOK, Causes
    <3> QED BY <2>2, <3>1, SameClaims DEF Cancel, history
  <2>3. ASSUME NEW a \in Actors, AcquireSlot(a) PROVE ClaimInv'
    <3>1. /\ actors[a].pc = "acquire" /\ actors'[a].pc = "loop"
          /\ \A b \in Actors \ {a} : actors'[b] = actors[b]
      BY <2>3 DEF AcquireSlot, Step, TypeOK, ActorRecord
    <3> QED BY <2>3, <3>1, SameClaims DEF AcquireSlot, history
  <2>4. ASSUME NEW a \in Actors, DiscardQueue(a) PROVE ClaimInv'
    <3> DEFINE c == actors[a].conversation
    <3>1. /\ actors[a].pc = "acquire" /\ actors'[a].pc = "idle" /\ c \in Conversations
          /\ \A b \in Actors \ {a} : actors'[b] = actors[b]
      BY <2>4 DEF DiscardQueue, TypeOK, IdleActor
    <3>2. queues'[c] = NoQueue /\ \A d \in Conversations \ {c} : queues'[d] = queues[d]
      BY <2>4, <3>1 DEF DiscardQueue, DropQueue, TypeOK
    <3> QED BY <2>4, <3>1, <3>2, DroppedClaims DEF DiscardQueue, history
  <2>5. ASSUME NEW a \in Actors, LeaveQueue(a) PROVE ClaimInv'
    <3> DEFINE c == actors[a].conversation
    <3>1. /\ actors[a].pc = "loop" /\ actors'[a].pc = "release" /\ c \in Conversations
          /\ \A b \in Actors \ {a} : actors'[b] = actors[b]
      BY <2>5 DEF LeaveQueue, Step, TypeOK, ActorRecord
    <3>2. queues'[c] = NoQueue /\ \A d \in Conversations \ {c} : queues'[d] = queues[d]
      BY <2>5, <3>1 DEF LeaveQueue, DropQueue, TypeOK
    <3>3. UNCHANGED <<claimed, reserved, runs, lifecycle>> /\ (lifecycle = "cancelled" \/ queues[c].items = <<>>)
      BY <2>5 DEF LeaveQueue, history
    <3> QED BY <3>1, <3>2, <3>3, DroppedClaims
  <2>6. ASSUME NEW a \in Actors, NextTurn(a) PROVE ClaimInv'
    BY <2>6, NextTurnClaims
  <2>7. ASSUME NEW a \in Actors, TurnTimeout(a) PROVE ClaimInv'
    <3>1. /\ actors'[a].pc = actors[a].pc /\ actors'[a].event = actors[a].event
          /\ actors'[a].conversation = actors[a].conversation
          /\ \A b \in Actors \ {a} : actors'[b] = actors[b]
      BY <2>7 DEF TurnTimeout, TypeOK, ActorRecord
    <3> QED BY <2>7, <3>1, SameClaims DEF TurnTimeout, history
  <2>8. ASSUME NEW a \in Actors, TurnReturns(a) PROVE ClaimInv'
    BY <2>8, TurnReturnsClaims
  <2>9. ASSUME NEW a \in Actors, Finish(a) PROVE ClaimInv'
    <3>1. /\ actors[a].pc = "returned" /\ actors'[a].pc = "loop"
          /\ \A b \in Actors \ {a} : actors'[b] = actors[b]
      BY <2>9 DEF Finish, TypeOK, ActorRecord
    <3>2. \A c \in Conversations : queues'[c].items = queues[c].items
      BY <2>9 DEF Finish, TypeOK, QueueRecord
    <3> QED BY <2>9, <3>1, <3>2, SameClaims DEF Finish, history
  <2>10. ASSUME NEW a \in Actors, ReleaseSlot(a) PROVE ClaimInv'
    <3>1. /\ actors[a].pc = "release" /\ actors'[a].pc = "idle"
          /\ \A b \in Actors \ {a} : actors'[b] = actors[b]
      BY <2>10 DEF ReleaseSlot, TypeOK, IdleActor
    <3> QED BY <2>10, <3>1, SameClaims DEF ReleaseSlot, history
  <2>11. CASE BeginShutdown \/ ShutdownReturns \/ UNCHANGED vars
    BY <2>11, SameClaims DEF BeginShutdown, ShutdownReturns, vars, history
  <2>12. CASE DrainTimeout
    <3>1. \A b \in Actors : /\ actors'[b].pc = actors[b].pc /\ actors'[b].event = actors[b].event
                            /\ actors'[b].conversation = actors[b].conversation
      BY <2>12, CancelledType DEF DrainTimeout, TypeOK, Causes
    <3> QED BY <2>12, <3>1, SameClaims DEF DrainTimeout, history
  <2>13. CASE Restart
    <3>1. AtMostOnce'
      BY <2>13 DEF Restart, ClaimInv, AtMostOnce
    <3>2. ((queues = [c \in Conversations |-> NoQueue] /\ actors = [a \in Actors |-> IdleActor]
            /\ reserved = {} /\ AtMostOnce) => ClaimInv)'
      BY FreshClaims, PTL
    <3> QED BY <2>13, <3>1, <3>2 DEF Restart
  <2> QED
    BY <2>1, <2>2, <2>3, <2>4, <2>5, <2>6, <2>7, <2>8, <2>9, <2>10, <2>11, <2>12,
       <2>13 DEF Next, ActorStep
<1>3. TypeOK /\ ClaimInv => ClaimsHold
  BY ClaimInvImplies
<1> QED BY <1>1, <1>2, <1>3, TypeCorrect, SchedulerSafe, PTL DEF Spec

-----------------------------------------------------------------------------
(* The counts *)

\* The turns that wait, as pairs of a conversation and a place in its queue,
\* and the conversations in which a stop command waits.
WaitingIn(qs) == UNION {{c} \X DOMAIN qs[c].items : c \in Conversations}
MarkedIn(qs) == {c \in Conversations : qs[c].controlQueued}

\* pending counts finitely many turns, also where there are infinitely many
\* conversations.
PendingInv ==
    /\ IsFiniteSet(WaitingIn(queues)) /\ pending = Cardinality(WaitingIn(queues))
    /\ IsFiniteSet(MarkedIn(queues)) /\ pending <= MaxPending + Cardinality(MarkedIn(queues))

\* CloseAdmission comes first, and Shutdown returns when no goroutine is left.
QuietInv ==
    /\ shutdown # "none" => ~accepting
    /\ shutdown = "returned" => \A a \in Actors : actors[a].pc = "idle"

\* One more element.
LEMMA AddedOne ==
  ASSUME NEW S, NEW x, x \notin S, IsFiniteSet(S)
  PROVE  IsFiniteSet(S \cup {x}) /\ Cardinality(S \cup {x}) = Cardinality(S) + 1
<1>1. IsFiniteSet(S \cup {x}) /\ Cardinality(S \cup {x}) = IF x \in S THEN Cardinality(S) ELSE Cardinality(S) + 1
  BY FS_AddElement, Zenon
<1> QED BY <1>1, Zenon

LEMMA WaitingPairs ==
  ASSUME NEW qs
  PROVE  /\ \A c \in Conversations : \A i : <<c, i>> \in WaitingIn(qs) <=> i \in DOMAIN qs[c].items
         /\ \A p \in WaitingIn(qs) : \E c \in Conversations : \E i \in DOMAIN qs[c].items : p = <<c, i>>
  BY DEF WaitingIn

\* Another turn at the end of a queue: the places 1..n become 1..n+1.
LEMMA WaitingGrows ==
  ASSUME NEW qs, NEW rs, NEW c \in Conversations, NEW n \in Nat,
         DOMAIN qs[c].items = 1..n, DOMAIN rs[c].items = 1..(n + 1),
         \A d \in Conversations \ {c} : rs[d] = qs[d],
         IsFiniteSet(WaitingIn(qs))
  PROVE  IsFiniteSet(WaitingIn(rs)) /\ Cardinality(WaitingIn(rs)) = Cardinality(WaitingIn(qs)) + 1
<1>1. WaitingIn(rs) = WaitingIn(qs) \cup {<<c, n + 1>>}
  <2>1. ASSUME NEW p \in WaitingIn(rs) PROVE p \in WaitingIn(qs) \cup {<<c, n + 1>>}
    <3>0. PICK d \in Conversations : \E i \in DOMAIN rs[d].items : p = <<d, i>>
      BY WaitingPairs
    <3>1. PICK i \in DOMAIN rs[d].items : p = <<d, i>>
      BY <3>0
    <3>2. CASE d = c
      <4>1. i \in 1..n \/ i = n + 1
        BY <3>1, <3>2
      <4> QED BY <3>1, <3>2, <4>1, WaitingPairs
    <3>3. CASE d # c
      BY <3>1, <3>3, WaitingPairs
    <3> QED BY <3>2, <3>3
  <2>2. ASSUME NEW p \in WaitingIn(qs) PROVE p \in WaitingIn(rs)
    <3>0. PICK d \in Conversations : \E i \in DOMAIN qs[d].items : p = <<d, i>>
      BY WaitingPairs
    <3>1. PICK i \in DOMAIN qs[d].items : p = <<d, i>>
      BY <3>0
    <3>2. CASE d = c
      <4>1. i \in 1..(n + 1)
        BY <3>1, <3>2
      <4> QED BY <3>1, <3>2, <4>1, WaitingPairs
    <3>3. CASE d # c
      BY <3>1, <3>3, WaitingPairs
    <3> QED BY <3>2, <3>3
  <2>3. <<c, n + 1>> \in WaitingIn(rs)
    <3>1. n + 1 \in 1..(n + 1)
      OBVIOUS
    <3> QED BY <3>1, WaitingPairs
  <2> QED BY <2>1, <2>2, <2>3
<1>2. <<c, n + 1>> \notin WaitingIn(qs)
  <2>1. n + 1 \notin 1..n
    OBVIOUS
  <2> QED BY <2>1, WaitingPairs
<1> QED BY <1>1, <1>2, AddedOne, Zenon

\* A queue that loses its turns from k + 1 to n: all of them, or its head.
LEMMA WaitingShrinks ==
  ASSUME NEW qs, NEW rs, NEW c \in Conversations, NEW n \in Nat, NEW k \in Nat, k <= n,
         DOMAIN qs[c].items = 1..n, DOMAIN rs[c].items = 1..k,
         \A d \in Conversations \ {c} : rs[d] = qs[d],
         IsFiniteSet(WaitingIn(qs))
  PROVE  IsFiniteSet(WaitingIn(rs)) /\ Cardinality(WaitingIn(rs)) = Cardinality(WaitingIn(qs)) - (n - k)
<1> DEFINE gone == {c} \X ((k + 1)..n)
<1>1. WaitingIn(rs) = WaitingIn(qs) \ gone
  <2>1. ASSUME NEW p \in WaitingIn(rs) PROVE p \in WaitingIn(qs) \ gone
    <3>0. PICK d \in Conversations : \E i \in DOMAIN rs[d].items : p = <<d, i>>
      BY WaitingPairs
    <3>1. PICK i \in DOMAIN rs[d].items : p = <<d, i>>
      BY <3>0
    <3>2. CASE d = c
      <4>1. i \in 1..n /\ i \notin (k + 1)..n
        BY <3>1, <3>2
      <4> QED BY <3>1, <3>2, <4>1, WaitingPairs
    <3>3. CASE d # c
      BY <3>1, <3>3, WaitingPairs
    <3> QED BY <3>2, <3>3
  <2>2. ASSUME NEW p \in WaitingIn(qs) \ gone PROVE p \in WaitingIn(rs)
    <3>0. PICK d \in Conversations : \E i \in DOMAIN qs[d].items : p = <<d, i>>
      BY WaitingPairs
    <3>1. PICK i \in DOMAIN qs[d].items : p = <<d, i>>
      BY <3>0
    <3>2. CASE d = c
      <4>1. i \in 1..n /\ i \notin (k + 1)..n
        BY <3>1, <3>2
      <4>2. i \in 1..k
        BY <4>1
      <4> QED BY <3>1, <3>2, <4>2, WaitingPairs
    <3>3. CASE d # c
      BY <3>1, <3>3, WaitingPairs
    <3> QED BY <3>2, <3>3
  <2> QED BY <2>1, <2>2
<1>2. WaitingIn(qs) \cap gone = gone
  <2>1. ASSUME NEW i \in (k + 1)..n PROVE <<c, i>> \in WaitingIn(qs)
    <3>1. i \in 1..n
      OBVIOUS
    <3> QED BY <3>1, WaitingPairs
  <2> QED BY <2>1
<1>3. Cardinality(gone) = n - k
  <2>1. IsFiniteSet((k + 1)..n) /\ Cardinality((k + 1)..n) = IF k + 1 > n THEN 0 ELSE n - (k + 1) + 1
    BY FS_Interval
  <2>2. Cardinality((k + 1)..n) = n - k
    BY <2>1
  <2>3. IsFiniteSet({c}) /\ Cardinality({c}) = 1
    BY FS_Singleton
  <2>4. Cardinality(gone) = 1 * Cardinality((k + 1)..n)
    BY <2>1, <2>3, FS_Product
  <2> QED BY <2>2, <2>4
<1> HIDE DEF gone
<1>4. IsFiniteSet(WaitingIn(qs) \ gone)
      /\ Cardinality(WaitingIn(qs) \ gone) = Cardinality(WaitingIn(qs)) - Cardinality(WaitingIn(qs) \cap gone)
  BY FS_Difference
<1> QED BY <1>1, <1>2, <1>3, <1>4

LEMMA QueueLen ==
  ASSUME NEW q \in QueueRecord
  PROVE  Len(q.items) \in Nat /\ DOMAIN q.items = 1..Len(q.items)
  BY DEF QueueRecord

\* The mark of one queue is set, cleared or kept.
LEMMA MarkedChanges ==
  ASSUME NEW qs, NEW rs, NEW c \in Conversations, qs[c].controlQueued \in BOOLEAN, rs[c].controlQueued \in BOOLEAN,
         \A d \in Conversations \ {c} : rs[d] = qs[d],
         IsFiniteSet(MarkedIn(qs))
  PROVE  /\ IsFiniteSet(MarkedIn(rs)) /\ Cardinality(MarkedIn(rs)) \in Nat /\ Cardinality(MarkedIn(qs)) \in Nat
         /\ rs[c].controlQueued = qs[c].controlQueued => Cardinality(MarkedIn(rs)) = Cardinality(MarkedIn(qs))
         /\ rs[c].controlQueued /\ ~qs[c].controlQueued => Cardinality(MarkedIn(rs)) = Cardinality(MarkedIn(qs)) + 1
         /\ ~rs[c].controlQueued /\ qs[c].controlQueued => Cardinality(MarkedIn(rs)) = Cardinality(MarkedIn(qs)) - 1
<1>1. CASE rs[c].controlQueued = qs[c].controlQueued
  <2>1. MarkedIn(rs) = MarkedIn(qs)
    BY <1>1 DEF MarkedIn
  <2> QED BY <1>1, <2>1, FS_CardinalityType
<1>2. CASE rs[c].controlQueued /\ ~qs[c].controlQueued
  <2>1. MarkedIn(rs) = MarkedIn(qs) \cup {c} /\ c \notin MarkedIn(qs)
    BY <1>2 DEF MarkedIn
  <2>2. IsFiniteSet(MarkedIn(rs)) /\ Cardinality(MarkedIn(rs)) = Cardinality(MarkedIn(qs)) + 1
    <3>1. IsFiniteSet(MarkedIn(qs) \cup {c}) /\ Cardinality(MarkedIn(qs) \cup {c}) = Cardinality(MarkedIn(qs)) + 1
      BY <2>1, AddedOne
    <3> QED BY <2>1, <3>1
  <2> QED BY <1>2, <2>2, FS_CardinalityType
<1>3. CASE ~rs[c].controlQueued /\ qs[c].controlQueued
  <2>1. MarkedIn(rs) = MarkedIn(qs) \ {c} /\ c \in MarkedIn(qs)
    BY <1>3 DEF MarkedIn
  <2> QED BY <1>3, <2>1, FS_RemoveElement, FS_CardinalityType, ZenonT(30)
<1> QED BY <1>1, <1>2, <1>3

\* A step that keeps the length and the mark of every queue.
LEMMA SamePending ==
  ASSUME PendingInv, TypeOK, TypeOK', pending' = pending,
         \A c \in Conversations : /\ queues'[c].items = queues[c].items
                                  /\ queues'[c].controlQueued = queues[c].controlQueued
  PROVE  PendingInv'
<1>1. WaitingIn(queues') = WaitingIn(queues)
  BY DEF WaitingIn
<1>2. MarkedIn(queues') = MarkedIn(queues)
  BY DEF MarkedIn
<1> QED BY <1>1, <1>2 DEF PendingInv

\* pending -= len(queue.items): a queue with a mark has at least one turn.
LEMMA DroppedPending ==
  ASSUME PendingInv, TypeOK, StopIsNext, NEW c \in Conversations, queues'[c] = NoQueue,
         \A d \in Conversations \ {c} : queues'[d] = queues[d],
         pending' = pending - Len(queues[c].items)
  PROVE  PendingInv'
<1> DEFINE n == Len(queues[c].items)
<1>1. queues[c] \in QueueRecord /\ n \in Nat /\ DOMAIN queues[c].items = 1..n
  BY QueueLen DEF TypeOK
<1>2. DOMAIN NoQueue.items = 1..0 /\ NoQueue.controlQueued = FALSE /\ queues[c].controlQueued \in BOOLEAN
  BY <1>1 DEF NoQueue, QueueRecord
<1>3. IsFiniteSet(WaitingIn(queues')) /\ Cardinality(WaitingIn(queues')) = Cardinality(WaitingIn(queues)) - (n - 0)
  <2> HIDE DEF n
  <2>1. 0 \in Nat /\ 0 <= n /\ DOMAIN queues'[c].items = 1..0
    BY <1>1, <1>2
  <2> QED BY <1>1, <2>1, WaitingShrinks, ZenonT(30) DEF PendingInv
<1>4. /\ IsFiniteSet(MarkedIn(queues')) /\ Cardinality(MarkedIn(queues')) \in Nat /\ Cardinality(MarkedIn(queues)) \in Nat
      /\ ~queues[c].controlQueued => Cardinality(MarkedIn(queues')) = Cardinality(MarkedIn(queues))
      /\ queues[c].controlQueued => Cardinality(MarkedIn(queues')) = Cardinality(MarkedIn(queues)) - 1
  BY <1>2, MarkedChanges DEF PendingInv
<1>5. queues[c].controlQueued => n >= 1
  <2>1. queues[c].controlQueued => queues[c].items # <<>>
    BY DEF StopIsNext
  <2> QED BY <1>1, <2>1 DEF QueueRecord
<1>6. Cardinality(WaitingIn(queues)) \in Nat
  BY FS_CardinalityType DEF PendingInv
<1> HIDE DEF n
<1>7. pending' = Cardinality(WaitingIn(queues'))
  BY <1>1, <1>3, <1>6 DEF PendingInv, n
<1>8. pending' <= MaxPending + Cardinality(MarkedIn(queues'))
  BY <1>1, <1>2, <1>4, <1>5, <1>6, LimitAssumption DEF PendingInv, n
<1> QED BY <1>3, <1>4, <1>7, <1>8 DEF PendingInv

\* Submit: within the limit, or past it by a turn that sets the queue's mark.
LEMMA SubmitPending ==
  ASSUME PendingInv, TypeOK, NEW e \in Events, Submit(e)
  PROVE  PendingInv'
<1>0. PICK c \in Conversations : c = ConversationOf[e]
  BY EventAssumption
<1> DEFINE q == queues[c]
<1> DEFINE n == Len(q.items)
<1>1. q \in QueueRecord /\ n \in Nat /\ DOMAIN q.items = 1..n /\ q.controlQueued \in BOOLEAN
  BY QueueLen DEF TypeOK, QueueRecord
<1>2. queues'[c] = Enqueued(q, e) /\ \A d \in Conversations \ {c} : queues'[d] = queues[d]
  BY <1>0 DEF Submit, TypeOK
<1>3. DOMAIN queues'[c].items = 1..(n + 1) /\ queues'[c].controlQueued = (q.controlQueued \/ e \in Priority)
  <2>1. q.items \in Seq(Events)
    BY <1>1 DEF QueueRecord
  <2>2. CASE e \in Priority
    <3>1. queues'[c].items = <<e>> \o q.items /\ queues'[c].controlQueued = TRUE
      BY <1>1, <1>2, <2>2 DEF Enqueued, QueueRecord
    <3>2. Len(<<e>> \o q.items) = n + 1 /\ DOMAIN (<<e>> \o q.items) = 1..(n + 1)
      BY <1>1, <2>1
    <3>3. DOMAIN queues'[c].items = 1..(n + 1)
      BY <3>1, <3>2
    <3>4. queues'[c].controlQueued = (q.controlQueued \/ e \in Priority)
      BY <2>2, <3>1
    <3> QED BY <3>3, <3>4
  <2>3. CASE e \notin Priority
    <3>1. queues'[c].items = Append(q.items, e) /\ queues'[c].controlQueued = q.controlQueued
      BY <1>1, <1>2, <2>3 DEF Enqueued, QueueRecord
    <3> QED BY <1>1, <2>1, <2>3, <3>1
  <2> QED BY <2>2, <2>3
<1>4. IsFiniteSet(WaitingIn(queues')) /\ Cardinality(WaitingIn(queues')) = Cardinality(WaitingIn(queues)) + 1
  <2> HIDE DEF n, q
  <2> QED BY <1>1, <1>2, <1>3, WaitingGrows DEF PendingInv, q
<1>5. /\ IsFiniteSet(MarkedIn(queues')) /\ Cardinality(MarkedIn(queues')) \in Nat /\ Cardinality(MarkedIn(queues)) \in Nat
      /\ queues'[c].controlQueued /\ ~q.controlQueued => Cardinality(MarkedIn(queues')) = Cardinality(MarkedIn(queues)) + 1
  BY <1>1, <1>2, <1>3, MarkedChanges DEF PendingInv
<1>6. Cardinality(WaitingIn(queues)) \in Nat
  BY FS_CardinalityType DEF PendingInv
<1>7. pending' = pending + 1
  BY DEF Submit
<1>8. pending' <= MaxPending + Cardinality(MarkedIn(queues'))
  <2>1. CASE PriorityBypass(e)
    <3>1. e \in Priority /\ ~q.controlQueued
      BY <1>0, <2>1 DEF PriorityBypass
    <3>2. Cardinality(MarkedIn(queues')) = Cardinality(MarkedIn(queues)) + 1
      <4>1. queues'[c].controlQueued
        BY <1>3, <3>1, Zenon
      <4> QED BY <1>5, <3>1, <4>1
    <3> QED BY <1>5, <1>6, <1>7, <3>2, LimitAssumption DEF PendingInv
  <2>2. CASE ~PriorityBypass(e)
    <3>1. pending < MaxPending
      BY <2>2 DEF Submit, WithinLimits
    <3> QED BY <1>5, <1>6, <1>7, <3>1, LimitAssumption DEF PendingInv
  <2> QED BY <2>1, <2>2
<1> QED BY <1>4, <1>5, <1>6, <1>7, <1>8 DEF PendingInv

\* nextTurn: the head leaves, and its mark with it.
LEMMA NextTurnPending ==
  ASSUME PendingInv, TypeOK, StopIsNext, NEW a \in Actors, NextTurn(a)
  PROVE  PendingInv'
<1>0. PICK c \in Conversations : c = actors[a].conversation
  BY DEF NextTurn, TypeOK
<1> DEFINE q == queues[c]
<1> DEFINE n == Len(q.items)
<1>1. q \in QueueRecord /\ q.items # <<>> /\ n \in Nat \ {0} /\ DOMAIN q.items = 1..n /\ q.controlQueued \in BOOLEAN
  <2>1. q \in QueueRecord /\ q.items # <<>>
    BY <1>0 DEF NextTurn, TypeOK
  <2> QED BY <2>1 DEF QueueRecord
<1>2. queues'[c] = Dequeued(q) /\ \A d \in Conversations \ {c} : queues'[d] = queues[d]
  BY <1>0 DEF NextTurn, TypeOK
<1>3. DOMAIN queues'[c].items = 1..(n - 1)
  <2>1. queues'[c].items = Tail(q.items) /\ q.items \in Seq(Events)
    BY <1>1, <1>2 DEF Dequeued, QueueRecord
  <2> QED BY <1>1, <2>1
<1>4. queues'[c].controlQueued = FALSE
  <2>1. queues'[c].controlQueued = (q.controlQueued /\ Head(q.items) \notin Priority)
    BY <1>1, <1>2 DEF Dequeued, QueueRecord
  <2>2. q.controlQueued => Head(q.items) \in Priority
    BY DEF StopIsNext
  <2> QED BY <1>1, <2>1, <2>2
<1>5. IsFiniteSet(WaitingIn(queues')) /\ Cardinality(WaitingIn(queues')) = Cardinality(WaitingIn(queues)) - 1
  <2>1. n \in Nat /\ n - 1 \in Nat /\ n - 1 <= n /\ n - (n - 1) = 1
    BY <1>1
  <2> HIDE DEF n, q
  <2>2. IsFiniteSet(WaitingIn(queues')) /\ Cardinality(WaitingIn(queues')) = Cardinality(WaitingIn(queues)) - (n - (n - 1))
    <3>1. DOMAIN queues[c].items = 1..n /\ IsFiniteSet(WaitingIn(queues)) /\ \A d \in Conversations \ {c} : queues'[d] = queues[d]
      BY <1>1, <1>2 DEF PendingInv, q
    <3> QED BY <1>3, <2>1, <3>1, WaitingShrinks, ZenonT(30)
  <2> QED BY <2>1, <2>2
<1>6. /\ IsFiniteSet(MarkedIn(queues')) /\ Cardinality(MarkedIn(queues')) \in Nat /\ Cardinality(MarkedIn(queues)) \in Nat
      /\ Cardinality(MarkedIn(queues')) >= Cardinality(MarkedIn(queues)) - 1
  <2>1. /\ IsFiniteSet(MarkedIn(queues')) /\ Cardinality(MarkedIn(queues')) \in Nat /\ Cardinality(MarkedIn(queues)) \in Nat
        /\ ~q.controlQueued => Cardinality(MarkedIn(queues')) = Cardinality(MarkedIn(queues))
        /\ q.controlQueued => Cardinality(MarkedIn(queues')) = Cardinality(MarkedIn(queues)) - 1
    BY <1>1, <1>2, <1>4, MarkedChanges DEF PendingInv
  <2> QED BY <1>1, <2>1
<1>7. Cardinality(WaitingIn(queues)) \in Nat
  BY FS_CardinalityType DEF PendingInv
<1>8. pending' = pending - 1
  BY DEF NextTurn
<1> QED BY <1>5, <1>6, <1>7, <1>8, LimitAssumption DEF PendingInv

LEMMA FreshPending ==
  (queues = [c \in Conversations |-> NoQueue] /\ pending = 0) => PendingInv
<1> SUFFICES ASSUME queues = [c \in Conversations |-> NoQueue], pending = 0
             PROVE  PendingInv
  OBVIOUS
<1>1. \A c \in Conversations : DOMAIN queues[c].items = {} /\ queues[c].controlQueued = FALSE
  BY DEF NoQueue
<1>2. WaitingIn(queues) = {}
  BY <1>1, WaitingPairs
<1>3. MarkedIn(queues) = {}
  BY <1>1 DEF MarkedIn
<1>4. IsFiniteSet({}) /\ Cardinality({}) = 0
  BY FS_EmptySet
<1> QED BY <1>2, <1>3, <1>4, LimitAssumption DEF PendingInv

-----------------------------------------------------------------------------
(* Slots *)

HoldingIn(as) == {a \in Actors : as[a].pc \in Holding}

LEMMA SameSlots ==
  ASSUME SlotsBounded, slots' = slots, \A b \in Actors : actors'[b].pc \in Holding <=> actors[b].pc \in Holding
  PROVE  SlotsBounded'
<1>1. HoldingIn(actors') = HoldingIn(actors)
  BY DEF HoldingIn
<1> QED BY <1>1 DEF SlotsBounded, HoldingIn

LEMMA AcquireSlots ==
  ASSUME SlotsBounded, TypeOK, NEW a \in Actors, AcquireSlot(a)
  PROVE  SlotsBounded'
<1>1. /\ actors[a].pc = "acquire" /\ actors'[a].pc = "loop" /\ slots' = slots + 1 /\ slots < MaxConcurrent
      /\ \A b \in Actors \ {a} : actors'[b] = actors[b]
  BY DEF AcquireSlot, Step, TypeOK, ActorRecord
<1>2. HoldingIn(actors') = HoldingIn(actors) \cup {a} /\ a \notin HoldingIn(actors)
  BY <1>1 DEF HoldingIn, Holding
<1>3. IsFiniteSet(HoldingIn(actors))
  BY ActorAssumption, FS_Subset DEF HoldingIn
<1>4. Cardinality(HoldingIn(actors) \cup {a}) = Cardinality(HoldingIn(actors)) + 1
  BY <1>2, <1>3, AddedOne
<1>5. slots' = Cardinality(HoldingIn(actors'))
  BY <1>1, <1>2, <1>4 DEF SlotsBounded, HoldingIn
<1>6. slots' <= MaxConcurrent
  BY <1>1, LimitAssumption DEF TypeOK
<1> QED BY <1>5, <1>6 DEF SlotsBounded, HoldingIn

LEMMA ReleaseSlots ==
  ASSUME SlotsBounded, TypeOK, NEW a \in Actors, ReleaseSlot(a)
  PROVE  SlotsBounded'
<1>1. /\ actors[a].pc = "release" /\ actors'[a].pc = "idle" /\ slots' = slots - 1
      /\ \A b \in Actors \ {a} : actors'[b] = actors[b]
  BY DEF ReleaseSlot, TypeOK, IdleActor
<1>2. HoldingIn(actors') = HoldingIn(actors) \ {a} /\ a \in HoldingIn(actors)
  BY <1>1 DEF HoldingIn, Holding
<1>3. IsFiniteSet(HoldingIn(actors))
  BY ActorAssumption, FS_Subset DEF HoldingIn
<1>4. Cardinality(HoldingIn(actors) \ {a}) = Cardinality(HoldingIn(actors)) - 1
  BY <1>2, <1>3, FS_RemoveElement
<1>5. slots' = Cardinality(HoldingIn(actors'))
  BY <1>1, <1>2, <1>4 DEF SlotsBounded, HoldingIn
<1>6. slots' <= MaxConcurrent
  BY <1>1, LimitAssumption DEF TypeOK, SlotsBounded
<1> QED BY <1>5, <1>6 DEF SlotsBounded, HoldingIn

LEMMA FreshSlots ==
  (actors = [a \in Actors |-> IdleActor] /\ slots = 0) => SlotsBounded
<1> SUFFICES ASSUME actors = [a \in Actors |-> IdleActor], slots = 0
             PROVE  SlotsBounded
  OBVIOUS
<1>1. \A a \in Actors : actors[a].pc \notin Holding
  BY DEF IdleActor, Holding
<1>2. HoldingIn(actors) = {}
  BY <1>1 DEF HoldingIn
<1>3. Cardinality({}) = 0
  BY FS_EmptySet
<1> QED BY <1>2, <1>3, LimitAssumption DEF SlotsBounded, HoldingIn

-----------------------------------------------------------------------------
CountInv == SlotsBounded /\ PendingInv /\ QuietInv

\* With one actor per queue, the counts are those of LimitsKept, and all of
\* them are zero when Shutdown has returned.
LEMMA CountInvImplies ==
  ASSUME TypeOK, OneActorPerQueue, QueuesBounded, CountInv
  PROVE  LimitsKept
<1>1. PendingCounts
  BY DEF CountInv, PendingInv, PendingCounts, WaitingIn, MarkedIn
<1>2. ShutdownIsQuiet
  <2> SUFFICES ASSUME shutdown = "returned"
               PROVE  pending = 0 /\ slots = 0 /\ \A c \in Conversations : queues[c] = NoQueue
    BY DEF ShutdownIsQuiet
  <2>1. \A a \in Actors : actors[a].pc = "idle"
    BY DEF CountInv, QuietInv
  <2>2. \A c \in Conversations : queues[c] = NoQueue
    <3>1. \A c \in Conversations : ~\E a \in Actors : Serves(a, c)
      BY <2>1 DEF Serves, Serving
    <3> QED BY <3>1 DEF OneActorPerQueue
  <2>3. IsFiniteSet({}) /\ Cardinality({}) = 0
    BY FS_EmptySet
  <2>4. pending = 0
    <3>1. \A c \in Conversations : DOMAIN queues[c].items = {}
      BY <2>2 DEF NoQueue
    <3>2. WaitingIn(queues) = {}
      BY <3>1, WaitingPairs
    <3> QED BY <2>3, <3>2 DEF CountInv, PendingInv
  <2>5. slots = 0
    <3>1. HoldingIn(actors) = {}
      BY <2>1 DEF HoldingIn, Holding
    <3> QED BY <2>3, <3>1 DEF CountInv, SlotsBounded, HoldingIn
  <2> QED BY <2>2, <2>4, <2>5
<1> QED BY <1>1, <1>2 DEF LimitsKept, CountInv

\* Submit only while admission is open.
LEMMA SubmitCounts ==
  ASSUME TypeOK, CountInv, NEW e \in Events, Submit(e)
  PROVE  CountInv'
<1>1. PendingInv'
  BY SubmitPending DEF CountInv
<1>2. QuietInv'
  BY DEF CountInv, QuietInv, Submit
<1>3. \A b \in Actors : Interrupted(e)[b].pc = actors[b].pc
  BY CancelledType DEF Interrupted, TypeOK, Causes
<1>4. SlotsBounded'
  <2>1. CASE queues[ConversationOf[e]].running
    BY <1>3, <2>1, SameSlots DEF Submit, CountInv
  <2>2. CASE ~queues[ConversationOf[e]].running
    <3>1. PICK a \in Actors : /\ actors[a].pc = "idle"
                              /\ actors' = [Interrupted(e) EXCEPT ![a] =
                                     [IdleActor EXCEPT !.pc = "acquire", !.conversation = ConversationOf[e]]]
      BY <2>2 DEF Submit
    <3>2. actors'[a].pc = "acquire"
      BY <3>1 DEF IdleActor, Interrupted, TypeOK
    <3>3. \A b \in Actors \ {a} : actors'[b] = Interrupted(e)[b]
      BY <3>1 DEF Interrupted, TypeOK
    <3>4. \A b \in Actors : actors'[b].pc \in Holding <=> actors[b].pc \in Holding
      BY <1>3, <3>1, <3>2, <3>3 DEF Holding
    <3> QED BY <3>4, SameSlots DEF Submit, CountInv
  <2> QED BY <2>1, <2>2
<1> QED BY <1>1, <1>2, <1>4 DEF CountInv

\* The steps of a goroutine are not enabled when Shutdown has returned.
LEMMA ActorStepQuiet ==
  ASSUME CountInv, NEW a \in Actors, actors[a].pc # "idle", UNCHANGED <<accepting, shutdown>>
  PROVE  QuietInv'
  BY DEF CountInv, QuietInv

\* Submit, nextTurn, discardQueue, the slots and Shutdown: at every moment
\* pending, the slots and the lengths of the queues are what they count, at
\* most what the limits and the waiting stop commands allow, and nothing is
\* left when Shutdown has returned.
THEOREM LimitsAreKept == Spec => []LimitsKept
<1>1. Init => CountInv
  <2>1. Init => QuietInv
    BY DEF Init, QuietInv
  <2> QED BY <2>1, FreshSlots, FreshPending DEF Init, CountInv
<1>2. TypeOK /\ TypeOK' /\ StopIsNext /\ CountInv /\ [Next]_vars => CountInv'
  <2> SUFFICES ASSUME TypeOK, TypeOK', StopIsNext, CountInv, [Next]_vars PROVE CountInv'
    OBVIOUS
  <2>1. ASSUME NEW e \in Events, Submit(e) PROVE CountInv'
    BY <2>1, SubmitCounts
  <2>2. ASSUME NEW c \in Conversations, Cancel(c) PROVE CountInv'
    <3>1. \A b \in Actors : actors'[b].pc = actors[b].pc
      BY <2>2, CancelledType DEF Cancel, TypeOK, Causes
    <3>2. QuietInv'
      BY <2>2, <3>1 DEF Cancel, CountInv, QuietInv
    <3> QED BY <2>2, <3>1, <3>2, SameSlots, SamePending DEF Cancel, CountInv
  <2>3. ASSUME NEW a \in Actors, AcquireSlot(a) PROVE CountInv'
    <3>1. QuietInv'
      BY <2>3, ActorStepQuiet DEF AcquireSlot
    <3> QED BY <2>3, <3>1, AcquireSlots, SamePending DEF AcquireSlot, CountInv
  <2>4. ASSUME NEW a \in Actors, DiscardQueue(a) PROVE CountInv'
    <3> DEFINE c == actors[a].conversation
    <3>1. /\ actors[a].pc = "acquire" /\ actors'[a].pc = "idle" /\ c \in Conversations
          /\ \A b \in Actors \ {a} : actors'[b] = actors[b]
      BY <2>4 DEF DiscardQueue, TypeOK, IdleActor
    <3>2. queues'[c] = NoQueue /\ \A d \in Conversations \ {c} : queues'[d] = queues[d]
      BY <2>4, <3>1 DEF DiscardQueue, DropQueue, TypeOK
    <3>3. PendingInv'
      BY <2>4, <3>1, <3>2, DroppedPending DEF DiscardQueue, DropQueue, CountInv
    <3>4. SlotsBounded'
      BY <2>4, <3>1, SameSlots DEF DiscardQueue, CountInv, Holding
    <3>5. QuietInv'
      BY <2>4, ActorStepQuiet DEF DiscardQueue
    <3> QED BY <3>3, <3>4, <3>5 DEF CountInv
  <2>5. ASSUME NEW a \in Actors, LeaveQueue(a) PROVE CountInv'
    <3> DEFINE c == actors[a].conversation
    <3>1. /\ actors[a].pc = "loop" /\ actors'[a].pc = "release" /\ c \in Conversations
          /\ \A b \in Actors \ {a} : actors'[b] = actors[b]
      BY <2>5 DEF LeaveQueue, Step, TypeOK, ActorRecord
    <3>2. queues'[c] = NoQueue /\ \A d \in Conversations \ {c} : queues'[d] = queues[d]
      BY <2>5, <3>1 DEF LeaveQueue, DropQueue, TypeOK
    <3>3. PendingInv'
      BY <2>5, <3>1, <3>2, DroppedPending DEF LeaveQueue, DropQueue, CountInv
    <3>4. SlotsBounded'
      BY <2>5, <3>1, SameSlots DEF LeaveQueue, CountInv, Holding
    <3>5. QuietInv'
      BY <2>5, ActorStepQuiet DEF LeaveQueue
    <3> QED BY <3>3, <3>4, <3>5 DEF CountInv
  <2>6. ASSUME NEW a \in Actors, NextTurn(a) PROVE CountInv'
    <3>1. /\ actors[a].pc = "loop" /\ actors'[a].pc = "run"
          /\ \A b \in Actors \ {a} : actors'[b] = actors[b]
      BY <2>6, SMTT(30) DEF NextTurn, TypeOK, ActorRecord
    <3>2. SlotsBounded'
      BY <2>6, <3>1, SameSlots DEF NextTurn, CountInv, Holding
    <3>3. QuietInv'
      BY <2>6, ActorStepQuiet DEF NextTurn
    <3> QED BY <2>6, <3>2, <3>3, NextTurnPending DEF CountInv
  <2>7. ASSUME NEW a \in Actors, TurnTimeout(a) PROVE CountInv'
    <3>1. /\ actors'[a].pc = actors[a].pc /\ actors[a].pc # "idle"
          /\ \A b \in Actors \ {a} : actors'[b] = actors[b]
      BY <2>7 DEF TurnTimeout, TypeOK, ActorRecord, InTurn
    <3>2. QuietInv'
      BY <2>7, <3>1, ActorStepQuiet DEF TurnTimeout
    <3> QED BY <2>7, <3>1, <3>2, SameSlots, SamePending DEF TurnTimeout, CountInv
  <2>8. ASSUME NEW a \in Actors, TurnReturns(a) PROVE CountInv'
    <3>1. /\ actors[a].pc = "run" /\ actors'[a].pc = "returned"
          /\ \A b \in Actors \ {a} : actors'[b] = actors[b]
      BY <2>8 DEF TurnReturns, Step, TypeOK, ActorRecord
    <3>2. QuietInv'
      BY <2>8, <3>1, ActorStepQuiet DEF TurnReturns
    <3>3. SlotsBounded'
      BY <2>8, <3>1, SameSlots DEF TurnReturns, CountInv, Holding
    <3> QED BY <2>8, <3>2, <3>3, SamePending DEF TurnReturns, CountInv
  <2>9. ASSUME NEW a \in Actors, Finish(a) PROVE CountInv'
    <3>1. /\ actors[a].pc = "returned" /\ actors'[a].pc = "loop"
          /\ \A b \in Actors \ {a} : actors'[b] = actors[b]
      BY <2>9 DEF Finish, TypeOK, ActorRecord
    <3>2. \A c \in Conversations : /\ queues'[c].items = queues[c].items
                                   /\ queues'[c].controlQueued = queues[c].controlQueued
      BY <2>9 DEF Finish, TypeOK, QueueRecord
    <3>3. QuietInv'
      BY <2>9, <3>1, ActorStepQuiet DEF Finish
    <3>4. SlotsBounded'
      BY <2>9, <3>1, SameSlots DEF Finish, CountInv, Holding
    <3> QED BY <2>9, <3>2, <3>3, <3>4, SamePending DEF Finish, CountInv
  <2>10. ASSUME NEW a \in Actors, ReleaseSlot(a) PROVE CountInv'
    <3>1. QuietInv'
      BY <2>10, ActorStepQuiet DEF ReleaseSlot
    <3> QED BY <2>10, <3>1, ReleaseSlots, SamePending DEF ReleaseSlot, CountInv
  <2>11. CASE BeginShutdown \/ ShutdownReturns \/ UNCHANGED vars
    <3>1. UNCHANGED <<queues, pending, slots, actors>>
      BY <2>11 DEF BeginShutdown, ShutdownReturns, vars
    <3>2. QuietInv'
      BY <2>11 DEF BeginShutdown, ShutdownReturns, vars, CountInv, QuietInv
    <3> QED BY <3>1, <3>2, SameSlots, SamePending DEF CountInv
  <2>12. CASE DrainTimeout
    <3>1. \A b \in Actors : actors'[b].pc = actors[b].pc
      BY <2>12, CancelledType DEF DrainTimeout, TypeOK, Causes
    <3>2. QuietInv'
      BY <2>12, <3>1 DEF DrainTimeout, CountInv, QuietInv
    <3> QED BY <2>12, <3>1, <3>2, SameSlots, SamePending DEF DrainTimeout, CountInv
  <2>13. CASE Restart
    <3>1. ((actors = [a \in Actors |-> IdleActor] /\ slots = 0) => SlotsBounded)'
      BY FreshSlots, PTL
    <3>2. ((queues = [c \in Conversations |-> NoQueue] /\ pending = 0) => PendingInv)'
      BY FreshPending, PTL
    <3>3. QuietInv'
      BY <2>13 DEF Restart, QuietInv
    <3> QED BY <2>13, <3>1, <3>2, <3>3 DEF Restart, CountInv
  <2> QED
    BY <2>1, <2>2, <2>3, <2>4, <2>5, <2>6, <2>7, <2>8, <2>9, <2>10, <2>11, <2>12,
       <2>13 DEF Next, ActorStep
<1>3. TypeOK /\ OneActorPerQueue /\ QueuesBounded /\ CountInv => LimitsKept
  BY CountInvImplies
<1> QED BY <1>1, <1>2, <1>3, TypeCorrect, SchedulerSafe, PTL DEF Spec
-----------------------------------------------------------------------------
(* The order of turns *)

\* FIFO for one conversation: what was admitted, what began, the queue, and
\* whether the lifecycle is live.
InOrder(adm, beg, items, live) ==
    /\ Len(beg) <= Len(adm)
    /\ \A i \in 1..Len(beg) : beg[i] = adm[i]
    /\ live => /\ Len(adm) = Len(beg) + NormalUpTo(items, Len(items))
               /\ \A i \in 1..Len(items) : items[i] \in Normal =>
                     adm[Len(beg) + NormalUpTo(items, i)] = items[i]

NormalPlaces(items, i) == {j \in 1..i : items[j] \in Normal}

\* The places counted are finitely many.
LEMMA NormalPlacesFinite ==
  ASSUME NEW s, NEW n \in Nat
  PROVE  /\ IsFiniteSet(NormalPlaces(s, n)) /\ NormalUpTo(s, n) \in Nat
         /\ NormalUpTo(s, n) = Cardinality(NormalPlaces(s, n))
<1>1. IsFiniteSet(1..n)
  <2>1. 1 \in Int /\ n \in Int
    OBVIOUS
  <2> QED BY <2>1, FS_Interval
<1>2. NormalPlaces(s, n) \subseteq 1..n
  BY DEF NormalPlaces
<1>3. IsFiniteSet(NormalPlaces(s, n))
  BY <1>1, <1>2, FS_Subset
<1> QED BY <1>3, FS_CardinalityType DEF NormalPlaces, NormalUpTo

\* The count depends on the entries up to the place only.
LEMMA NormalUpToSame ==
  ASSUME NEW s, NEW t, NEW n \in Nat, \A j \in 1..n : s[j] = t[j]
  PROVE  NormalUpTo(s, n) = NormalUpTo(t, n)
<1>1. NormalPlaces(s, n) = NormalPlaces(t, n)
  BY DEF NormalPlaces
<1> QED BY <1>1, NormalPlacesFinite

\* One entry more counts if it is an ordinary turn.
LEMMA NormalUpToNext ==
  ASSUME NEW s, NEW n \in Nat
  PROVE  NormalUpTo(s, n + 1) = NormalUpTo(s, n) + (IF s[n + 1] \in Normal THEN 1 ELSE 0)
<1>1. n + 1 \in Nat /\ n + 1 \notin 1..n /\ 1..(n + 1) = (1..n) \cup {n + 1}
  OBVIOUS
<1>2. /\ IsFiniteSet(NormalPlaces(s, n)) /\ NormalUpTo(s, n) \in Nat
      /\ NormalUpTo(s, n) = Cardinality(NormalPlaces(s, n))
      /\ NormalUpTo(s, n + 1) = Cardinality(NormalPlaces(s, n + 1))
  BY <1>1, NormalPlacesFinite
<1>3. CASE s[n + 1] \in Normal
  <2>1. NormalPlaces(s, n + 1) = NormalPlaces(s, n) \cup {n + 1} /\ n + 1 \notin NormalPlaces(s, n)
    BY <1>1, <1>3 DEF NormalPlaces
  <2>2. Cardinality(NormalPlaces(s, n) \cup {n + 1}) = Cardinality(NormalPlaces(s, n)) + 1
    BY <1>2, <2>1, FS_AddElement
  <2> QED BY <1>2, <1>3, <2>1, <2>2
<1>4. CASE s[n + 1] \notin Normal
  <2>1. NormalPlaces(s, n + 1) = NormalPlaces(s, n)
    BY <1>1, <1>4 DEF NormalPlaces
  <2> QED BY <1>2, <1>4, <2>1
<1> QED BY <1>3, <1>4

\* The count of a queue is the one of the queue behind its head, and one more
\* if the head is an ordinary turn.
LEMMA NormalUpToShift ==
  ASSUME NEW s, NEW t, NEW n \in Nat, \A j \in 1..n : t[j] = s[j + 1]
  PROVE  NormalUpTo(s, n + 1) = NormalUpTo(t, n) + (IF s[1] \in Normal THEN 1 ELSE 0)
<1>1. n + 1 \in Nat
  OBVIOUS
<1>2. /\ IsFiniteSet(NormalPlaces(t, n)) /\ NormalUpTo(t, n) \in Nat
      /\ NormalUpTo(t, n) = Cardinality(NormalPlaces(t, n))
      /\ IsFiniteSet(NormalPlaces(s, n + 1)) /\ NormalUpTo(s, n + 1) \in Nat
      /\ NormalUpTo(s, n + 1) = Cardinality(NormalPlaces(s, n + 1))
  BY <1>1, NormalPlacesFinite
<1>3. PICK rest : rest = NormalPlaces(s, n + 1) \ {1}
  OBVIOUS
<1>4. PICK g : g = [i \in NormalPlaces(t, n) |-> i + 1]
  OBVIOUS
<1>5. g \in Bijection(NormalPlaces(t, n), rest)
  <2>1. \A i \in NormalPlaces(t, n) : i \in Nat /\ i + 1 \in rest
    BY <1>3 DEF NormalPlaces
  <2>2. \A j \in rest : j - 1 \in NormalPlaces(t, n) /\ j = (j - 1) + 1
    BY <1>3 DEF NormalPlaces
  <2>3. g \in [NormalPlaces(t, n) -> rest]
    BY <1>4, <2>1
  <2>4. \A a, b \in NormalPlaces(t, n) : g[a] = g[b] => a = b
    BY <1>4, <2>1
  <2>5. \A j \in rest : \E i \in NormalPlaces(t, n) : g[i] = j
    BY <1>4, <2>2
  <2> QED BY <2>3, <2>4, <2>5, Fun_IsBij
<1>6. ExistsBijection(NormalPlaces(t, n), rest)
  BY <1>5 DEF ExistsBijection
<1>7. Cardinality(rest) = NormalUpTo(t, n)
  BY <1>2, <1>6, FS_Bijection
<1>8. Cardinality(rest) = IF 1 \in NormalPlaces(s, n + 1) THEN NormalUpTo(s, n + 1) - 1 ELSE NormalUpTo(s, n + 1)
  BY <1>2, <1>3, FS_RemoveElement
<1>9. 1 \in NormalPlaces(s, n + 1) <=> s[1] \in Normal
  BY DEF NormalPlaces
<1> QED BY <1>2, <1>7, <1>8, <1>9

\* The count never decreases along a queue.
LEMMA NormalUpToGrows ==
  ASSUME NEW s, NEW m \in Nat, NEW n \in Nat, m <= n
  PROVE  NormalUpTo(s, m) <= NormalUpTo(s, n)
<1>1. NormalPlaces(s, m) \subseteq NormalPlaces(s, n)
  BY DEF NormalPlaces
<1>2. Cardinality(NormalPlaces(s, m)) <= Cardinality(NormalPlaces(s, n))
  BY <1>1, NormalPlacesFinite, FS_Subset
<1> QED BY <1>2, NormalPlacesFinite


\* The place of an ordinary turn of the queue is one of what was admitted.
LEMMA NormalPlaceBounds ==
  ASSUME NEW s, NEW n \in Nat, NEW i \in 1..n, s[i] \in Normal
  PROVE  NormalUpTo(s, i) \in Nat /\ 1 <= NormalUpTo(s, i) /\ NormalUpTo(s, i) <= NormalUpTo(s, n)
<1>1. i \in Nat /\ i - 1 \in Nat /\ (i - 1) + 1 = i /\ i <= n
  OBVIOUS
<1>2. NormalUpTo(s, (i - 1) + 1) = NormalUpTo(s, i - 1) + (IF s[(i - 1) + 1] \in Normal THEN 1 ELSE 0)
  BY <1>1, NormalUpToNext
<1>3. NormalUpTo(s, i) \in Nat /\ NormalUpTo(s, i - 1) \in Nat
  BY <1>1, NormalPlacesFinite
<1>4. NormalUpTo(s, i) <= NormalUpTo(s, n)
  BY <1>1, NormalUpToGrows
<1> QED BY <1>1, <1>2, <1>3, <1>4

\* Submit at the end of the queue: an ordinary turn is the last one admitted.
LEMMA OrderAtEnd ==
  ASSUME NEW adm \in Seq(Events), NEW beg \in Seq(Events), NEW items \in Seq(Events), NEW live \in BOOLEAN,
         NEW e \in Events, InOrder(adm, beg, items, live)
  PROVE  InOrder(IF e \in Normal THEN Append(adm, e) ELSE adm, beg, Append(items, e), live)
<1>1. PICK adm2 : adm2 = IF e \in Normal THEN Append(adm, e) ELSE adm
  OBVIOUS
<1>2. PICK t : t = Append(items, e)
  OBVIOUS
<1>3. PICK n \in Nat : n = Len(items)
  OBVIOUS
<1>4. Len(t) = n + 1 /\ t[n + 1] = e /\ \A j \in 1..n : t[j] = items[j]
  BY <1>2, <1>3
<1>5. /\ Len(adm) \in Nat /\ Len(beg) \in Nat /\ Len(adm2) = Len(adm) + (IF e \in Normal THEN 1 ELSE 0)
      /\ e \in Normal => adm2[Len(adm) + 1] = e
      /\ \A k \in 1..Len(adm) : adm2[k] = adm[k]
  BY <1>1
<1>6. Len(beg) <= Len(adm) /\ \A i \in 1..Len(beg) : beg[i] = adm[i]
  BY DEF InOrder
<1>7. Len(beg) <= Len(adm2) /\ \A i \in 1..Len(beg) : beg[i] = adm2[i]
  BY <1>5, <1>6
<1>8. ASSUME live
      PROVE  /\ Len(adm2) = Len(beg) + NormalUpTo(t, n + 1)
             /\ \A i \in 1..(n + 1) : t[i] \in Normal => adm2[Len(beg) + NormalUpTo(t, i)] = t[i]
  <2>1. /\ Len(adm) = Len(beg) + NormalUpTo(items, n)
        /\ \A i \in 1..n : items[i] \in Normal => adm[Len(beg) + NormalUpTo(items, i)] = items[i]
    BY <1>3, <1>8 DEF InOrder
  <2>2. NormalUpTo(t, n + 1) = NormalUpTo(t, n) + (IF e \in Normal THEN 1 ELSE 0)
    BY <1>4, NormalUpToNext
  <2>3. NormalUpTo(t, n) = NormalUpTo(items, n) /\ NormalUpTo(items, n) \in Nat
    BY <1>4, NormalUpToSame, NormalPlacesFinite
  <2>4. Len(adm2) = Len(beg) + NormalUpTo(t, n + 1)
    BY <1>5, <2>1, <2>2, <2>3
  <2>5. ASSUME NEW i \in 1..n, t[i] \in Normal
        PROVE  adm2[Len(beg) + NormalUpTo(t, i)] = t[i]
    <3>1. i \in Nat /\ \A j \in 1..i : t[j] = items[j]
      BY <1>4
    <3>2. NormalUpTo(t, i) = NormalUpTo(items, i) /\ t[i] = items[i] /\ items[i] \in Normal
      BY <1>4, <2>5, <3>1, NormalUpToSame
    <3>3. NormalUpTo(items, i) \in Nat /\ 1 <= NormalUpTo(items, i) /\ NormalUpTo(items, i) <= NormalUpTo(items, n)
      BY <3>2, NormalPlaceBounds
    <3>4. Len(beg) + NormalUpTo(items, i) \in 1..Len(adm)
      BY <1>5, <2>1, <2>3, <3>3
    <3> QED BY <1>5, <2>1, <3>2, <3>4
  <2>6. t[n + 1] \in Normal => adm2[Len(beg) + NormalUpTo(t, n + 1)] = t[n + 1]
    BY <1>4, <1>5, <2>1, <2>2, <2>3
  <2> QED BY <2>4, <2>5, <2>6
<1>9. InOrder(adm2, beg, t, live)
  BY <1>4, <1>7, <1>8 DEF InOrder
<1> QED BY <1>1, <1>2, <1>9

\* Submit in front of the queue: a stop command does not change the order.
LEMMA OrderInFront ==
  ASSUME NEW adm, NEW beg \in Seq(Events), NEW items \in Seq(Events), NEW live \in BOOLEAN,
         NEW e \in Events, e \notin Normal, InOrder(adm, beg, items, live)
  PROVE  InOrder(adm, beg, <<e>> \o items, live)
<1>1. PICK t : t = <<e>> \o items
  OBVIOUS
<1>2. PICK n \in Nat : n = Len(items)
  OBVIOUS
<1>3. Len(t) = n + 1 /\ t[1] = e /\ \A j \in 1..n : items[j] = t[j + 1]
  BY <1>1, <1>2
<1>4. \A m \in 0..n : NormalUpTo(t, m + 1) = NormalUpTo(items, m)
  <2> SUFFICES ASSUME NEW m \in 0..n PROVE NormalUpTo(t, m + 1) = NormalUpTo(items, m)
    OBVIOUS
  <2>1. m \in Nat /\ \A j \in 1..m : items[j] = t[j + 1]
    BY <1>3
  <2>2. NormalUpTo(t, m + 1) = NormalUpTo(items, m) + (IF t[1] \in Normal THEN 1 ELSE 0)
    BY <2>1, NormalUpToShift
  <2> QED BY <1>3, <2>1, <2>2, NormalPlacesFinite
<1>5. ASSUME live, NEW i \in 1..(n + 1), t[i] \in Normal
      PROVE  adm[Len(beg) + NormalUpTo(t, i)] = t[i]
  <2>1. i # 1
    BY <1>3, <1>5
  <2>2. i - 1 \in 1..n /\ (i - 1) + 1 = i
    BY <2>1
  <2>3. t[i] = items[i - 1] /\ NormalUpTo(t, i) = NormalUpTo(items, i - 1)
    BY <1>3, <1>4, <2>2
  <2> QED BY <1>2, <1>5, <2>2, <2>3 DEF InOrder
<1>6. live => Len(adm) = Len(beg) + NormalUpTo(t, n + 1)
  BY <1>2, <1>4 DEF InOrder
<1>7. InOrder(adm, beg, t, live)
  BY <1>3, <1>5, <1>6 DEF InOrder
<1> QED BY <1>1, <1>7

\* nextTurn: an ordinary turn at the head is the next one that was admitted.
LEMMA OrderTaken ==
  ASSUME NEW adm \in Seq(Events), NEW beg \in Seq(Events), NEW items \in Seq(Events), items # <<>>,
         InOrder(adm, beg, items, TRUE)
  PROVE  InOrder(adm, IF Head(items) \in Normal THEN Append(beg, Head(items)) ELSE beg, Tail(items), TRUE)
<1>1. PICK e : e = Head(items)
  OBVIOUS
<1>2. PICK t : t = Tail(items)
  OBVIOUS
<1>3. PICK beg2 : beg2 = IF e \in Normal THEN Append(beg, e) ELSE beg
  OBVIOUS
<1>4. PICK n \in Nat : n = Len(items) - 1
  OBVIOUS
<1>5. Len(items) = n + 1 /\ Len(t) = n /\ items[1] = e /\ e \in Events /\ \A j \in 1..n : t[j] = items[j + 1]
  BY <1>1, <1>2, <1>4
<1>6. PICK k \in {0, 1} : k = IF e \in Normal THEN 1 ELSE 0
  OBVIOUS
<1>7. /\ Len(adm) \in Nat /\ Len(beg) \in Nat /\ Len(beg2) = Len(beg) + k
      /\ k = 1 => beg2[Len(beg) + 1] = e
      /\ \A i \in 1..Len(beg) : beg2[i] = beg[i]
  BY <1>3, <1>5, <1>6
<1>8. \A m \in 0..n : NormalUpTo(items, m + 1) = NormalUpTo(t, m) + k /\ NormalUpTo(t, m) \in Nat
  <2> SUFFICES ASSUME NEW m \in 0..n
               PROVE  NormalUpTo(items, m + 1) = NormalUpTo(t, m) + k /\ NormalUpTo(t, m) \in Nat
    OBVIOUS
  <2>1. m \in Nat /\ \A j \in 1..m : t[j] = items[j + 1]
    BY <1>5
  <2>2. NormalUpTo(items, m + 1) = NormalUpTo(t, m) + (IF items[1] \in Normal THEN 1 ELSE 0)
    BY <2>1, NormalUpToShift
  <2>3. NormalUpTo(t, m) \in Nat
    BY <2>1, NormalPlacesFinite
  <2> QED BY <1>5, <1>6, <2>2, <2>3
<1>9. /\ Len(beg) <= Len(adm) /\ \A i \in 1..Len(beg) : beg[i] = adm[i]
      /\ Len(adm) = Len(beg) + NormalUpTo(items, n + 1)
      /\ \A i \in 1..(n + 1) : items[i] \in Normal => adm[Len(beg) + NormalUpTo(items, i)] = items[i]
  BY <1>5 DEF InOrder
<1>10. Len(adm) = Len(beg2) + NormalUpTo(t, n) /\ Len(beg2) <= Len(adm)
  <2>1. n \in 0..n
    OBVIOUS
  <2>2. NormalUpTo(items, n + 1) = NormalUpTo(t, n) + k /\ NormalUpTo(t, n) \in Nat
    BY <1>8, <2>1
  <2> QED BY <1>7, <1>9, <2>2
<1>11. \A i \in 1..Len(beg2) : beg2[i] = adm[i]
  <2>1. CASE k = 0
    BY <1>7, <1>9, <2>1
  <2>2. CASE k = 1
    <3>1. NormalUpTo(t, 0) = 0
      <4>1. NormalPlaces(t, 0) = {}
        BY DEF NormalPlaces
      <4> QED BY <4>1, NormalPlacesFinite, FS_EmptySet
    <3>2. 0 \in 0..n /\ 0 + 1 = 1
      OBVIOUS
    <3>3. NormalUpTo(items, 1) = 1
      BY <1>8, <2>2, <3>1, <3>2
    <3>4. e \in Normal /\ 1 \in 1..(n + 1)
      BY <1>6, <2>2
    <3>5. adm[Len(beg) + 1] = e
      BY <1>5, <1>9, <3>3, <3>4
    <3> QED BY <1>7, <1>9, <2>2, <3>5
  <2> QED BY <2>1, <2>2
<1>12. ASSUME NEW i \in 1..n, t[i] \in Normal
       PROVE  adm[Len(beg2) + NormalUpTo(t, i)] = t[i]
  <2>1. i + 1 \in 1..(n + 1) /\ i \in 0..n /\ t[i] = items[i + 1]
    BY <1>5
  <2>2. adm[Len(beg) + NormalUpTo(items, i + 1)] = t[i]
    BY <1>9, <1>12, <2>1
  <2>3. NormalUpTo(items, i + 1) = NormalUpTo(t, i) + k /\ NormalUpTo(t, i) \in Nat
    BY <1>8, <2>1
  <2>4. Len(beg) + NormalUpTo(items, i + 1) = Len(beg2) + NormalUpTo(t, i)
    BY <1>7, <2>3
  <2> QED BY <2>2, <2>4
<1>13. InOrder(adm, beg2, t, TRUE)
  BY <1>5, <1>10, <1>11, <1>12 DEF InOrder
<1> QED BY <1>1, <1>2, <1>3, <1>13

\* A queue that is dropped is empty or the lifecycle has ended.
LEMMA OrderDropped ==
  ASSUME NEW adm, NEW beg, NEW items, NEW live \in BOOLEAN,
         InOrder(adm, beg, items, live), ~live \/ items = <<>>
  PROVE  InOrder(adm, beg, <<>>, live)
  BY DEF InOrder


\* FIFO is the order of every conversation.
LEMMA FIFOInOrder ==
  FIFO <=> \A c \in Conversations : InOrder(admitted[c], begun[c], queues[c].items, lifecycle = "live")
  BY DEF FIFO, InOrder

\* A step that leaves queues and histories alone keeps the order, also when
\* it ends the lifecycle.
LEMMA SameOrder ==
  ASSUME FIFO, UNCHANGED <<admitted, begun>>, lifecycle' = "live" => lifecycle = "live",
         \A c \in Conversations : queues'[c].items = queues[c].items
  PROVE  FIFO'
<1> SUFFICES ASSUME NEW c \in Conversations
             PROVE  InOrder(admitted'[c], begun'[c], queues'[c].items, lifecycle' = "live")
  BY DEF FIFO, InOrder
<1>1. InOrder(admitted[c], begun[c], queues[c].items, lifecycle = "live")
  BY FIFOInOrder
<1> QED BY <1>1 DEF InOrder

\* A step that drops the queue of one conversation.
LEMMA DroppedOrder ==
  ASSUME FIFO, UNCHANGED <<admitted, begun, lifecycle>>, NEW c \in Conversations,
         queues'[c] = NoQueue, \A d \in Conversations \ {c} : queues'[d] = queues[d],
         lifecycle = "cancelled" \/ queues[c].items = <<>>
  PROVE  FIFO'
<1> SUFFICES ASSUME NEW d \in Conversations
             PROVE  InOrder(admitted'[d], begun'[d], queues'[d].items, lifecycle' = "live")
  BY DEF FIFO, InOrder
<1>1. InOrder(admitted[d], begun[d], queues[d].items, lifecycle = "live")
  BY FIFOInOrder
<1>2. CASE d = c
  <2>1. queues'[d].items = <<>>
    BY <1>2 DEF NoQueue
  <2>2. InOrder(admitted[d], begun[d], <<>>, lifecycle = "live")
    BY <1>1, <1>2, OrderDropped
  <2> QED BY <2>1, <2>2
<1>3. CASE d # c
  BY <1>1, <1>3
<1> QED BY <1>2, <1>3

\* Submit.
LEMMA SubmitOrder ==
  ASSUME FIFO, TypeOK, NEW e \in Events, Submit(e)
  PROVE  FIFO'
<1>0. PICK c \in Conversations : c = ConversationOf[e]
  BY EventAssumption
<1>1. queues[c] \in QueueRecord /\ queues[c].items \in Seq(Events)
  BY DEF TypeOK, QueueRecord
<1>2. queues'[c] = Enqueued(queues[c], e) /\ \A d \in Conversations \ {c} : queues'[d] = queues[d]
  BY <1>0 DEF Submit, TypeOK
<1>3. /\ e \in Priority => queues'[c].items = <<e>> \o queues[c].items
      /\ e \notin Priority => queues'[c].items = Append(queues[c].items, e)
  BY <1>1, <1>2 DEF Enqueued, QueueRecord
<1>4. /\ admitted'[c] = IF e \in Normal THEN Append(admitted[c], e) ELSE admitted[c]
      /\ \A d \in Conversations \ {c} : admitted'[d] = admitted[d]
  BY <1>0 DEF Submit, TypeOK
<1>5. begun' = begun /\ lifecycle' = lifecycle
  BY DEF Submit
<1> SUFFICES ASSUME NEW d \in Conversations
             PROVE  InOrder(admitted'[d], begun'[d], queues'[d].items, lifecycle' = "live")
  BY DEF FIFO, InOrder
<1>6. InOrder(admitted[d], begun[d], queues[d].items, lifecycle = "live")
  BY FIFOInOrder
<1>7. /\ admitted[d] \in Seq(Events) /\ begun[d] \in Seq(Events) /\ (lifecycle = "live") \in BOOLEAN
  BY DEF TypeOK
<1>8. CASE d # c
  BY <1>2, <1>4, <1>5, <1>6, <1>8
<1>9. CASE d = c /\ e \in Priority
  <2>1. e \notin Normal
    BY <1>9 DEF Normal
  <2>2. InOrder(admitted[d], begun[d], <<e>> \o queues[d].items, lifecycle = "live")
    BY <1>1, <1>6, <1>7, <1>9, <2>1, OrderInFront
  <2>3. admitted'[d] = admitted[d] /\ queues'[d].items = <<e>> \o queues[d].items
    BY <1>3, <1>4, <1>9, <2>1
  <2> QED BY <1>5, <2>2, <2>3
<1>10. CASE d = c /\ e \notin Priority
  <2>1. InOrder(IF e \in Normal THEN Append(admitted[d], e) ELSE admitted[d], begun[d],
                Append(queues[d].items, e), lifecycle = "live")
    BY <1>1, <1>6, <1>7, <1>10, OrderAtEnd
  <2>2. /\ admitted'[d] = IF e \in Normal THEN Append(admitted[d], e) ELSE admitted[d]
        /\ queues'[d].items = Append(queues[d].items, e)
    BY <1>3, <1>4, <1>10
  <2> QED BY <1>5, <2>1, <2>2
<1> QED BY <1>8, <1>9, <1>10

\* nextTurn.
LEMMA NextTurnOrder ==
  ASSUME FIFO, TypeOK, NEW a \in Actors, NextTurn(a)
  PROVE  FIFO'
<1>0. PICK c \in Conversations : c = actors[a].conversation
  BY DEF NextTurn, TypeOK
<1>1. queues[c] \in QueueRecord /\ queues[c].items \in Seq(Events) /\ queues[c].items # <<>>
  BY <1>0 DEF NextTurn, TypeOK, QueueRecord
<1>2. PICK e \in Events : e = Head(queues[c].items)
  BY <1>1
<1>3. queues'[c] = Dequeued(queues[c]) /\ \A d \in Conversations \ {c} : queues'[d] = queues[d]
  BY <1>0 DEF NextTurn, TypeOK
<1>4. queues'[c].items = Tail(queues[c].items)
  BY <1>1, <1>3 DEF Dequeued, QueueRecord
<1>5. begun' = IF e \in Normal THEN [begun EXCEPT ![c] = Append(@, e)] ELSE begun
  BY <1>0, <1>2 DEF NextTurn
<1>6. /\ begun'[c] = IF e \in Normal THEN Append(begun[c], e) ELSE begun[c]
      /\ \A d \in Conversations \ {c} : begun'[d] = begun[d]
  BY <1>5 DEF TypeOK
<1>7. admitted' = admitted /\ lifecycle' = lifecycle /\ lifecycle = "live"
  BY DEF NextTurn
<1> SUFFICES ASSUME NEW d \in Conversations
             PROVE  InOrder(admitted'[d], begun'[d], queues'[d].items, lifecycle' = "live")
  BY DEF FIFO, InOrder
<1>8. InOrder(admitted[d], begun[d], queues[d].items, lifecycle = "live")
  BY FIFOInOrder
<1>9. CASE d # c
  BY <1>3, <1>6, <1>7, <1>8, <1>9
<1>10. CASE d = c
  <2>1. InOrder(admitted[c], begun[c], queues[c].items, TRUE)
    BY <1>7, <1>8, <1>10
  <2>2. admitted[c] \in Seq(Events) /\ begun[c] \in Seq(Events)
    BY DEF TypeOK
  <2>3. InOrder(admitted[c], IF Head(queues[c].items) \in Normal THEN Append(begun[c], Head(queues[c].items)) ELSE begun[c],
                Tail(queues[c].items), TRUE)
    BY <1>1, <2>1, <2>2, OrderTaken
  <2>4. InOrder(admitted'[c], begun'[c], queues'[c].items, TRUE)
    BY <1>2, <1>4, <1>6, <1>7, <2>3
  <2> QED BY <1>7, <1>10, <2>4
<1> QED BY <1>9, <1>10

\* A fresh process has admitted nothing and begun nothing.
LEMMA FreshOrder ==
  (queues = [c \in Conversations |-> NoQueue] /\ admitted = [c \in Conversations |-> <<>>]
   /\ begun = [c \in Conversations |-> <<>>])
  => FIFO
<1> SUFFICES ASSUME queues = [c \in Conversations |-> NoQueue], admitted = [c \in Conversations |-> <<>>],
                    begun = [c \in Conversations |-> <<>>], NEW c \in Conversations
             PROVE  InOrder(admitted[c], begun[c], queues[c].items, lifecycle = "live")
  BY FIFOInOrder
<1>1. admitted[c] = <<>> /\ begun[c] = <<>> /\ queues[c].items = <<>>
  BY DEF NoQueue
<1>2. NormalUpTo(<<>>, 0) = 0
  <2>1. NormalPlaces(<<>>, 0) = {}
    BY DEF NormalPlaces
  <2> QED BY <2>1, NormalPlacesFinite, FS_EmptySet
<1>3. InOrder(<<>>, <<>>, <<>>, lifecycle = "live")
  BY <1>2 DEF InOrder
<1> QED BY <1>1, <1>3

\* Submit, nextTurn and the end of a queue: ordinary turns of a conversation
\* begin in the order in which they were admitted, whatever stop commands and
\* friend requests come between, and while the lifecycle is live every
\* admitted turn has begun or waits in its place.
THEOREM TurnsBeginInOrder == Spec => []FIFO
<1>1. Init => FIFO
  BY FreshOrder DEF Init
<1>2. TypeOK /\ FIFO /\ [Next]_vars => FIFO'
  <2> SUFFICES ASSUME TypeOK, FIFO, [Next]_vars PROVE FIFO'
    OBVIOUS
  <2>1. ASSUME NEW e \in Events, Submit(e) PROVE FIFO'
    BY <2>1, SubmitOrder
  <2>2. ASSUME NEW c \in Conversations, Cancel(c) PROVE FIFO'
    BY <2>2, SameOrder DEF Cancel, history
  <2>3. ASSUME NEW a \in Actors, AcquireSlot(a) \/ TurnTimeout(a) \/ TurnReturns(a) \/ ReleaseSlot(a) PROVE FIFO'
    BY <2>3, SameOrder DEF AcquireSlot, TurnTimeout, TurnReturns, ReleaseSlot, history
  <2>4. ASSUME NEW a \in Actors, DiscardQueue(a) \/ LeaveQueue(a) PROVE FIFO'
    <3>1. PICK c \in Conversations : c = actors[a].conversation
      BY <2>4 DEF DiscardQueue, LeaveQueue, TypeOK
    <3>2. queues'[c] = NoQueue /\ \A d \in Conversations \ {c} : queues'[d] = queues[d]
      BY <2>4, <3>1 DEF DiscardQueue, LeaveQueue, DropQueue, TypeOK
    <3>3. UNCHANGED <<admitted, begun, lifecycle>> /\ (lifecycle = "cancelled" \/ queues[c].items = <<>>)
      BY <2>4, <3>1 DEF DiscardQueue, LeaveQueue, history
    <3> QED BY <3>2, <3>3, DroppedOrder
  <2>5. ASSUME NEW a \in Actors, NextTurn(a) PROVE FIFO'
    BY <2>5, NextTurnOrder
  <2>6. ASSUME NEW a \in Actors, Finish(a) PROVE FIFO'
    <3>1. \A c \in Conversations : queues'[c].items = queues[c].items
      BY <2>6 DEF Finish, TypeOK, QueueRecord
    <3> QED BY <2>6, <3>1, SameOrder DEF Finish, history
  <2>7. CASE BeginShutdown \/ DrainTimeout \/ ShutdownReturns \/ UNCHANGED vars
    BY <2>7, SameOrder DEF BeginShutdown, DrainTimeout, ShutdownReturns, vars, history
  <2>8. CASE Restart
    <3>1. ((queues = [c \in Conversations |-> NoQueue] /\ admitted = [c \in Conversations |-> <<>>]
            /\ begun = [c \in Conversations |-> <<>>]) => FIFO)'
      BY FreshOrder, PTL
    <3> QED BY <2>8, <3>1 DEF Restart
  <2> QED
    BY <2>1, <2>2, <2>3, <2>4, <2>5, <2>6, <2>7, <2>8 DEF Next, ActorStep
<1> QED BY <1>1, <1>2, TypeCorrect, PTL DEF Spec

=============================================================================
