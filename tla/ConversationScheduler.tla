----------------------- MODULE ConversationScheduler -----------------------
(***************************************************************************)
(* The admission queue of the Fairy agent: server/internal/fairy/          *)
(* scheduler.go, together with the two facts of runner.go it relies on     *)
(* (friend requests are retryable and guarded by a reservation) and the    *)
(* durable ingress claim of trace_store.go.                                *)
(*                                                                         *)
(* Every conversation has a queue of turns and, while the queue exists,    *)
(* one actor goroutine that drains it.  Submit runs under s.mu, so it is   *)
(* one step; an actor's steps are the critical sections of nextTurn,       *)
(* finish and discardQueue and the return of the turn's own function.      *)
(* A submission that is refused (closed, over a limit, duplicate) or whose *)
(* claim fails changes no state and is therefore not an action.            *)
(*                                                                         *)
(* queues is Go's map read with its zero value: an absent entry is         *)
(* NoQueue.  An entry is present exactly while its running flag is set.    *)
(***************************************************************************)
EXTENDS Integers, Sequences, FiniteSets

CONSTANTS
    Conversations,          \* conversation IDs
    Events,                 \* ingress events (source and event ID)
    ConversationOf,         \* the conversation an event belongs to
    Priority,               \* the /fairy stop commands among the events
    Retryable,              \* the friend requests among the events
    Actors,                 \* names for runConversation goroutines
    None,                   \* no conversation, no event
    MaxPending,             \* cfg.MaxPending
    MaxConversationPending, \* cfg.MaxConversationPending
    MaxConcurrent           \* cfg.MaxConcurrent, the capacity of slots

\* Config.Validate bounds the three limits; dispatch never marks a friend
\* request as priority.
ASSUME EventAssumption ==
    /\ ConversationOf \in [Events -> Conversations]
    /\ Priority \subseteq Events
    /\ Retryable \subseteq Events
    /\ Priority \cap Retryable = {}
    /\ None \notin Events /\ None \notin Conversations

ASSUME LimitAssumption ==
    /\ MaxPending \in Nat /\ MaxConversationPending \in Nat /\ MaxConcurrent \in Nat
    /\ 1 <= MaxConcurrent /\ MaxConcurrent <= MaxPending
    /\ 1 <= MaxConversationPending /\ MaxConversationPending <= MaxPending

ASSUME ActorAssumption == IsFiniteSet(Actors)

VARIABLES
    accepting,  \* s.accepting
    lifecycle,  \* "live" until cancelLifecycle
    queues,     \* s.queues
    pending,    \* s.pending
    slots,      \* number of tokens in s.slots
    claimed,    \* rows of fairy_ingress_events (durable)
    reserved,   \* runner.pendingFriends
    actors,     \* the runConversation goroutines
    shutdown,   \* progress of Shutdown
    admitted,   \* history: non-retryable, non-priority events admitted
    begun,      \* history: the same events in the order their turns began
    runs        \* history across restarts: turns begun per event, up to 2

vars == <<accepting, lifecycle, queues, pending, slots, claimed, reserved,
          actors, shutdown, admitted, begun, runs>>

history == <<admitted, begun, runs>>

Causes == {"none", "stopped", "cancelled", "deadline", "lifecycle"}

NoQueue == [items |-> <<>>, running |-> FALSE, controlQueued |-> FALSE,
            current |-> FALSE]

IdleActor == [pc |-> "idle", conversation |-> None, event |-> None, cause |-> "none"]

\* Events that carry the FIFO promise: neither /fairy stop nor friend requests.
Normal == Events \ (Priority \cup Retryable)

\* An actor still bound to its queue; an actor whose turn is under way
\* (its function running, or returned but not yet finished); an actor that
\* holds a slot.
Serving == {"acquire", "loop", "run", "returned"}
InTurn == {"run", "returned"}
Holding == {"loop", "run", "returned", "release"}

\* conversationQueue; current stands for a non-nil currentCancel.
QueueRecord == [items : Seq(Events), running : BOOLEAN,
                controlQueued : BOOLEAN, current : BOOLEAN]

\* A goroutine: where it is, its queue, its turn and the cause of the turn's
\* context.
ActorRecord == [pc : Serving \cup {"idle", "release"},
                conversation : Conversations \cup {None},
                event : Events \cup {None},
                cause : Causes]

Serves(a, c) == actors[a].conversation = c /\ actors[a].pc \in Serving

-----------------------------------------------------------------------------
Init ==
    /\ accepting = TRUE
    /\ lifecycle = "live"
    /\ queues = [c \in Conversations |-> NoQueue]
    /\ pending = 0
    /\ slots = 0
    /\ claimed = {}
    /\ reserved = {}
    /\ actors = [a \in Actors |-> IdleActor]
    /\ shutdown = "none"
    /\ admitted = [c \in Conversations |-> <<>>]
    /\ begun = [c \in Conversations |-> <<>>]
    /\ runs = [e \in Events |-> 0]

-----------------------------------------------------------------------------
(* Submit *)

\* A stop command may pass both limits, once per queue, when there is a turn
\* to stop or a queue to overtake.
PriorityBypass(e) ==
    LET queue == queues[ConversationOf[e]]
    IN  /\ e \in Priority
        /\ queue.current \/ queue.items # <<>>
        /\ ~queue.controlQueued

WithinLimits(e) ==
    \/ PriorityBypass(e)
    \/ /\ pending < MaxPending
       /\ Len(queues[ConversationOf[e]].items) < MaxConversationPending

\* ClaimIngress inserts a row that survives a restart; submitFriendRequest
\* reserves the flag in memory instead.
Claim(e) ==
    IF e \in Retryable
    THEN /\ e \notin reserved
         /\ reserved' = reserved \cup {e}
         /\ UNCHANGED claimed
    ELSE /\ e \notin claimed
         /\ claimed' = claimed \cup {e}
         /\ UNCHANGED reserved

\* Variant: the running flag is not set, so every Submit starts an actor.
EnqueuedNotRunning(queue, e) ==
    IF e \in Priority
    THEN [queue EXCEPT !.items = <<e>> \o @, !.controlQueued = TRUE]
    ELSE [queue EXCEPT !.items = Append(@, e)]

\* Variant: ordinary turns are put in front as well.
EnqueuedInFront(queue, e) ==
    [queue EXCEPT !.items = <<e>> \o @, !.running = TRUE,
                  !.controlQueued = @ \/ e \in Priority]

\* The queue after the turn was put in front (stop) or at the end.
Enqueued(queue, e) ==
    IF e \in Priority
    THEN [queue EXCEPT !.items = <<e>> \o @, !.controlQueued = TRUE, !.running = TRUE]
    ELSE [queue EXCEPT !.items = Append(@, e), !.running = TRUE]

\* A cancel function records its cause in the turn's context unless the
\* context has already ended.
Cancelled(actor, c, cause) ==
    IF actor.conversation = c /\ actor.pc \in InTurn /\ actor.cause = "none"
    THEN [actor EXCEPT !.cause = cause]
    ELSE actor

\* Variant: the stop command is queued but the current turn is not cancelled.
InterruptedNever(e) == actors

\* currentCancel(ErrTurnStoppedByUser), when the queue has a current turn.
Interrupted(e) ==
    IF e \in Priority /\ queues[ConversationOf[e]].current
    THEN [a \in Actors |-> Cancelled(actors[a], ConversationOf[e], "stopped")]
    ELSE actors

\* The first turn of a queue starts the queue's actor.
Submit(e) ==
    LET c == ConversationOf[e]
    IN  /\ accepting
        /\ WithinLimits(e)
        /\ Claim(e)
        /\ queues' = [queues EXCEPT ![c] = Enqueued(@, e)]
        /\ pending' = pending + 1
        /\ IF queues[c].running
           THEN actors' = Interrupted(e)
           ELSE \E a \in Actors :
                   /\ actors[a].pc = "idle"
                   /\ actors' = [Interrupted(e) EXCEPT ![a] =
                         [IdleActor EXCEPT !.pc = "acquire", !.conversation = c]]
        /\ admitted' = IF e \in Normal THEN [admitted EXCEPT ![c] = Append(@, e)]
                                       ELSE admitted
        /\ UNCHANGED <<accepting, lifecycle, slots, shutdown, begun, runs>>

\* Cancel(conversationID, cause) for the turn under way.
Cancel(c) ==
    /\ queues[c].current
    /\ actors' = [a \in Actors |-> Cancelled(actors[a], c, "cancelled")]
    /\ UNCHANGED <<accepting, lifecycle, queues, pending, slots, claimed, reserved,
                   shutdown, history>>

-----------------------------------------------------------------------------
(* runConversation *)

Step(a, pc) == actors' = [actors EXCEPT ![a].pc = pc]

\* The actor takes a slot and keeps it until its queue is drained.
AcquireSlot(a) ==
    /\ actors[a].pc = "acquire"
    /\ slots < MaxConcurrent
    /\ slots' = slots + 1
    /\ Step(a, "loop")
    /\ UNCHANGED <<accepting, lifecycle, queues, pending, claimed, reserved,
                   shutdown, history>>

\* Variant: discarded turns stay in the pending count.
DropQueueUncounted(c) ==
    /\ queues' = [queues EXCEPT ![c] = NoQueue]
    /\ UNCHANGED pending

\* pending -= len(queue.items); the entry leaves the map.
DropQueue(c) ==
    /\ pending' = pending - Len(queues[c].items)
    /\ queues' = [queues EXCEPT ![c] = NoQueue]

\* The lifecycle ended before a slot was free: discardQueue and return.
DiscardQueue(a) ==
    /\ actors[a].pc = "acquire"
    /\ lifecycle = "cancelled"
    /\ DropQueue(actors[a].conversation)
    /\ actors' = [actors EXCEPT ![a] = IdleActor]
    /\ UNCHANGED <<accepting, lifecycle, slots, claimed, reserved, shutdown, history>>

\* Variant: only an empty queue ends the actor, the lifecycle is not checked.
LeaveQueueIgnoringLifecycle(a) ==
    LET c == actors[a].conversation
    IN  /\ actors[a].pc = "loop"
        /\ queues[c].items = <<>>
        /\ DropQueue(c)
        /\ Step(a, "release")
        /\ UNCHANGED <<accepting, lifecycle, slots, claimed, reserved, shutdown, history>>

\* Variant: the goroutine forgets its conversation before its deferred calls.
LeaveQueueForgetful(a) ==
    LET c == actors[a].conversation
    IN  /\ actors[a].pc = "loop"
        /\ lifecycle = "cancelled" \/ queues[c].items = <<>>
        /\ DropQueue(c)
        /\ actors' = [actors EXCEPT ![a] = [IdleActor EXCEPT !.pc = "release"]]
        /\ UNCHANGED <<accepting, lifecycle, slots, claimed, reserved, shutdown, history>>

\* nextTurn finds the lifecycle ended or the queue empty: the queue leaves the
\* map while the goroutine still holds its slot.
LeaveQueue(a) ==
    LET c == actors[a].conversation
    IN  /\ actors[a].pc = "loop"
        /\ lifecycle = "cancelled" \/ queues[c].items = <<>>
        /\ DropQueue(c)
        /\ Step(a, "release")
        /\ UNCHANGED <<accepting, lifecycle, slots, claimed, reserved, shutdown, history>>

\* The queue after its head was taken: a stop command clears the mark.
Dequeued(queue) ==
    [queue EXCEPT !.items = Tail(@),
                  !.controlQueued = @ /\ Head(queue.items) \notin Priority,
                  !.current = TRUE]

\* nextTurn takes the head of the queue and gives it a fresh context.
NextTurn(a) ==
    LET c == actors[a].conversation
        e == Head(queues[c].items)
    IN  /\ actors[a].pc = "loop"
        /\ lifecycle = "live"
        /\ queues[c].items # <<>>
        /\ queues' = [queues EXCEPT ![c] = Dequeued(@)]
        /\ pending' = pending - 1
        /\ actors' = [actors EXCEPT ![a] = [@ EXCEPT !.pc = "run", !.event = e, !.cause = "none"]]
        /\ begun' = IF e \in Normal THEN [begun EXCEPT ![c] = Append(@, e)] ELSE begun
        /\ runs' = [runs EXCEPT ![e] = IF @ < 2 THEN @ + 1 ELSE @]
        /\ UNCHANGED <<accepting, lifecycle, slots, claimed, reserved, shutdown, admitted>>

\* The timeout of the turn's context fires (WithTimeoutCause).
TurnTimeout(a) ==
    /\ actors[a].pc \in InTurn
    /\ actors[a].cause = "none"
    /\ actors' = [actors EXCEPT ![a].cause = "deadline"]
    /\ UNCHANGED <<accepting, lifecycle, queues, pending, slots, claimed, reserved,
                   shutdown, history>>

\* turn.run returns; the friend request's function releases its reservation.
TurnReturns(a) ==
    /\ actors[a].pc = "run"
    /\ Step(a, "returned")
    /\ reserved' = reserved \ {actors[a].event}
    /\ UNCHANGED <<accepting, lifecycle, queues, pending, slots, claimed,
                   shutdown, history>>

\* finish clears currentCancel and reads the cause.
Finish(a) ==
    /\ actors[a].pc = "returned"
    /\ queues' = [queues EXCEPT ![actors[a].conversation].current = FALSE]
    /\ actors' = [actors EXCEPT ![a] = [@ EXCEPT !.pc = "loop", !.event = None, !.cause = "none"]]
    /\ UNCHANGED <<accepting, lifecycle, pending, slots, claimed, reserved,
                   shutdown, history>>

\* Variant: the slot is not returned.
ReleaseSlotLeaking(a) ==
    /\ actors[a].pc = "release"
    /\ actors' = [actors EXCEPT ![a] = IdleActor]
    /\ UNCHANGED <<accepting, lifecycle, queues, pending, slots, claimed, reserved,
                   shutdown, history>>

\* The deferred calls: the slot is returned, then wait.Done.
ReleaseSlot(a) ==
    /\ actors[a].pc = "release"
    /\ slots' = slots - 1
    /\ actors' = [actors EXCEPT ![a] = IdleActor]
    /\ UNCHANGED <<accepting, lifecycle, queues, pending, claimed, reserved,
                   shutdown, history>>

-----------------------------------------------------------------------------
(* Shutdown and restart *)

\* CloseAdmission, then the wait for the wait group.
BeginShutdown ==
    /\ shutdown = "none"
    /\ accepting' = FALSE
    /\ shutdown' = "draining"
    /\ UNCHANGED <<lifecycle, queues, pending, slots, claimed, reserved, actors, history>>

\* The drain timeout: cancelLifecycle ends every turn context as well.
DrainTimeout ==
    /\ shutdown = "draining"
    /\ lifecycle = "live"
    /\ lifecycle' = "cancelled"
    /\ actors' = [a \in Actors |-> Cancelled(actors[a], actors[a].conversation, "lifecycle")]
    /\ UNCHANGED <<accepting, queues, pending, slots, claimed, reserved, shutdown, history>>

\* Every wait.Add has met its wait.Done.
ShutdownReturns ==
    /\ shutdown = "draining"
    /\ \A a \in Actors : actors[a].pc = "idle"
    /\ shutdown' = "returned"
    /\ UNCHANGED <<accepting, lifecycle, queues, pending, slots, claimed, reserved,
                   actors, history>>

\* Variant: ingress claims are kept in memory only.
RestartForgetful ==
    /\ accepting' = TRUE
    /\ lifecycle' = "live"
    /\ queues' = [c \in Conversations |-> NoQueue]
    /\ pending' = 0
    /\ slots' = 0
    /\ claimed' = {}
    /\ reserved' = {}
    /\ actors' = [a \in Actors |-> IdleActor]
    /\ shutdown' = "none"
    /\ admitted' = [c \in Conversations |-> <<>>]
    /\ begun' = [c \in Conversations |-> <<>>]
    /\ UNCHANGED runs

\* The process ends at any moment and a new one opens the same fairy.db.
Restart ==
    /\ accepting' = TRUE
    /\ lifecycle' = "live"
    /\ queues' = [c \in Conversations |-> NoQueue]
    /\ pending' = 0
    /\ slots' = 0
    /\ reserved' = {}
    /\ actors' = [a \in Actors |-> IdleActor]
    /\ shutdown' = "none"
    /\ admitted' = [c \in Conversations |-> <<>>]
    /\ begun' = [c \in Conversations |-> <<>>]
    /\ UNCHANGED <<claimed, runs>>

ActorStep(a) ==
    \/ AcquireSlot(a)
    \/ DiscardQueue(a)
    \/ LeaveQueue(a)
    \/ NextTurn(a)
    \/ TurnReturns(a)
    \/ Finish(a)
    \/ ReleaseSlot(a)

Next ==
    \/ \E e \in Events : Submit(e)
    \/ \E c \in Conversations : Cancel(c)
    \/ \E a \in Actors : ActorStep(a) \/ TurnTimeout(a)
    \/ BeginShutdown
    \/ DrainTimeout
    \/ ShutdownReturns
    \/ Restart

Spec == Init /\ [][Next]_vars

\* Goroutines are scheduled, a turn's function returns once its context has
\* ended, and Shutdown's own goroutine runs.  Nothing obliges anybody to
\* submit, cancel, shut down or restart.
Fairness ==
    /\ \A a \in Actors : WF_vars(ActorStep(a))
    /\ WF_vars(ShutdownReturns)

FairSpec == Spec /\ Fairness

-----------------------------------------------------------------------------
(* Properties *)

\* Every variable holds a value of its Go type.
TypeOK ==
    /\ accepting \in BOOLEAN
    /\ lifecycle \in {"live", "cancelled"}
    /\ queues \in [Conversations -> QueueRecord]
    /\ pending \in Int
    /\ slots \in Int
    /\ claimed \subseteq Events
    /\ reserved \subseteq Events
    /\ actors \in [Actors -> ActorRecord]
    /\ \A a \in Actors : actors[a].pc # "idle" => actors[a].conversation \in Conversations
    /\ shutdown \in {"none", "draining", "returned"}
    /\ admitted \in [Conversations -> Seq(Events)]
    /\ begun \in [Conversations -> Seq(Events)]
    /\ runs \in [Events -> 0..2]

\* A conversation is served by at most one goroutine, and exactly while its
\* queue is in the map: Submit racing an actor that leaves an empty queue
\* neither starts a second actor nor strands a queue without one.
OneActorPerQueue ==
    \A c \in Conversations :
        /\ \A a, b \in Actors : Serves(a, c) /\ Serves(b, c) => a = b
        /\ queues[c].running <=> \E a \in Actors : Serves(a, c)
        /\ queues[c].current <=> \E a \in Actors : Serves(a, c) /\ actors[a].pc \in InTurn
        /\ ~queues[c].running => queues[c] = NoQueue

\* Slots count the goroutines that hold one and never exceed MaxConcurrent,
\* also while an actor has left its queue and a new actor serves the same
\* conversation.
SlotsBounded ==
    /\ slots = Cardinality({a \in Actors : actors[a].pc \in Holding})
    /\ slots <= MaxConcurrent

\* The stop command's bypass stretches a queue by one turn at most, and only
\* while that command is waiting: repeated stops do not add up.
QueuesBounded ==
    \A c \in Conversations :
        Len(queues[c].items) <= MaxConversationPending
                                + (IF queues[c].controlQueued THEN 1 ELSE 0)

\* pending counts the queued turns exactly, through admission, discarding and
\* draining, and exceeds MaxPending by at most one turn per queue that has a
\* stop command waiting.
PendingCounts ==
    /\ pending = Cardinality(UNION {{c} \X DOMAIN queues[c].items : c \in Conversations})
    /\ pending <= MaxPending + Cardinality({c \in Conversations : queues[c].controlQueued})

\* While a stop command is marked as queued it is the next turn, and the turn
\* it overtakes has been told to stop.
StopIsNext ==
    \A c \in Conversations :
        queues[c].controlQueued =>
            /\ queues[c].items # <<>> /\ Head(queues[c].items) \in Priority
            /\ \A a \in Actors : Serves(a, c) /\ actors[a].pc \in InTurn
                                 => actors[a].cause # "none"

\* How many ordinary turns the first i entries of a queue hold.
NormalUpTo(items, i) == Cardinality({j \in 1..i : items[j] \in Normal})

\* Ordinary turns of a conversation begin in the order they were admitted, and
\* none is lost while the lifecycle is live: what was admitted is what began,
\* followed by the ordinary turns of the queue in the order of the queue.
FIFO ==
    \A c \in Conversations :
        LET items == queues[c].items
        IN  /\ Len(begun[c]) <= Len(admitted[c])
            /\ \A i \in 1..Len(begun[c]) : begun[c][i] = admitted[c][i]
            /\ lifecycle = "live" =>
                  /\ Len(admitted[c]) = Len(begun[c]) + NormalUpTo(items, Len(items))
                  /\ \A i \in 1..Len(items) : items[i] \in Normal =>
                        admitted[c][Len(begun[c]) + NormalUpTo(items, i)] = items[i]

\* A claimed event begins at most one turn, restarts included, and a turn only
\* begins for an event whose claim is durable.
AtMostOnce ==
    \A e \in Events \ Retryable : runs[e] <= 1 /\ (runs[e] = 1 => e \in claimed)

\* A friend request is reserved exactly while a turn for it waits or runs, so
\* a failed acceptance can always be submitted again; only a lifecycle that
\* has ended may keep reservations of discarded turns.
ReservationsHeld ==
    LET held == {e \in Retryable :
                    \/ \E c \in Conversations : \E i \in DOMAIN queues[c].items :
                          queues[c].items[i] = e
                    \/ \E a \in Actors : actors[a].pc = "run" /\ actors[a].event = e}
    IN  held \subseteq reserved /\ (lifecycle = "live" => reserved = held)

\* When Shutdown has returned nothing is queued, nothing runs and no slot is
\* held: no wait.Add can slip in behind the wait.
ShutdownIsQuiet ==
    shutdown = "returned" =>
        /\ pending = 0 /\ slots = 0
        /\ \A c \in Conversations : queues[c] = NoQueue

\* Submit, nextTurn, discardQueue and the slots: the scheduler's counts are
\* those of its queues and goroutines, within its limits, down to zero when
\* Shutdown has returned.
LimitsKept == SlotsBounded /\ QueuesBounded /\ PendingCounts /\ ShutdownIsQuiet

\* ClaimIngress and the reservations of the runner: no event is handled twice,
\* and none that could not be handled is given up.
ClaimsHold == AtMostOnce /\ ReservationsHeld

\* Once Shutdown is called it returns, unless the process is restarted.
ShutdownTerminates == shutdown = "draining" ~> shutdown # "draining"

\* Every admitted turn leaves its queue: it begins, or shutdown or a restart
\* discards it.
AdmittedTurnsLeave ==
    \A e \in Events :
        (\E i \in DOMAIN queues[ConversationOf[e]].items : queues[ConversationOf[e]].items[i] = e)
        ~> ~(\E i \in DOMAIN queues[ConversationOf[e]].items : queues[ConversationOf[e]].items[i] = e)
=============================================================================
