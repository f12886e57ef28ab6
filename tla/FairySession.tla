---------------------------- MODULE FairySession ----------------------------
(***************************************************************************)
(* Runner.runSession (fairy/runner.go) and the readLoop of its client      *)
(* (fairy/client.go), from Dial to the end of both.  readLoop gives        *)
(* responses to the request that waits for them and all other frames to    *)
(* the bounded channel of events, which only the session loop empties; but *)
(* the session sends requests of its own (login, profile, friend requests, *)
(* heartbeat) and reads no events while it waits for the response.  The    *)
(* requests of the turns, and the map of pending requests they share with  *)
(* these, are in MessageDelivery.                                          *)
(***************************************************************************)
EXTENDS Naturals, Sequences

CONSTANTS EventLimit,    \* capacity of Client.events
          TickLimit,     \* bound: requests of the session loop
          PushLimit      \* bound: events the server pushes

ASSUME SessionAssumption == EventLimit \in Nat \ {0} /\ TickLimit \in Nat /\ PushLimit \in Nat

VARIABLES sessionAt,     \* where runSession is
          request,       \* Request: "idle", "write", "wait", or the outcome in its channel
          reading,       \* readLoop: "read", "offer" (an event waits for room), "gone"
          offered,       \* the frame that waits for room
          eventQueue,    \* Client.events
          closed,        \* Client.done is closed
          wire,          \* frames on the way: "response" to the present request, "late" to an earlier one, "event"
          owed,          \* the server has the present request, and the number of earlier ones
          linkUp,        \* the connection
          pushed, dispatched, ticked,
          runOver        \* the context of Run has ended

sessionVars == <<sessionAt, request, reading, offered, eventQueue, closed, wire, owed, linkUp, pushed, dispatched, ticked, runOver>>
readerSide == <<reading, offered, closed>>
network == <<wire, owed, linkUp, pushed>>
counters == <<dispatched, ticked>>

Nothing == [present |-> FALSE, earlier |-> 0]
NoFrame == "none"
RequestOutcomes == {"ok", "invalid credentials", "refused", "closed"}
\* The requests of the session: up to friends in this order, in the loop the last two.
Requesting == {"auth", "register", "token", "profile", "friends", "ping"}

\* Dial has succeeded and readLoop runs.
SessionInit ==
    /\ sessionAt = "auth" /\ request = "idle"
    /\ reading = "read" /\ offered = NoFrame /\ eventQueue = <<>> /\ closed = FALSE
    /\ wire = <<>> /\ owed = Nothing /\ linkUp = TRUE
    /\ pushed = 0 /\ dispatched = 0 /\ ticked = 0 /\ runOver = FALSE

-----------------------------------------------------------------------------
(* Request, as runSession uses it *)

\* authenticate registers the account if the credentials are unknown and there
\* is an invitation, and logs in with the token; a failed heartbeat ends the
\* session; what else fails is logged.
SessionAfter(outcome) ==
    CASE sessionAt \in {"auth", "token"} /\ outcome = "ok" -> {"profile"}
      [] sessionAt = "auth" /\ outcome = "invalid credentials" -> {"register", "closing"}
      [] sessionAt = "register" /\ outcome = "ok" -> {"token", "closing"}
      [] \/ sessionAt = "auth" /\ outcome \notin {"ok", "invalid credentials"}
         \/ sessionAt \in {"register", "token"} /\ outcome # "ok" -> {"closing"}
      [] sessionAt = "profile" -> {"friends"}
      [] sessionAt = "ping" /\ outcome # "ok" -> {"closing"}
      [] OTHER -> {"loop"}

\* Request returns.  It is no longer pending: a response that is still to come
\* is late, whether it is on its way or the server has yet to give it.
RequestReturns(outcome) ==
    /\ request' = "idle" /\ sessionAt' \in SessionAfter(outcome)
    /\ wire' = [i \in DOMAIN wire |-> IF wire[i] = "response" THEN "late" ELSE wire[i]]
    /\ owed' = [present |-> FALSE, earlier |-> owed.earlier + (IF owed.present THEN 1 ELSE 0)]

\* A request of a context that has ended, or of a closed client, is not begun.
BeginRequest ==
    /\ sessionAt \in Requesting /\ request = "idle"
    /\ \/ (runOver \/ closed) /\ RequestReturns("failed")
       \/ ~runOver /\ ~closed /\ request' = "write" /\ UNCHANGED <<sessionAt, wire, owed>>
    /\ UNCHANGED <<readerSide, eventQueue, linkUp, pushed, counters, runOver>>

\* WriteJSON: what is written to a lost connection may get lost without an
\* error; the context, the deadline or the connection may make it fail.
WriteSessionRequest ==
    /\ request = "write"
    /\ \/ RequestReturns("failed")
       \/ request' = "wait" /\ owed' = [owed EXCEPT !.present = linkUp] /\ UNCHANGED <<sessionAt, wire>>
    /\ UNCHANGED <<readerSide, eventQueue, linkUp, pushed, counters, runOver>>

TakeOutcome ==
    /\ request \in RequestOutcomes /\ RequestReturns(request)
    /\ UNCHANGED <<readerSide, eventQueue, linkUp, pushed, counters, runOver>>

\* Variant: the requests of the session have no time limit.
RequestExpiresNever ==
    /\ request \in {"wait"} \cup RequestOutcomes /\ runOver
    /\ RequestReturns("failed")
    /\ UNCHANGED <<readerSide, eventQueue, linkUp, pushed, counters, runOver>>
\* requestTimeout: the time limit passes, or the context ends, while the
\* request waits; select may choose it even if the response is there.
RequestExpires ==
    /\ request \in {"wait"} \cup RequestOutcomes
    /\ RequestReturns("failed")
    /\ UNCHANGED <<readerSide, eventQueue, linkUp, pushed, counters, runOver>>

-----------------------------------------------------------------------------
(* readLoop and finish *)

\* A response goes to the request that waits.  An event, or a response that
\* comes after its request has given up, is offered to the channel of events.
TakeFrame ==
    /\ reading = "read" /\ wire # <<>> /\ sessionAt # "ended"
    /\ wire' = Tail(wire)
    /\ \/ /\ Head(wire) = "response" /\ request' \in RequestOutcomes \ {"closed"}
          /\ sessionAt # "auth" => request' # "invalid credentials"
          /\ UNCHANGED <<reading, offered>>
       \/ Head(wire) # "response" /\ reading' = "offer" /\ offered' = Head(wire) /\ UNCHANGED request
    /\ UNCHANGED <<sessionAt, eventQueue, closed, owed, linkUp, pushed, counters, runOver>>

\* Variant: the channel of events is a list without a bound.
OfferEventUnbounded ==
    /\ reading = "offer" /\ reading' = "read" /\ offered' = NoFrame
    /\ eventQueue' = Append(eventQueue, offered)
    /\ UNCHANGED <<sessionAt, request, closed, network, counters, runOver>>
\* The event waits for room in the channel, or for done.
OfferEvent ==
    /\ reading = "offer" /\ offered' = NoFrame
    /\ \/ Len(eventQueue) < EventLimit /\ eventQueue' = Append(eventQueue, offered) /\ reading' = "read"
       \/ closed /\ reading' = "gone" /\ UNCHANGED eventQueue
    /\ UNCHANGED <<sessionAt, request, closed, network, counters, runOver>>

\* finish: done is closed and the request that waits is given the error.
Finish ==
    /\ closed' = TRUE
    /\ request' = IF request = "wait" /\ ~closed THEN "closed" ELSE request

\* ReadMessage fails, with frames still unread or without.
ReadError ==
    /\ reading = "read" /\ ~linkUp
    /\ reading' = "gone" /\ Finish
    /\ UNCHANGED <<sessionAt, offered, eventQueue, network, counters, runOver>>

-----------------------------------------------------------------------------
(* The session loop *)

DispatchEvent ==
    /\ sessionAt = "loop" /\ eventQueue # <<>>
    /\ eventQueue' = Tail(eventQueue)
    \* dispatch does nothing with a response
    /\ dispatched' = dispatched + (IF Head(eventQueue) = "event" THEN 1 ELSE 0)
    /\ UNCHANGED <<sessionAt, request, readerSide, network, ticked, runOver>>

\* The tickers of the heartbeat and of the friend requests.
Tick ==
    /\ sessionAt = "loop" /\ ticked < TickLimit
    /\ ticked' = ticked + 1 /\ sessionAt' \in {"ping", "friends"}
    /\ UNCHANGED <<request, readerSide, eventQueue, network, dispatched, runOver>>

LeaveLoop ==
    /\ sessionAt = "loop" /\ (closed \/ runOver)
    /\ sessionAt' = "closing"
    /\ UNCHANGED <<request, readerSide, eventQueue, network, counters, runOver>>

\* The deferred Close.
CloseSession ==
    /\ sessionAt = "closing"
    /\ sessionAt' = "ended" /\ Finish /\ linkUp' = FALSE /\ owed' = Nothing
    /\ UNCHANGED <<reading, offered, eventQueue, wire, pushed, counters, runOver>>

-----------------------------------------------------------------------------
(* The server and the network, and the end of Run *)

ServerResponds ==
    /\ linkUp
    /\ \/ owed.present /\ owed' = [owed EXCEPT !.present = FALSE] /\ wire' = Append(wire, "response")
       \/ owed.earlier > 0 /\ owed' = [owed EXCEPT !.earlier = @ - 1] /\ wire' = Append(wire, "late")
    /\ UNCHANGED <<sessionAt, request, readerSide, eventQueue, linkUp, pushed, counters, runOver>>

\* Events are pushed to an authenticated connection.
PushEvent ==
    /\ linkUp /\ sessionAt \notin {"auth", "register", "token"} /\ pushed < PushLimit
    /\ pushed' = pushed + 1 /\ wire' = Append(wire, "event")
    /\ UNCHANGED <<sessionAt, request, readerSide, eventQueue, owed, linkUp, counters, runOver>>

LoseLink ==
    /\ linkUp /\ linkUp' = FALSE /\ owed' = Nothing
    /\ UNCHANGED <<sessionAt, request, readerSide, eventQueue, wire, pushed, counters, runOver>>

EndRun ==
    /\ ~runOver /\ runOver' = TRUE
    /\ UNCHANGED <<sessionAt, request, readerSide, eventQueue, network, counters>>

ReadLoopStep == TakeFrame \/ OfferEvent \/ ReadError
RunSessionStep == BeginRequest \/ WriteSessionRequest \/ TakeOutcome \/ RequestExpires \/ DispatchEvent \/ Tick \/ LeaveLoop \/ CloseSession
ConnectionNext == ReadLoopStep \/ RunSessionStep \/ ServerResponds \/ PushEvent \/ LoseLink \/ EndRun

ConnectionSpec == SessionInit /\ [][ConnectionNext]_sessionVars

\* The two goroutines run, requests have time limits, and select does not for
\* ever pass over one of the cases that are ready.  The server need not answer.
ConnectionFairness ==
    /\ WF_sessionVars(ReadLoopStep) /\ WF_sessionVars(RunSessionStep)
    /\ SF_sessionVars(LeaveLoop) /\ SF_sessionVars(DispatchEvent)
FairConnectionSpec == ConnectionSpec /\ ConnectionFairness

-----------------------------------------------------------------------------
(* Properties *)

\* The session, its request, the reader and the frames have their types; the
\* channel of events holds no more than its capacity.
SessionTypeOK ==
    /\ sessionAt \in Requesting \cup {"loop", "closing", "ended"}
    /\ request \in {"idle", "write", "wait"} \cup RequestOutcomes
    /\ reading \in {"read", "offer", "gone"} /\ offered \in {NoFrame, "event", "late"}
    /\ eventQueue \in Seq({"event", "late"}) /\ Len(eventQueue) <= EventLimit
    /\ wire \in Seq({"response", "late", "event"}) /\ owed \in [present : BOOLEAN, earlier : Nat]
    /\ pushed \in 0..PushLimit /\ dispatched \in 0..PushLimit /\ ticked \in 0..TickLimit
    /\ closed \in BOOLEAN /\ linkUp \in BOOLEAN /\ runOver \in BOOLEAN

\* runSession and readLoop wait for each other when the channel of events is
\* full and the response to the session's own request is behind an event that
\* does not fit.  The request returns nevertheless.
SessionRequestsReturn == (request # "idle") ~> (request = "idle")

\* readLoop: every event the server pushes is dispatched, whatever requests
\* and late responses are between, unless the session ends.
EventsAreDispatched == \A n \in 1..PushLimit : (pushed >= n) ~> (dispatched >= n \/ sessionAt = "ended")

\* Run reconnects only when runSession has returned: once the connection is
\* lost, the session ends and readLoop with it, whatever each was doing.
LossEndsTheSession == ~linkUp ~> (sessionAt = "ended" /\ reading = "gone")

\* The two goroutines never wait for each other for good: requests return,
\* events are dispatched and the loss of the connection ends both.
SessionProgresses == SessionRequestsReturn /\ EventsAreDispatched /\ LossEndsTheSession
=============================================================================
