-------------------------- MODULE MessageDelivery --------------------------
(***************************************************************************)
(* How a reply of Fairy reaches a conversation: reliableMessenger          *)
(* (server/internal/fairy/outbound.go) over a Client (fairy/client.go)     *)
(* whose connection the Runner (fairy/runner.go) replaces, and the         *)
(* send_message handler of the gateway (gateway/gateway.go) with           *)
(* StoreMessageIdempotent (store/sqlite.go).                               *)
(*                                                                         *)
(* Each reply is one call of SendSegments by one turn, with one random     *)
(* client_message_id; the reply stands for that key, for the request's     *)
(* fingerprint and for the row the key selects.  An echo, the reply and    *)
(* the attempt, identifies a request on its connection.  A connection that *)
(* breaks loses any suffix of what is under way in either direction: the   *)
(* server may read, and store, a request of a connection that Fairy has    *)
(* given up.                                                               *)
(*                                                                         *)
(* The gateway's checks before the store call (membership, mutes, blocks,  *)
(* the replied-to message) change nothing and can fail at any time, since  *)
(* other accounts change what they read.                                   *)
(***************************************************************************)
EXTENDS Integers, Sequences, FiniteSets

CONSTANTS
    Replies,      \* calls of SendSegments
    None,         \* no request
    MaxAttempts,  \* maxAttempts
    MaxSessions,  \* bound: how often runSession connects
    MaxDeletes,   \* bound: how many messages the operator deletes
    MaxCrashes    \* bound: how often the server process stops

ASSUME DeliveryAssumption ==
    /\ MaxAttempts \in Nat \ {0} /\ MaxSessions \in Nat
    /\ MaxDeletes \in Nat /\ MaxCrashes \in Nat

Connections == 1..MaxSessions
NoConnection == 0
Echoes == [reply : Replies, attempt : 1..MaxAttempts]

ASSUME EchoAssumption == None \notin Echoes

VARIABLES
    attached,  \* m.client, 0 for nil
    session,   \* runSession: its connection and how far it is
    client,    \* Client: whether done is closed, and the pending map
    link,      \* the connection: frames under way in either direction
    handler,   \* the gateway's readPump of each connection
    sender,    \* SendSegments
    stored,    \* rows of messages with the reply's client_message_id
    copies,    \* how often each reply was inserted
    shown,     \* how often each reply was broadcast and pushed
    deletes, crashes

vars == <<attached, session, client, link, handler, sender, stored, copies,
          shown, deletes, crashes>>

fairy == <<attached, session, client, sender>>
database == <<stored, copies, shown>>
bounds == <<deletes, crashes>>

SessionPhases == {"dial", "running", "closing"}
\* "failing": finish has closed done and has yet to fail the pending requests.
ClientPhases == {"undialed", "open", "failing", "closed"}
HandlerSteps == {"idle", "select", "load", "insert", "reselect", "respond",
                 "broadcast"}
Outcomes == {"delivered", "failed", "unknown"}
SenderSteps == {"idle", "wait", "register", "write", "await", "judge", "pause"}
               \cup Outcomes
\* What a response channel holds: nothing, an ok or error response, or the
\* error of a closed client.
Mail == {"none", "ok", "error", "closed"}
Responses == [echo : Echoes, status : {"ok", "error"}]

IdleHandler == [pc |-> "idle", echo |-> None, duplicate |-> FALSE]

Init ==
    /\ attached = NoConnection
    /\ session = [connection |-> 0, phase |-> "dial"]
    /\ client = [c \in Connections |-> [phase |-> "undialed", pending |-> {}]]
    /\ link = [c \in Connections |-> [alive |-> FALSE, up |-> <<>>, down |-> <<>>]]
    /\ handler = [c \in Connections |-> IdleHandler]
    /\ sender = [r \in Replies |-> [pc |-> "idle", attempt |-> 0,
                     connection |-> NoConnection, cancelled |-> FALSE,
                     mail |-> "none"]]
    /\ stored = {}
    /\ copies = [r \in Replies |-> 0]
    /\ shown = [r \in Replies |-> 0]
    /\ deletes = 0 /\ crashes = 0

Closed(c) == client[c].phase \in {"failing", "closed"}
Prefixes(s) == {SubSeq(s, 1, n) : n \in 0..Len(s)}

-----------------------------------------------------------------------------
(* Runner.runSession and the life of a Client *)

\* Dial, authenticate and Attach.
Connect ==
    LET c == session.connection + 1 IN
    /\ session.phase = "dial" /\ c \in Connections
    /\ session' = [connection |-> c, phase |-> "running"]
    /\ client' = [client EXCEPT ![c].phase = "open"]
    /\ link' = [link EXCEPT ![c].alive = TRUE]
    /\ attached' = c
    /\ UNCHANGED <<handler, sender, database, bounds>>

\* Variant: whichever client is attached is cleared.
DetachAny(c) == attached' = NoConnection

Detach(c) == attached' = IF attached = c THEN NoConnection ELSE attached

\* The session's loop sees Done or a heartbeat that got no answer; the
\* deferred functions run: Detach, ...
EndSession ==
    /\ session.phase = "running"
    /\ session' = [session EXCEPT !.phase = "closing"]
    /\ Detach(session.connection)
    /\ UNCHANGED <<client, link, handler, sender, database, bounds>>

\* What is left of a connection when it breaks.
Broken(l) == {[alive |-> FALSE, up |-> u, down |-> d] :
                 u \in Prefixes(l.up), d \in Prefixes(l.down)}

\* ... then Close: finish, unless the reader has done so, and Close of the
\* connection.
CloseClient ==
    LET c == session.connection IN
    /\ session.phase = "closing" /\ client[c].phase = "open"
    /\ client' = [client EXCEPT ![c].phase = "failing"]
    /\ \E l \in Broken(link[c]) : link' = [link EXCEPT ![c] = l]
    /\ UNCHANGED <<attached, session, handler, sender, database, bounds>>

\* runSession returns once finish is complete, and the Runner dials again.
SessionOver ==
    /\ session.phase = "closing" /\ client[session.connection].phase = "closed"
    /\ session' = [session EXCEPT !.phase = "dial"]
    /\ UNCHANGED <<attached, client, link, handler, sender, database, bounds>>

\* The network drops a connection.
Disconnect(c) ==
    /\ link[c].alive
    /\ \E l \in Broken(link[c]) : link' = [link EXCEPT ![c] = l]
    /\ UNCHANGED <<fairy, handler, database, bounds>>

\* readLoop reads a response: deliverResponse hands it to the request that
\* waits for its echo, if one still does.
ReadResponse(c) ==
    /\ client[c].phase \in {"open", "failing"} /\ link[c].down # <<>>
    /\ LET response == Head(link[c].down)
           r == response.echo.reply IN
       /\ link' = [link EXCEPT ![c].down = Tail(@)]
       /\ client' = [client EXCEPT ![c].pending = @ \ {response.echo}]
       /\ sender' = IF response.echo \in client[c].pending
                    THEN [sender EXCEPT ![r].mail = response.status]
                    ELSE sender
    /\ UNCHANGED <<attached, session, handler, database, bounds>>

\* readLoop's read fails: finish closes done.
ReadFails(c) ==
    /\ client[c].phase = "open" /\ ~link[c].alive /\ link[c].down = <<>>
    /\ client' = [client EXCEPT ![c].phase = "failing"]
    /\ UNCHANGED <<attached, session, link, handler, sender, database, bounds>>

\* finish fails every pending request.
FailPending(c) ==
    /\ client[c].phase = "failing"
    /\ client' = [client EXCEPT ![c] = [phase |-> "closed", pending |-> {}]]
    /\ sender' = [r \in Replies |->
           IF \E e \in client[c].pending : e.reply = r
           THEN [sender[r] EXCEPT !.mail = "closed"] ELSE sender[r]]
    /\ UNCHANGED <<attached, session, link, handler, database, bounds>>

-----------------------------------------------------------------------------
(* reliableMessenger.SendSegments *)

Step(r, pc) == sender' = [sender EXCEPT ![r].pc = pc]
Echo(r) == [reply |-> r, attempt |-> sender[r].attempt]

\* A turn produces its reply.
StartSend(r) ==
    /\ sender[r].pc = "idle"
    /\ Step(r, "wait")
    /\ UNCHANGED <<attached, session, client, link, handler, database, bounds>>

\* The turn's context ends: its timeout or a stop command.
Cancel(r) ==
    /\ sender[r].pc \notin {"idle"} \cup Outcomes /\ ~sender[r].cancelled
    /\ sender' = [sender EXCEPT ![r].cancelled = TRUE]
    /\ UNCHANGED <<attached, session, client, link, handler, database, bounds>>

\* waitForClient returns the attached client, and the next attempt begins.
TakeClient(r) ==
    /\ sender[r].pc = "wait" /\ attached # NoConnection
    /\ sender' = [sender EXCEPT ![r].pc = "register", ![r].attempt = @ + 1,
                      ![r].connection = attached, ![r].mail = "none"]
    /\ UNCHANGED <<attached, session, client, link, handler, database, bounds>>

\* Variant: the first wait does not watch the context.
WaitCancelledOnRetryOnly(r) ==
    /\ sender[r].pc = "wait" /\ attached = NoConnection /\ sender[r].cancelled
    /\ sender[r].attempt > 0
    /\ Step(r, "unknown")
    /\ UNCHANGED <<attached, session, client, link, handler, database, bounds>>

\* waitForClient gives up without a client.
WaitCancelled(r) ==
    /\ sender[r].pc = "wait" /\ attached = NoConnection /\ sender[r].cancelled
    /\ Step(r, IF sender[r].attempt > 0 THEN "unknown" ELSE "failed")
    /\ UNCHANGED <<attached, session, client, link, handler, database, bounds>>

\* Variant: done is not checked under pendingMu.
RegisterRequestUnchecked(r) ==
    LET c == sender[r].connection IN
    /\ sender[r].pc = "register"
    /\ Step(r, IF sender[r].cancelled THEN "judge" ELSE "write")
    /\ client' = IF sender[r].cancelled THEN client
                 ELSE [client EXCEPT ![c].pending = @ \cup {Echo(r)}]
    /\ UNCHANGED <<attached, session, link, handler, database, bounds>>

\* Request: refused when the context or the client is done, otherwise the
\* echo is registered under pendingMu.
RegisterRequest(r) ==
    LET c == sender[r].connection IN
    /\ sender[r].pc = "register"
    /\ IF sender[r].cancelled \/ Closed(c)
       THEN Step(r, "judge") /\ UNCHANGED client
       ELSE /\ Step(r, "write")
            /\ client' = [client EXCEPT ![c].pending = @ \cup {Echo(r)}]
    /\ UNCHANGED <<attached, session, link, handler, database, bounds>>

\* WriteJSON succeeds.  What is written to a broken connection is lost.
WriteRequest(r) ==
    LET c == sender[r].connection IN
    /\ sender[r].pc = "write" /\ ~sender[r].cancelled
    /\ Step(r, "await")
    /\ link' = IF link[c].alive
               THEN [link EXCEPT ![c].up = Append(@, Echo(r))] ELSE link
    /\ UNCHANGED <<attached, session, client, handler, database, bounds>>

\* The attempt's context ends before the write or while waiting, or the write
\* fails: removePending.
AbandonRequest(r) ==
    LET c == sender[r].connection IN
    /\ sender[r].pc \in {"write", "await"}
    /\ client' = [client EXCEPT ![c].pending = @ \ {Echo(r)}]
    /\ Step(r, "judge")
    /\ UNCHANGED <<attached, session, link, handler, database, bounds>>

\* The response channel has a result: delivered, rejected by the server, or
\* an error that leaves the outcome open.
ReceiveResult(r) ==
    /\ sender[r].pc = "await" /\ sender[r].mail # "none"
    /\ Step(r, CASE sender[r].mail = "ok" -> "delivered"
                 [] sender[r].mail = "error" -> "failed"
                 [] sender[r].mail = "closed" -> "judge")
    /\ UNCHANGED <<attached, session, client, link, handler, database, bounds>>

\* After an attempt with open outcome: give up, or retry at once on another
\* client when this one is closed, or after a pause.
JudgeAttempt(r) ==
    LET c == sender[r].connection IN
    /\ sender[r].pc = "judge"
    /\ \/ /\ sender[r].attempt = MaxAttempts \/ sender[r].cancelled
          /\ Step(r, "unknown") /\ UNCHANGED attached
       \/ /\ sender[r].attempt < MaxAttempts /\ ~sender[r].cancelled
          /\ IF Closed(c) THEN Step(r, "wait") /\ Detach(c)
                          ELSE Step(r, "pause") /\ UNCHANGED attached
    /\ UNCHANGED <<session, client, link, handler, database, bounds>>

\* waitForOutboundRetry
RetryPause(r) ==
    LET c == sender[r].connection IN
    /\ sender[r].pc = "pause"
    /\ \/ sender[r].cancelled /\ Step(r, "unknown") /\ UNCHANGED attached
       \/ /\ Step(r, "wait")
          /\ IF Closed(c) THEN Detach(c) ELSE UNCHANGED attached
    /\ UNCHANGED <<session, client, link, handler, database, bounds>>

-----------------------------------------------------------------------------
(* Gateway.readPump and handleSendMessage *)

HandlerAt(c, pc) == handler' = [handler EXCEPT ![c].pc = pc]
ReplyOf(c) == handler[c].echo.reply

ReadRequest(c) ==
    /\ handler[c].pc = "idle" /\ link[c].up # <<>>
    /\ handler' = [handler EXCEPT ![c] = [pc |-> "select",
                       echo |-> Head(link[c].up), duplicate |-> FALSE]]
    /\ link' = [link EXCEPT ![c].up = Tail(@)]
    /\ UNCHANGED <<fairy, database, bounds>>

\* sendJSON: the frame is lost when the connection is gone or its queue full.
Respond(c, status) ==
    \/ UNCHANGED link
    \/ /\ link[c].alive
       /\ link' = [link EXCEPT ![c].down = Append(@, [echo |-> handler[c].echo,
                                                      status |-> status])]

\* A check fails, or the store returns an error.
RejectRequest(c) ==
    /\ handler[c].pc \in {"select", "insert"}
    /\ Respond(c, "error")
    /\ handler' = [handler EXCEPT ![c] = IdleHandler]
    /\ UNCHANGED <<fairy, database, bounds>>

\* idempotentMessage: the key's row, if there is one, ...
SelectKey(c) ==
    /\ handler[c].pc = "select"
    /\ HandlerAt(c, IF ReplyOf(c) \in stored THEN "load" ELSE "insert")
    /\ UNCHANGED <<fairy, link, database, bounds>>

\* ... and GetMessage of the row's id.
LoadMessage(c) ==
    /\ handler[c].pc = "load" /\ ReplyOf(c) \in stored
    /\ handler' = [handler EXCEPT ![c].pc = "respond", ![c].duplicate = TRUE]
    /\ UNCHANGED <<fairy, link, database, bounds>>

\* Variant: no unique index on sender_id and client_message_id.
InsertMessageAlways(c) ==
    LET r == ReplyOf(c) IN
    /\ handler[c].pc = "insert"
    /\ HandlerAt(c, "respond")
    /\ stored' = stored \cup {r}
    /\ copies' = [copies EXCEPT ![r] = @ + 1]
    /\ UNCHANGED <<fairy, link, shown, bounds>>

\* INSERT ... ON CONFLICT(sender_id, client_message_id) DO NOTHING
InsertMessage(c) ==
    LET r == ReplyOf(c) IN
    /\ handler[c].pc = "insert"
    /\ IF r \in stored
       THEN HandlerAt(c, "reselect") /\ UNCHANGED <<stored, copies>>
       ELSE /\ HandlerAt(c, "respond")
            /\ stored' = stored \cup {r}
            /\ copies' = [copies EXCEPT ![r] = @ + 1]
    /\ UNCHANGED <<fairy, link, shown, bounds>>

\* idempotentMessage after a conflict.
ReselectKey(c) ==
    /\ handler[c].pc = "reselect" /\ ReplyOf(c) \in stored
    /\ HandlerAt(c, "load")
    /\ UNCHANGED <<fairy, link, database, bounds>>

\* Variant: a handler whose response cannot be queued returns.
RespondStoredOrReturn(c) ==
    /\ handler[c].pc = "respond"
    /\ Respond(c, "ok")
    /\ handler' = [handler EXCEPT ![c] =
           IF @.duplicate \/ ~link[c].alive
           THEN IdleHandler ELSE [@ EXCEPT !.pc = "broadcast"]]
    /\ UNCHANGED <<fairy, database, bounds>>

RespondStored(c) ==
    /\ handler[c].pc = "respond"
    /\ Respond(c, "ok")
    /\ handler' = [handler EXCEPT ![c] =
           IF @.duplicate THEN IdleHandler ELSE [@ EXCEPT !.pc = "broadcast"]]
    /\ UNCHANGED <<fairy, database, bounds>>

\* broadcastToConversation and pushToConversation
BroadcastMessage(c) ==
    /\ handler[c].pc = "broadcast"
    /\ shown' = [shown EXCEPT ![ReplyOf(c)] = @ + 1]
    /\ handler' = [handler EXCEPT ![c] = IdleHandler]
    /\ UNCHANGED <<fairy, link, stored, copies, bounds>>

\* The server process stops: handlers and connections are gone, rows stay.
ServerStops ==
    /\ handler' = [c \in Connections |-> IdleHandler]
    /\ \E arrives \in [Connections -> 0..(MaxAttempts * Cardinality(Replies))] :
          /\ \A c \in Connections : arrives[c] <= Len(link[c].down)
          /\ link' = [c \in Connections |-> [alive |-> FALSE, up |-> <<>>,
                 down |-> SubSeq(link[c].down, 1, arrives[c])]]

Crash ==
    /\ crashes < MaxCrashes
    /\ crashes' = crashes + 1
    /\ ServerStops
    /\ UNCHANGED <<fairy, database, deletes>>

\* The row is gone between the two queries: the store returns no message and
\* no error, and handleSendMessage's msg.ID panics in readPump.
NilMessage(c) ==
    /\ handler[c].pc \in {"load", "reselect"} /\ ReplyOf(c) \notin stored
    /\ ServerStops
    /\ UNCHANGED <<fairy, database, bounds>>

\* The operator deletes a message, its client_message_id with it.
DeleteMessage(r) ==
    /\ r \in stored /\ deletes < MaxDeletes
    /\ stored' = stored \ {r}
    /\ deletes' = deletes + 1
    /\ UNCHANGED <<fairy, link, handler, copies, shown, crashes>>

-----------------------------------------------------------------------------
SessionStep == EndSession \/ CloseClient \/ SessionOver
ReaderStep(c) == ReadResponse(c) \/ ReadFails(c) \/ FailPending(c)
SenderStep(r) ==
    \/ TakeClient(r) \/ WaitCancelled(r) \/ RegisterRequest(r)
    \/ WriteRequest(r) \/ AbandonRequest(r) \/ ReceiveResult(r)
    \/ JudgeAttempt(r) \/ RetryPause(r)
HandlerStep(c) ==
    \/ ReadRequest(c) \/ RejectRequest(c) \/ SelectKey(c) \/ LoadMessage(c)
    \/ InsertMessage(c) \/ ReselectKey(c) \/ RespondStored(c)
    \/ BroadcastMessage(c) \/ NilMessage(c)

Next ==
    \/ Connect \/ SessionStep \/ Crash
    \/ \E c \in Connections : Disconnect(c) \/ ReaderStep(c) \/ HandlerStep(c)
    \/ \E r \in Replies : StartSend(r) \/ Cancel(r) \/ SenderStep(r)
                          \/ DeleteMessage(r)

Spec == Init /\ [][Next]_vars

\* The goroutines keep running, every attempt has a timeout, and the turn's
\* context has one too (scheduler.go: WithTimeoutCause).  Nothing is assumed
\* of the network, the server's restarts or the Runner's reconnecting.
FairSpec ==
    /\ Spec
    /\ \A r \in Replies : WF_vars(SenderStep(r)) /\ WF_vars(Cancel(r))
    /\ \A c \in Connections : WF_vars(ReaderStep(c)) /\ WF_vars(HandlerStep(c))

-----------------------------------------------------------------------------
(* Properties *)

\* Senders, clients, handlers and tables have their types; no sender makes more
\* than maxAttempts attempts.
TypeOK ==
    /\ attached \in Connections \cup {NoConnection}
    /\ session \in [connection : 0..MaxSessions, phase : SessionPhases]
    /\ client \in [Connections -> [phase : ClientPhases, pending : SUBSET Echoes]]
    /\ link \in [Connections -> [alive : BOOLEAN, up : Seq(Echoes),
                                 down : Seq(Responses)]]
    /\ handler \in [Connections -> [pc : HandlerSteps, echo : Echoes \cup {None},
                                    duplicate : BOOLEAN]]
    /\ sender \in [Replies -> [pc : SenderSteps, attempt : 0..MaxAttempts,
                               connection : Connections \cup {NoConnection},
                               cancelled : BOOLEAN, mail : Mail]]
    /\ stored \subseteq Replies
    /\ copies \in [Replies -> Nat] /\ shown \in [Replies -> Nat]
    /\ deletes \in 0..MaxDeletes /\ crashes \in 0..MaxCrashes

\* An old connection's failure never costs the messenger its new connection:
\* while a session runs on a working client, that client is the attached one,
\* whichever senders detach the clients they were given earlier.
RunningSessionIsAttached ==
    session.phase = "running" /\ client[session.connection].phase = "open"
        => attached = session.connection

\* Registering, answering, abandoning and finish keep the pending map exact:
\* a request that waits without a result is registered with a client that
\* will still fail it, and an entry belongs to a request that still waits.
PendingIsExact ==
    /\ \A r \in Replies :
          sender[r].pc \in {"write", "await"} /\ sender[r].mail = "none"
              => /\ Echo(r) \in client[sender[r].connection].pending
                 /\ client[sender[r].connection].phase # "closed"
    /\ \A c \in Connections : \A e \in client[c].pending :
          /\ sender[e.reply].pc \in {"write", "await"}
          /\ sender[e.reply].connection = c /\ sender[e.reply].attempt = e.attempt

\* Refinement: retries, reconnects, late handlers of old connections, crashes
\* and deletions implement the log that stores and announces a reply once and
\* reports delivered only what was stored.
Promise == INSTANCE OnceOnlyLog WITH
    log <- stored,
    outcome <- [r \in Replies |-> IF sender[r].pc \in Outcomes
                                  THEN sender[r].pc ELSE "pending"]
OnceOnly == Promise!Spec

\* A send that gave up before any request was registered, or that the first
\* attempt's answer rejected, is reported failed; anything else that was not
\* acknowledged is reported unknown.  A reply reported failed is not stored.
RejectedIsNotStored ==
    \A r \in Replies : sender[r].pc = "failed" => copies[r] = 0

\* Every send ends, whatever the network and the server do.
SendsFinish ==
    \A r \in Replies : sender[r].pc = "wait" ~> sender[r].pc \in Outcomes

\* A stored reply is announced, also when its sender has given up and its
\* connection is gone, unless the server process stops or the row is deleted
\* under the handler.
StoredIsShown ==
    \A r \in Replies :
        copies[r] > 0 ~> shown[r] > 0 \/ crashes > 0 \/ deletes > 0
=============================================================================
