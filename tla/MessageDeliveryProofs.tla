------------------------ MODULE MessageDeliveryProofs ------------------------
(***************************************************************************)
(* Theorems about MessageDelivery, for every set of replies, every limit   *)
(* of attempts and any number of connections, crashes and deletions: its   *)
(* typing, the two invariants of Fairy's side of the connection, and the   *)
(* refinement of OnceOnlyLog step by step.  Then, for FairySession, where  *)
(* the events are that the server has pushed, and the types of both.       *)
(***************************************************************************)
EXTENDS MCDelivery, FiniteSetTheorems, FunctionTheorems, SequenceTheorems, TLAPS

-----------------------------------------------------------------------------
(* Typing *)

\* SendSegments: a send that waits for a client or pauses has attempts left,
\* and one that has a client has begun an attempt on it.
SenderShape ==
    \A r \in Replies :
        /\ sender[r].pc = "idle" => sender[r].attempt = 0
        /\ sender[r].pc \in {"wait", "pause"} => sender[r].attempt < MaxAttempts
        /\ sender[r].pc \in {"register", "write", "await", "judge", "pause"}
              => sender[r].attempt # 0 /\ sender[r].connection # NoConnection

\* runSession and readPump: past the dial there is a connection, and a handler
\* that is not idle has a request.
ConnectionShape ==
    /\ session.phase # "dial" => session.connection # NoConnection
    /\ \A c \in Connections : handler[c].pc # "idle" => handler[c].echo \in Echoes

TypeInv == TypeOK /\ SenderShape /\ ConnectionShape

ClientRecord == [phase : ClientPhases, pending : SUBSET Echoes]
LinkRecord == [alive : BOOLEAN, up : Seq(Echoes), down : Seq(Responses)]
SenderRecord == [pc : SenderSteps, attempt : 0..MaxAttempts, connection : Connections \cup {NoConnection},
                 cancelled : BOOLEAN, mail : Mail]

\* The tables of clients, connections and senders, as functions to records.
LEMMA TableTypes ==
  TypeOK <=> /\ attached \in Connections \cup {NoConnection}
             /\ session \in [connection : 0..MaxSessions, phase : SessionPhases]
             /\ client \in [Connections -> ClientRecord]
             /\ link \in [Connections -> LinkRecord]
             /\ handler \in [Connections -> [pc : HandlerSteps, echo : Echoes \cup {None},
                                             duplicate : BOOLEAN]]
             /\ sender \in [Replies -> SenderRecord]
             /\ stored \subseteq Replies
             /\ copies \in [Replies -> Nat] /\ shown \in [Replies -> Nat]
             /\ deletes \in 0..MaxDeletes /\ crashes \in 0..MaxCrashes
  BY DEF TypeOK, ClientRecord, LinkRecord, SenderRecord

\* The sender's next step keeps its record a record of that type.
LEMMA SenderStepType ==
  ASSUME TypeOK, NEW r \in Replies, NEW pc \in SenderSteps, Step(r, pc)
  PROVE  /\ sender' \in [Replies -> SenderRecord]
         /\ sender'[r] = [sender[r] EXCEPT !.pc = pc]
         /\ \A q \in Replies \ {r} : sender'[q] = sender[q]
         /\ sender'[r].pc = pc /\ sender'[r].attempt = sender[r].attempt
         /\ sender'[r].connection = sender[r].connection /\ sender'[r].mail = sender[r].mail
         /\ sender'[r].cancelled = sender[r].cancelled
  BY DEF TypeOK, Step, SenderRecord

\* A step of a sender that changes only where it is keeps SenderShape if the
\* new place fits its attempt and its connection.
LEMMA SenderStepShape ==
  ASSUME TypeInv, NEW r \in Replies, NEW pc \in SenderSteps, Step(r, pc), pc # "idle",
         pc \in {"wait", "pause"} => sender[r].attempt < MaxAttempts,
         pc \in {"register", "write", "await", "judge", "pause"}
            => sender[r].attempt # 0 /\ sender[r].connection # NoConnection
  PROVE  SenderShape'
<1>1. TypeOK /\ SenderShape
  BY DEF TypeInv
<1>2. /\ \A q \in Replies \ {r} : sender'[q] = sender[q]
      /\ sender'[r].pc = pc /\ sender'[r].attempt = sender[r].attempt
      /\ sender'[r].connection = sender[r].connection
  BY <1>1, SenderStepType
<1> QED BY <1>1, <1>2 DEF SenderShape

\* A prefix of a sequence over S is a sequence over S.
LEMMA PrefixType ==
  ASSUME NEW S, NEW s \in Seq(S), NEW n \in 0..Len(s)
  PROVE  SubSeq(s, 1, n) \in Seq(S)
<1>1. \A i \in 1..n : s[i] \in S
  OBVIOUS
<1> QED BY <1>1, SubSeqProperties

\* What is left of a connection that breaks is a connection.
LEMMA BrokenType ==
  ASSUME NEW l \in LinkRecord, NEW m \in Broken(l)
  PROVE  m \in LinkRecord
<1>1. \A n \in 0..Len(l.up) : SubSeq(l.up, 1, n) \in Seq(Echoes)
  BY PrefixType DEF LinkRecord
<1>2. \A n \in 0..Len(l.down) : SubSeq(l.down, 1, n) \in Seq(Responses)
  BY PrefixType DEF LinkRecord
<1>3. /\ \A u \in Prefixes(l.up) : u \in Seq(Echoes)
      /\ \A d \in Prefixes(l.down) : d \in Seq(Responses)
  BY <1>1, <1>2 DEF Prefixes
<1>4. PICK u \in Prefixes(l.up), d \in Prefixes(l.down) : m = [alive |-> FALSE, up |-> u, down |-> d]
  BY DEF Broken
<1> QED BY <1>3, <1>4 DEF LinkRecord

\* The server's end of every connection is replaced by one that is gone.
LEMMA ServerStopsType ==
  ASSUME TypeOK, ServerStops
  PROVE  /\ handler' = [c \in Connections |-> IdleHandler]
         /\ link' \in [Connections -> LinkRecord]
         /\ \A c \in Connections : \E n \in 0..Len(link[c].down) : link'[c].down = SubSeq(link[c].down, 1, n)
<1>1. PICK arrives \in [Connections -> 0..(MaxAttempts * Cardinality(Replies))] :
          /\ \A c \in Connections : arrives[c] <= Len(link[c].down)
          /\ link' = [c \in Connections |-> [alive |-> FALSE, up |-> <<>>,
                 down |-> SubSeq(link[c].down, 1, arrives[c])]]
  BY DEF ServerStops
<1>2. ASSUME NEW c \in Connections
      PROVE  /\ arrives[c] \in 0..Len(link[c].down)
             /\ SubSeq(link[c].down, 1, arrives[c]) \in Seq(Responses)
  <2>1. link[c].down \in Seq(Responses)
    BY DEF TypeOK
  <2>2. arrives[c] \in Nat
    BY <1>1, SMT
  <2>3. arrives[c] \in 0..Len(link[c].down)
    BY <1>1, <2>1, <2>2
  <2> QED BY <2>1, <2>3, PrefixType
<1>3. link' \in [Connections -> LinkRecord]
  BY <1>1, <1>2 DEF LinkRecord
<1>4. \A c \in Connections : link'[c].down = SubSeq(link[c].down, 1, arrives[c])
  BY <1>1
<1> QED BY <1>2, <1>3, <1>4 DEF ServerStops

\* Steps of runSession, of the reader and of the network.
LEMMA ConnectionStepsType ==
  ASSUME TypeInv,
         \/ Connect \/ SessionStep
         \/ \E c \in Connections : Disconnect(c) \/ ReaderStep(c)
  PROVE  TypeInv'
<1> USE DeliveryAssumption DEF TypeInv, database, bounds, fairy
<1>a. client \in [Connections -> ClientRecord]
  BY TableTypes
<1>b. link \in [Connections -> LinkRecord]
  BY TableTypes
<1>c. sender \in [Replies -> SenderRecord]
  BY TableTypes
<1>1. CASE Connect
  <2> DEFINE c == session.connection + 1
  <2>1. c \in Connections /\ c \in 0..MaxSessions /\ c # NoConnection
    BY <1>1 DEF Connect, Connections, NoConnection
  <2>2. client' \in [Connections -> ClientRecord]
    BY <1>a, <1>1, <2>1 DEF Connect, ClientRecord, ClientPhases
  <2>3. link' \in [Connections -> LinkRecord]
    BY <1>b, <1>1, <2>1 DEF Connect, LinkRecord
  <2>4. session' \in [connection : 0..MaxSessions, phase : SessionPhases] /\ session'.connection = c
    BY <1>1, <2>1 DEF Connect, SessionPhases
  <2> QED BY <1>1, <2>1, <2>2, <2>3, <2>4
      DEF Connect, TypeOK, ClientRecord, LinkRecord, SenderShape, ConnectionShape
<1>2. CASE EndSession
  BY <1>2 DEF EndSession, Detach, TypeOK, SenderShape, ConnectionShape, SessionPhases
<1>3. CASE CloseClient
  <2>1. session.connection \in Connections
    BY <1>3 DEF CloseClient, TypeOK, ConnectionShape, Connections, NoConnection
  <2>2. link' \in [Connections -> LinkRecord]
    BY <1>b, <1>3, <2>1, BrokenType DEF CloseClient, LinkRecord
  <2>3. client' \in [Connections -> ClientRecord]
    BY <1>a, <1>3, <2>1 DEF CloseClient, ClientRecord, ClientPhases
  <2> QED BY <1>3, <2>2, <2>3 DEF TypeOK, ClientRecord, LinkRecord, SenderRecord, CloseClient, SenderShape, ConnectionShape
<1>4. CASE SessionOver
  BY <1>4 DEF SessionOver, TypeOK, SenderShape, ConnectionShape, SessionPhases
<1>5. ASSUME NEW c \in Connections, Disconnect(c) PROVE TypeInv'
  <2>1. link' \in [Connections -> LinkRecord]
    BY <1>b, <1>5, BrokenType DEF Disconnect, LinkRecord
  <2> QED BY <1>5, <2>1 DEF TypeOK, ClientRecord, LinkRecord, SenderRecord, Disconnect, SenderShape, ConnectionShape
<1>6. ASSUME NEW c \in Connections, ReadResponse(c) PROVE TypeInv'
  <2>1. Head(link[c].down) \in Responses /\ Tail(link[c].down) \in Seq(Responses)
    BY <1>6 DEF ReadResponse, TypeOK
  <2>2. /\ Head(link[c].down).status \in Mail /\ Head(link[c].down).echo \in Echoes
        /\ Head(link[c].down).echo.reply \in Replies
    BY <2>1 DEF Responses, Mail, Echoes
  <2>3. link' \in [Connections -> LinkRecord]
    BY <1>b, <1>6, <2>1 DEF ReadResponse, LinkRecord
  <2>4. client' \in [Connections -> ClientRecord]
    BY <1>a, <1>6, <2>1 DEF ReadResponse, ClientRecord
  <2>5. /\ sender' \in [Replies -> SenderRecord]
        /\ \A r \in Replies : /\ sender'[r].pc = sender[r].pc /\ sender'[r].attempt = sender[r].attempt
                              /\ sender'[r].connection = sender[r].connection
    BY <1>c, <1>6, <2>2, ZenonT(30) DEF ReadResponse, SenderRecord
  <2>6. SenderShape'
    BY <2>5 DEF SenderShape
  <2>7. ConnectionShape'
    BY <1>6 DEF ReadResponse, ConnectionShape
  <2>8. TypeOK'
    BY <1>6, <2>3, <2>4, <2>5 DEF ReadResponse, TypeOK, ClientRecord, LinkRecord, SenderRecord
  <2> QED BY <2>6, <2>7, <2>8
<1>7. ASSUME NEW c \in Connections, ReadFails(c) PROVE TypeInv'
  <2>1. client' \in [Connections -> ClientRecord]
    BY <1>a, <1>7 DEF ReadFails, ClientRecord, ClientPhases
  <2> QED BY <1>7, <2>1 DEF ReadFails, TypeOK, ClientRecord, SenderShape, ConnectionShape
<1>8. ASSUME NEW c \in Connections, FailPending(c) PROVE TypeInv'
  <2>1. client' \in [Connections -> ClientRecord]
    BY <1>a, <1>8 DEF FailPending, ClientRecord, ClientPhases
  <2>2. /\ sender' \in [Replies -> SenderRecord]
        /\ \A r \in Replies : /\ sender'[r].pc = sender[r].pc /\ sender'[r].attempt = sender[r].attempt
                              /\ sender'[r].connection = sender[r].connection
    BY <1>c, <1>8 DEF FailPending, SenderRecord, Mail
  <2> QED BY <1>8, <2>1, <2>2 DEF TypeOK, ClientRecord, LinkRecord, SenderRecord, FailPending, SenderShape, ConnectionShape
<1> QED BY <1>1, <1>2, <1>3, <1>4, <1>5, <1>6, <1>7, <1>8 DEF SessionStep, ReaderStep

\* Steps of SendSegments.
LEMMA SenderStepsType ==
  ASSUME TypeInv, NEW r \in Replies, StartSend(r) \/ Cancel(r) \/ SenderStep(r)
  PROVE  TypeInv'
<1> USE DeliveryAssumption DEF TypeInv, database, bounds
<1>a. client \in [Connections -> ClientRecord]
  BY TableTypes
<1>b. link \in [Connections -> LinkRecord]
  BY TableTypes
<1>c. sender \in [Replies -> SenderRecord]
  BY TableTypes
<1>0. {"wait", "register", "write", "await", "judge", "pause", "delivered", "failed", "unknown"} \subseteq SenderSteps
  BY DEF SenderSteps, Outcomes
<1>1. CASE StartSend(r)
  <2>1. sender[r].attempt < MaxAttempts
    BY <1>1 DEF StartSend, SenderShape
  <2>2. SenderShape'
    BY <1>0, <1>1, <2>1, SenderStepShape DEF StartSend
  <2> QED BY <1>0, <1>1, <2>2, SenderStepType DEF TypeOK, ClientRecord, LinkRecord, SenderRecord, StartSend, ConnectionShape
<1>2. CASE Cancel(r)
  <2>1. /\ sender' \in [Replies -> SenderRecord]
        /\ \A q \in Replies : /\ sender'[q].pc = sender[q].pc /\ sender'[q].attempt = sender[q].attempt
                              /\ sender'[q].connection = sender[q].connection
    BY <1>c, <1>2 DEF Cancel, SenderRecord
  <2>2. SenderShape'
    BY <2>1 DEF SenderShape
  <2> QED BY <1>2, <2>1, <2>2 DEF Cancel, TypeOK, SenderRecord, ConnectionShape
<1>3. CASE TakeClient(r)
  <2>1. sender[r].attempt + 1 \in 0..MaxAttempts
    BY <1>3 DEF TakeClient, TypeOK, SenderShape
  <2>2. sender' \in [Replies -> SenderRecord]
    BY <1>c, <1>0, <1>3, <2>1 DEF TakeClient, SenderRecord, Mail
  <2>3. SenderShape'
    BY <1>3, <2>1 DEF TakeClient, TypeOK, SenderShape, NoConnection
  <2> QED BY <1>3, <2>2, <2>3 DEF TypeOK, ClientRecord, LinkRecord, SenderRecord, TakeClient, ConnectionShape
<1>4. CASE WaitCancelled(r)
  <2>1. PICK pc \in {"unknown", "failed"} : Step(r, pc)
    BY <1>4 DEF WaitCancelled
  <2>2. SenderShape'
    BY <1>0, <2>1, SenderStepShape
  <2> QED BY <1>0, <1>4, <2>1, <2>2, SenderStepType DEF TypeOK, ClientRecord, LinkRecord, SenderRecord, WaitCancelled, ConnectionShape
<1>5. CASE RegisterRequest(r)
  <2>1. PICK pc \in {"judge", "write"} : Step(r, pc)
    BY <1>5 DEF RegisterRequest
  <2>2. SenderShape'
    BY <1>0, <1>5, <2>1, SenderStepShape DEF RegisterRequest, SenderShape
  <2>3. Echo(r) \in Echoes /\ sender[r].connection \in Connections
    BY <1>5 DEF RegisterRequest, TypeOK, SenderShape, Echo, Echoes
  <2>4. client' \in [Connections -> ClientRecord]
    BY <1>a, <1>5, <2>3 DEF RegisterRequest, ClientRecord
  <2> QED BY <1>0, <1>5, <2>1, <2>2, <2>4, SenderStepType DEF TypeOK, ClientRecord, LinkRecord, SenderRecord, RegisterRequest, ConnectionShape
<1>6. CASE WriteRequest(r)
  <2>1. SenderShape'
    BY <1>0, <1>6, SenderStepShape DEF WriteRequest, SenderShape
  <2>2. Echo(r) \in Echoes /\ sender[r].connection \in Connections
    BY <1>6 DEF WriteRequest, TypeOK, SenderShape, Echo, Echoes
  <2>3. link' \in [Connections -> LinkRecord]
    <3>1. link[sender[r].connection] \in LinkRecord
      BY <1>b, <2>2
    <3>2. Append(link[sender[r].connection].up, Echo(r)) \in Seq(Echoes)
      BY <2>2, <3>1 DEF LinkRecord
    <3>3. [link[sender[r].connection] EXCEPT !.up = Append(@, Echo(r))] \in LinkRecord
      BY <3>1, <3>2 DEF LinkRecord
    <3> QED BY <1>b, <1>6, <2>2, <3>3 DEF WriteRequest
  <2> QED BY <1>0, <1>6, <2>1, <2>3, SenderStepType DEF TypeOK, ClientRecord, LinkRecord, SenderRecord, WriteRequest, ConnectionShape
<1>7. CASE AbandonRequest(r)
  <2>1. SenderShape'
    BY <1>0, <1>7, SenderStepShape DEF AbandonRequest, SenderShape
  <2>2. client' \in [Connections -> ClientRecord]
    BY <1>a, <1>7 DEF AbandonRequest, ClientRecord
  <2> QED BY <1>0, <1>7, <2>1, <2>2, SenderStepType DEF TypeOK, ClientRecord, LinkRecord, SenderRecord, AbandonRequest, ConnectionShape
<1>8. CASE ReceiveResult(r)
  <2>1. sender[r].mail \in {"ok", "error", "closed"}
    BY <1>8 DEF ReceiveResult, TypeOK, Mail
  <2>2. PICK pc \in {"delivered", "failed", "judge"} : Step(r, pc)
    BY <1>8, <2>1 DEF ReceiveResult
  <2>3. SenderShape'
    BY <1>0, <1>8, <2>2, SenderStepShape DEF ReceiveResult, SenderShape
  <2> QED BY <1>0, <1>8, <2>2, <2>3, SenderStepType DEF TypeOK, ClientRecord, LinkRecord, SenderRecord, ReceiveResult, ConnectionShape
<1>9. CASE JudgeAttempt(r)
  <2>1. PICK pc \in {"unknown", "wait", "pause"} :
            Step(r, pc) /\ (pc \in {"wait", "pause"} => sender[r].attempt < MaxAttempts)
    BY <1>9 DEF JudgeAttempt
  <2>2. SenderShape'
    BY <1>0, <1>9, <2>1, SenderStepShape DEF JudgeAttempt, SenderShape
  <2>3. attached' \in Connections \cup {NoConnection}
    BY <1>9 DEF JudgeAttempt, Detach, TypeOK
  <2> QED BY <1>0, <1>9, <2>1, <2>2, <2>3, SenderStepType DEF TypeOK, ClientRecord, LinkRecord, SenderRecord, JudgeAttempt, ConnectionShape
<1>10. CASE RetryPause(r)
  <2>1. PICK pc \in {"unknown", "wait"} : Step(r, pc)
    BY <1>10 DEF RetryPause
  <2>2. SenderShape'
    BY <1>0, <1>10, <2>1, SenderStepShape DEF RetryPause, SenderShape
  <2>3. attached' \in Connections \cup {NoConnection}
    BY <1>10 DEF RetryPause, Detach, TypeOK
  <2> QED BY <1>0, <1>10, <2>1, <2>2, <2>3, SenderStepType DEF TypeOK, ClientRecord, LinkRecord, SenderRecord, RetryPause, ConnectionShape
<1> QED BY <1>1, <1>2, <1>3, <1>4, <1>5, <1>6, <1>7, <1>8, <1>9, <1>10 DEF SenderStep

HandlerRecord == [pc : HandlerSteps, echo : Echoes \cup {None}, duplicate : BOOLEAN]

\* A handler that steps, or that returns, keeps its type; none but c's moves.
LEMMA HandlerUpdated ==
  ASSUME TypeInv, NEW c \in Connections, NEW h \in HandlerRecord,
         h.pc # "idle" => h.echo \in Echoes, handler' = [handler EXCEPT ![c] = h]
  PROVE  /\ handler' \in [Connections -> HandlerRecord]
         /\ handler'[c] = h /\ \A d \in Connections \ {c} : handler'[d] = handler[d]
         /\ \A d \in Connections : handler'[d].pc # "idle" => handler'[d].echo \in Echoes
  BY DEF TypeInv, TypeOK, ConnectionShape, HandlerRecord

\* A handler that only goes on to another place.
LEMMA HandlerAtUpdated ==
  ASSUME TypeInv, NEW c \in Connections, NEW pc \in HandlerSteps, HandlerAt(c, pc), handler[c].pc # "idle"
  PROVE  /\ handler' \in [Connections -> HandlerRecord]
         /\ handler'[c].pc = pc /\ handler'[c].echo = handler[c].echo
         /\ handler'[c].duplicate = handler[c].duplicate
         /\ \A d \in Connections \ {c} : handler'[d] = handler[d]
         /\ \A d \in Connections : handler'[d].pc # "idle" => handler'[d].echo \in Echoes
<1> DEFINE h == [handler[c] EXCEPT !.pc = pc]
<1>1. handler[c] \in HandlerRecord /\ handler[c].echo \in Echoes
  BY DEF TypeInv, TypeOK, ConnectionShape, HandlerRecord
<1>2. /\ h \in HandlerRecord /\ h.echo \in Echoes /\ h.pc = pc
      /\ h.echo = handler[c].echo /\ h.duplicate = handler[c].duplicate
  BY <1>1 DEF HandlerRecord
<1>3. handler' = [handler EXCEPT ![c] = h]
  BY DEF HandlerAt
<1> HIDE DEF h
<1> QED BY <1>2, <1>3, HandlerUpdated

\* A handler that returns.
LEMMA HandlerReturned ==
  ASSUME TypeInv, NEW c \in Connections, handler' = [handler EXCEPT ![c] = IdleHandler]
  PROVE  /\ handler' \in [Connections -> HandlerRecord]
         /\ handler'[c].pc = "idle"
         /\ \A d \in Connections \ {c} : handler'[d] = handler[d]
         /\ \A d \in Connections : handler'[d].pc # "idle" => handler'[d].echo \in Echoes
<1>1. IdleHandler \in HandlerRecord /\ IdleHandler.pc = "idle"
  BY DEF IdleHandler, HandlerRecord, HandlerSteps
<1> QED BY <1>1, HandlerUpdated

\* sendJSON appends one response, or loses it.
LEMMA RespondType ==
  ASSUME TypeInv, NEW c \in Connections, handler[c].pc # "idle",
         NEW status \in {"ok", "error"}, Respond(c, status)
  PROVE  /\ link' \in [Connections -> LinkRecord]
         /\ \A d \in Connections \ {c} : link'[d] = link[d]
         /\ \/ link'[c].down = link[c].down
            \/ link'[c].down = Append(link[c].down, [echo |-> handler[c].echo, status |-> status])
<1> DEFINE m == [echo |-> handler[c].echo, status |-> status]
<1>1. link \in [Connections -> LinkRecord] /\ m \in Responses
  BY DEF TypeInv, TypeOK, ConnectionShape, LinkRecord, Responses
<1>2. Append(link[c].down, m) \in Seq(Responses)
  BY <1>1 DEF LinkRecord
<1> HIDE DEF m
<1>3. [link[c] EXCEPT !.down = Append(@, m)] \in LinkRecord
  BY <1>1, <1>2 DEF LinkRecord
<1>4. [link[c] EXCEPT !.down = Append(@, m)].down = Append(link[c].down, m)
  BY <1>1 DEF LinkRecord
<1>5. link' = link \/ link' = [link EXCEPT ![c] = [link[c] EXCEPT !.down = Append(@, m)]]
  BY DEF Respond, m
<1>6. m = [echo |-> handler[c].echo, status |-> status]
  BY DEF m
<1> QED BY <1>1, <1>3, <1>4, <1>5, <1>6

\* Steps of handleSendMessage, and the server's crashes and deletions.
LEMMA ServerStepsType ==
  ASSUME TypeInv,
         \/ \E c \in Connections : HandlerStep(c)
         \/ Crash \/ \E r \in Replies : DeleteMessage(r)
  PROVE  TypeInv'
<1> USE DEF database, bounds, fairy
<1>0. {"idle", "select", "load", "insert", "reselect", "respond", "broadcast"} \subseteq HandlerSteps
  BY DEF HandlerSteps
<1>1. SUFFICES ASSUME \/ handler' \in [Connections -> HandlerRecord]
                         /\ \A d \in Connections : handler'[d].pc # "idle" => handler'[d].echo \in Echoes
                      \/ UNCHANGED handler,
                      link' \in [Connections -> LinkRecord], UNCHANGED fairy,
                      stored' \subseteq Replies, copies' \in [Replies -> Nat], shown' \in [Replies -> Nat],
                      deletes' \in 0..MaxDeletes, crashes' \in 0..MaxCrashes
               PROVE  TypeInv'
  <2>0. /\ link \in [Connections -> LinkRecord] /\ handler \in [Connections -> HandlerRecord]
        /\ copies \in [Replies -> Nat] /\ shown \in [Replies -> Nat] /\ stored \subseteq Replies
        /\ deletes \in 0..MaxDeletes /\ crashes \in 0..MaxCrashes
    BY DEF TypeInv, TypeOK, LinkRecord, HandlerRecord
  <2>1. ASSUME NEW c \in Connections, ReadRequest(c) PROVE TypeInv'
    <3>1. link[c] \in LinkRecord /\ Head(link[c].up) \in Echoes /\ Tail(link[c].up) \in Seq(Echoes)
      BY <2>0, <2>1 DEF ReadRequest, LinkRecord
    <3>2. [link[c] EXCEPT !.up = Tail(@)] \in LinkRecord
      BY <3>1 DEF LinkRecord
    <3>3. link' \in [Connections -> LinkRecord]
      BY <2>0, <2>1, <3>2 DEF ReadRequest
    <3>4. [pc |-> "select", echo |-> Head(link[c].up), duplicate |-> FALSE] \in HandlerRecord
      BY <1>0, <3>1 DEF HandlerRecord
    <3> QED BY <2>0, <2>1, <3>1, <3>3, <3>4, HandlerUpdated, <1>1 DEF ReadRequest
  <2>2. ASSUME NEW c \in Connections, RejectRequest(c) PROVE TypeInv'
    BY <2>0, <2>2, HandlerReturned, RespondType, <1>1 DEF RejectRequest
  <2>3. ASSUME NEW c \in Connections, SelectKey(c) PROVE TypeInv'
    BY <1>0, <2>0, <2>3, HandlerAtUpdated, <1>1 DEF SelectKey
  <2>4. ASSUME NEW c \in Connections, LoadMessage(c) PROVE TypeInv'
    <3> DEFINE h == [handler[c] EXCEPT !.pc = "respond", !.duplicate = TRUE]
    <3>1. handler[c] \in HandlerRecord /\ handler[c].echo \in Echoes
      BY <2>0, <2>4 DEF LoadMessage, TypeInv, ConnectionShape
    <3>2. h \in HandlerRecord /\ h.echo \in Echoes
      BY <1>0, <3>1 DEF HandlerRecord
    <3>3. handler' = [handler EXCEPT ![c] = h]
      BY <2>0, <2>4 DEF LoadMessage
    <3> HIDE DEF h
    <3> QED BY <2>0, <2>4, <3>2, <3>3, HandlerUpdated, <1>1 DEF LoadMessage
  <2>5. ASSUME NEW c \in Connections, InsertMessage(c) PROVE TypeInv'
    <3>1. ReplyOf(c) \in Replies
      BY <2>5 DEF InsertMessage, TypeInv, ConnectionShape, ReplyOf, Echoes
    <3>2. PICK pc \in {"reselect", "respond"} : HandlerAt(c, pc)
      BY <2>5 DEF InsertMessage
    <3>3. stored' \subseteq Replies /\ copies' \in [Replies -> Nat]
      BY <2>0, <2>5, <3>1 DEF InsertMessage
    <3> QED BY <1>0, <2>0, <2>5, <3>2, <3>3, HandlerAtUpdated, <1>1 DEF InsertMessage
  <2>6. ASSUME NEW c \in Connections, ReselectKey(c) PROVE TypeInv'
    BY <1>0, <2>0, <2>6, HandlerAtUpdated, <1>1 DEF ReselectKey
  <2>7. ASSUME NEW c \in Connections, RespondStored(c) PROVE TypeInv'
    <3>1. link' \in [Connections -> LinkRecord]
      BY <2>7, RespondType DEF RespondStored
    <3>2. CASE handler[c].duplicate
      BY <2>0, <2>7, <3>1, <3>2, HandlerReturned, <1>1 DEF RespondStored
    <3>3. CASE ~handler[c].duplicate
      <4>1. HandlerAt(c, "broadcast")
        BY <2>7, <3>3 DEF RespondStored, HandlerAt
      <4> QED BY <1>0, <2>0, <2>7, <3>1, <4>1, HandlerAtUpdated, <1>1 DEF RespondStored
    <3> QED BY <3>2, <3>3
  <2>8. ASSUME NEW c \in Connections, BroadcastMessage(c) PROVE TypeInv'
    <3>1. ReplyOf(c) \in Replies
      BY <2>8 DEF BroadcastMessage, TypeInv, ConnectionShape, ReplyOf, Echoes
    <3>2. shown' \in [Replies -> Nat]
      BY <2>0, <2>8, <3>1 DEF BroadcastMessage
    <3> QED BY <2>0, <2>8, <3>2, HandlerReturned, <1>1 DEF BroadcastMessage
  <2>9. ServerStops => /\ handler' \in [Connections -> HandlerRecord]
                       /\ \A d \in Connections : handler'[d].pc # "idle" => handler'[d].echo \in Echoes
                       /\ link' \in [Connections -> LinkRecord]
    <3>1. IdleHandler \in HandlerRecord /\ IdleHandler.pc = "idle"
      BY <1>0 DEF IdleHandler, HandlerRecord
    <3> QED BY <3>1, ServerStopsType DEF TypeInv
  <2>10. ASSUME NEW c \in Connections, NilMessage(c) PROVE TypeInv'
    BY <2>0, <2>9, <2>10, <1>1 DEF NilMessage
  <2>11. CASE Crash
    <3>1. crashes' \in 0..MaxCrashes
      BY <2>0, <2>11, DeliveryAssumption DEF Crash
    <3> QED BY <2>0, <2>9, <2>11, <3>1, <1>1 DEF Crash
  <2>12. ASSUME NEW r \in Replies, DeleteMessage(r) PROVE TypeInv'
    <3>1. deletes' \in 0..MaxDeletes
      BY <2>0, <2>12, DeliveryAssumption DEF DeleteMessage
    <3> QED BY <2>0, <2>12, <3>1, <1>1 DEF DeleteMessage
  <2> QED BY <2>1, <2>2, <2>3, <2>4, <2>5, <2>6, <2>7, <2>8, <2>10, <2>11, <2>12 DEF HandlerStep
<1>2. handler \in [Connections -> HandlerRecord] /\ sender \in [Replies -> SenderRecord]
  BY DEF TypeInv, TypeOK, HandlerRecord, SenderRecord
<1>3. SenderShape' /\ ConnectionShape'
  BY <1>1, <1>2 DEF TypeInv, SenderShape, ConnectionShape
<1>4. TypeOK'
  BY <1>1, <1>2 DEF TypeInv, TypeOK, HandlerRecord, LinkRecord
<1> QED BY <1>3, <1>4 DEF TypeInv

\* The initial states are typed ...
LEMMA StartsTyped == Init => TypeInv
  BY DeliveryAssumption
     DEF Init, TypeInv, TypeOK, SenderShape, ConnectionShape, NoConnection, Connections, IdleHandler,
         SessionPhases, ClientPhases, HandlerSteps, SenderSteps, Outcomes, Mail

\* ... and every step keeps the types.
LEMMA StaysTyped == TypeInv /\ [Next]_vars => TypeInv'
<1>1. CASE UNCHANGED vars
  BY <1>1 DEF TypeInv, TypeOK, SenderShape, ConnectionShape, vars
<1> QED BY <1>1, ConnectionStepsType, SenderStepsType, ServerStepsType DEF Next

\* TypeOK: every operation of Fairy's messenger, its client and the gateway's
\* handler leaves each variable with a value of its type; in particular no
\* sender makes more than maxAttempts attempts.
THEOREM TypeCorrect == Spec => []TypeInv
<1> QED BY StartsTyped, StaysTyped, PTL DEF Spec

-----------------------------------------------------------------------------
(* The client that is attached *)

\* Attach, Detach: RunningSessionIsAttached is kept by every step.
LEMMA AttachedStep ==
  ASSUME TypeInv, RunningSessionIsAttached, [Next]_vars
  PROVE  RunningSessionIsAttached'
<1> USE DEF RunningSessionIsAttached, fairy
<1>1. CASE UNCHANGED <<attached, session, client>>
  BY <1>1
<1>2. CASE Connect
  <2>1. session'.connection = session.connection + 1 /\ attached' = session.connection + 1
    BY <1>2 DEF Connect
  <2> QED BY <2>1
<1>3. CASE SessionStep
  BY <1>3 DEF SessionStep, EndSession, CloseClient, SessionOver, TypeInv, TypeOK
<1>4. ASSUME NEW c \in Connections, ReaderStep(c) PROVE RunningSessionIsAttached'
  <2>1. client \in [Connections -> ClientRecord]
    BY TableTypes DEF TypeInv
  <2>2. \A d \in Connections : client'[d].phase = "open" => client[d].phase = "open"
    BY <1>4, <2>1, SMTT(30) DEF ReaderStep, ReadResponse, ReadFails, FailPending, ClientRecord
  <2>3. session.phase = "running" => session.connection \in Connections
    BY DEF TypeInv, TypeOK, ConnectionShape, Connections, NoConnection
  <2> QED BY <1>4, <2>2, <2>3 DEF ReaderStep, ReadResponse, ReadFails, FailPending
<1>5. ASSUME NEW r \in Replies, RegisterRequest(r) \/ AbandonRequest(r) PROVE RunningSessionIsAttached'
  <2>1. client \in [Connections -> ClientRecord]
    BY TableTypes DEF TypeInv
  <2>2. \A d \in Connections : client'[d].phase = client[d].phase
    BY <1>5, <2>1 DEF RegisterRequest, AbandonRequest, ClientRecord
  <2>3. session.phase = "running" => session.connection \in Connections
    BY DEF TypeInv, TypeOK, ConnectionShape, Connections, NoConnection
  <2> QED BY <1>5, <2>2, <2>3 DEF RegisterRequest, AbandonRequest
<1>6. ASSUME NEW r \in Replies, JudgeAttempt(r) \/ RetryPause(r) PROVE RunningSessionIsAttached'
  BY <1>6 DEF JudgeAttempt, RetryPause, Detach, Closed
<1> QED
  BY <1>1, <1>2, <1>3, <1>4, <1>5, <1>6
  DEF Next, SenderStep, HandlerStep, Disconnect, Crash, StartSend, Cancel, TakeClient, WaitCancelled,
      WriteRequest, ReceiveResult, DeleteMessage, ReadRequest, RejectRequest, SelectKey, LoadMessage,
      InsertMessage, ReselectKey, RespondStored, BroadcastMessage, NilMessage, vars

\* The messenger is never left without the client of the session that runs: a
\* sender that was given an earlier client detaches that one only.
THEOREM SessionStaysAttached == Spec => []RunningSessionIsAttached
<1>1. Init => RunningSessionIsAttached
  BY DEF Init, RunningSessionIsAttached
<1>2. TypeInv /\ RunningSessionIsAttached /\ [Next]_vars => RunningSessionIsAttached'
  BY AttachedStep
<1> QED BY <1>1, <1>2, TypeCorrect, PTL DEF Spec

-----------------------------------------------------------------------------
(* The pending map *)

\* deliverResponse and finish take the entry out when they put a result into
\* its channel, so that a request with a result has no entry; a request that
\* is about to register has an empty channel.
MailIsOwed ==
    \A r \in Replies :
        /\ sender[r].pc = "register" => sender[r].mail = "none"
        /\ sender[r].pc \in {"write", "await"} /\ sender[r].mail # "none"
              => Echo(r) \notin client[sender[r].connection].pending

PendingInv == PendingIsExact /\ MailIsOwed

\* An entry of reply r is the echo of r's attempt under way.
LEMMA EntryIsEcho ==
  ASSUME TypeInv, PendingInv, NEW c \in Connections, NEW e \in client[c].pending
  PROVE  /\ e \in Echoes /\ e.reply \in Replies
         /\ sender[e.reply].pc \in {"write", "await"} /\ sender[e.reply].connection = c
         /\ e = Echo(e.reply) /\ sender[e.reply].mail = "none"
<1>1. e \in Echoes
  BY DEF TypeInv, TypeOK
<1>2. e.reply \in Replies /\ e = [reply |-> e.reply, attempt |-> e.attempt]
  BY <1>1 DEF Echoes
<1>3. sender[e.reply].pc \in {"write", "await"} /\ sender[e.reply].connection = c /\ sender[e.reply].attempt = e.attempt
  BY <1>2 DEF PendingInv, PendingIsExact
<1>4. e = Echo(e.reply)
  BY <1>2, <1>3 DEF Echo
<1> QED BY <1>1, <1>2, <1>3, <1>4 DEF PendingInv, MailIsOwed

\* A sender that has no entry goes to a place where it needs none.
LEMMA PendingAside ==
  ASSUME TypeInv, PendingInv, NEW r \in Replies,
         \A q \in Replies \ {r} : sender'[q] = sender[q], client' = client,
         sender[r].pc \in {"write", "await"} => sender[r].mail # "none",
         sender'[r].pc \notin {"write", "await"},
         sender'[r].pc = "register" => sender'[r].mail = "none"
  PROVE  PendingInv'
<1>1. \A c \in Connections : \A e \in client[c].pending : e.reply \in Replies \ {r}
  BY EntryIsEcho
<1>2. \A q \in Replies \ {r} : Echo(q)' = Echo(q)
  BY DEF Echo
<1>3. PendingIsExact'
  <2>1. \A q \in Replies :
          (sender[q].pc \in {"write", "await"} /\ sender[q].mail = "none"
              => /\ Echo(q) \in client[sender[q].connection].pending
                 /\ client[sender[q].connection].phase # "closed")'
    BY <1>2 DEF PendingInv, PendingIsExact
  <2>2. \A c \in Connections : \A e \in client'[c].pending :
          /\ sender'[e.reply].pc \in {"write", "await"}
          /\ sender'[e.reply].connection = c /\ sender'[e.reply].attempt = e.attempt
    BY <1>1 DEF PendingInv, PendingIsExact
  <2> QED BY <2>1, <2>2 DEF PendingIsExact
<1>4. MailIsOwed'
  BY <1>2 DEF PendingInv, MailIsOwed
<1> QED BY <1>3, <1>4 DEF PendingInv

\* A step that leaves every sender's request and channel as they are, and no
\* client that was not closed before closed.
LEMMA PendingKept ==
  ASSUME TypeInv, PendingInv,
         \A q \in Replies : /\ sender'[q].pc = sender[q].pc \/ {sender'[q].pc, sender[q].pc} \subseteq {"write", "await"}
                            /\ sender'[q].attempt = sender[q].attempt
                            /\ sender'[q].connection = sender[q].connection /\ sender'[q].mail = sender[q].mail,
         \A c \in Connections : /\ client'[c].pending = client[c].pending
                                /\ client'[c].phase = "closed" => client[c].phase = "closed"
  PROVE  PendingInv'
<1>1. \A q \in Replies : Echo(q)' = Echo(q)
  BY DEF Echo
<1>2. \A q \in Replies : sender[q].pc \in {"write", "await"} => sender[q].connection \in Connections
  BY DEF TypeInv, TypeOK, SenderShape
<1>3. \A q \in Replies : /\ sender'[q].pc \in {"write", "await"} <=> sender[q].pc \in {"write", "await"}
                         /\ sender'[q].pc = "register" <=> sender[q].pc = "register"
  OBVIOUS
<1>4. \A c \in Connections : \A e \in client[c].pending : e.reply \in Replies
  BY EntryIsEcho
<1>5. \A q \in Replies :
          (sender[q].pc \in {"write", "await"} /\ sender[q].mail = "none"
              => /\ Echo(q) \in client[sender[q].connection].pending
                 /\ client[sender[q].connection].phase # "closed")'
  BY <1>1, <1>2, <1>3 DEF PendingInv, PendingIsExact
<1>6. \A c \in Connections : \A e \in client'[c].pending :
          /\ sender'[e.reply].pc \in {"write", "await"}
          /\ sender'[e.reply].connection = c /\ sender'[e.reply].attempt = e.attempt
  BY <1>3, <1>4 DEF PendingInv, PendingIsExact
<1>7. MailIsOwed'
  BY <1>1, <1>2, <1>3 DEF PendingInv, MailIsOwed
<1> QED BY <1>5, <1>6, <1>7 DEF PendingInv, PendingIsExact

\* Request: the echo of the attempt is entered with a client that is not done.
LEMMA PendingRegister ==
  ASSUME TypeInv, PendingInv, NEW r \in Replies, RegisterRequest(r)
  PROVE  PendingInv'
<1> DEFINE c == sender[r].connection
<1>1. c \in Connections /\ sender[r].mail = "none"
  BY DEF RegisterRequest, TypeInv, TypeOK, SenderShape, PendingInv, MailIsOwed
<1>2. CASE sender[r].cancelled \/ Closed(c)
  <2>1. Step(r, "judge") /\ client' = client /\ sender[r].pc = "register"
    BY <1>2 DEF RegisterRequest
  <2>2. "judge" \in SenderSteps
    BY DEF SenderSteps
  <2> QED BY <2>1, <2>2, SenderStepType, PendingAside DEF TypeInv
<1>3. CASE ~(sender[r].cancelled \/ Closed(c))
  <2>1. Step(r, "write") /\ "write" \in SenderSteps
    BY <1>3 DEF RegisterRequest, SenderSteps
  <2>2. /\ \A q \in Replies \ {r} : sender'[q] = sender[q]
        /\ sender'[r].pc = "write" /\ sender'[r].attempt = sender[r].attempt
        /\ sender'[r].connection = c /\ sender'[r].mail = "none"
    BY <1>1, <2>1, SenderStepType DEF TypeInv
  <2>3. /\ \A d \in Connections \ {c} : client'[d] = client[d]
        /\ client'[c].pending = client[c].pending \cup {Echo(r)}
        /\ client'[c].phase = client[c].phase /\ client[c].phase # "closed"
    <3>1. client \in [Connections -> ClientRecord]
      BY TableTypes DEF TypeInv
    <3> QED BY <1>1, <1>3, <3>1 DEF RegisterRequest, Closed, ClientRecord
  <2>4. \A q \in Replies : Echo(q)' = Echo(q)
    BY <2>2 DEF Echo
  <2>5. \A d \in Connections : \A e \in client[d].pending : e.reply \in Replies \ {r}
    BY EntryIsEcho DEF RegisterRequest
  <2>6. \A q \in Replies \ {r} : Echo(q) # Echo(r)
    BY DEF Echo
  <2>7. \A q \in Replies : sender[q].pc \in {"write", "await"} => sender[q].connection \in Connections
    BY DEF TypeInv, TypeOK, SenderShape
  <2>8. \A q \in Replies :
          (sender[q].pc \in {"write", "await"} /\ sender[q].mail = "none"
              => /\ Echo(q) \in client[sender[q].connection].pending
                 /\ client[sender[q].connection].phase # "closed")'
    BY <1>1, <2>2, <2>3, <2>4, <2>7 DEF PendingInv, PendingIsExact
  <2>9. ASSUME NEW d \in Connections, NEW e \in client'[d].pending
        PROVE  /\ sender'[e.reply].pc \in {"write", "await"}
               /\ sender'[e.reply].connection = d /\ sender'[e.reply].attempt = e.attempt
    <3>1. CASE e \in client[d].pending
      BY <2>2, <2>5, <3>1 DEF PendingInv, PendingIsExact
    <3>2. CASE e = Echo(r) /\ d = c
      BY <2>2, <3>2 DEF Echo
    <3> QED BY <1>1, <2>3, <2>9, <3>1, <3>2
  <2>10. MailIsOwed'
    BY <1>1, <2>2, <2>3, <2>4, <2>6, <2>7 DEF PendingInv, MailIsOwed
  <2> QED BY <2>8, <2>9, <2>10 DEF PendingInv, PendingIsExact
<1> QED BY <1>2, <1>3

\* removePending: the entry of the attempt that is given up goes with it.
LEMMA PendingAbandon ==
  ASSUME TypeInv, PendingInv, NEW r \in Replies, AbandonRequest(r)
  PROVE  PendingInv'
<1> DEFINE c == sender[r].connection
<1>1. c \in Connections
  BY DEF AbandonRequest, TypeInv, TypeOK, SenderShape
<1>2. /\ \A q \in Replies \ {r} : sender'[q] = sender[q]
      /\ sender'[r].pc = "judge" /\ sender'[r].attempt = sender[r].attempt
      /\ sender'[r].connection = c
  <2>1. Step(r, "judge") /\ "judge" \in SenderSteps
    BY DEF AbandonRequest, SenderSteps
  <2> QED BY <2>1, SenderStepType DEF TypeInv
<1>3. /\ \A d \in Connections \ {c} : client'[d] = client[d]
      /\ client'[c].pending = client[c].pending \ {Echo(r)}
      /\ client'[c].phase = client[c].phase
  <2>1. client \in [Connections -> ClientRecord]
    BY TableTypes DEF TypeInv
  <2> QED BY <1>1, <2>1 DEF AbandonRequest, ClientRecord
<1>4. \A q \in Replies : Echo(q)' = Echo(q)
  BY <1>2 DEF Echo
<1>5. \A d \in Connections : \A e \in client'[d].pending : e \in client[d].pending /\ e.reply \in Replies \ {r}
  BY <1>1, <1>3, EntryIsEcho
<1>6. \A q \in Replies \ {r} : Echo(q) # Echo(r)
  BY DEF Echo
<1>7. \A q \in Replies : sender[q].pc \in {"write", "await"} => sender[q].connection \in Connections
  BY DEF TypeInv, TypeOK, SenderShape
<1>8. \A q \in Replies :
        (sender[q].pc \in {"write", "await"} /\ sender[q].mail = "none"
            => /\ Echo(q) \in client[sender[q].connection].pending
               /\ client[sender[q].connection].phase # "closed")'
  BY <1>1, <1>2, <1>3, <1>4, <1>6, <1>7 DEF PendingInv, PendingIsExact
<1>9. \A d \in Connections : \A e \in client'[d].pending :
        /\ sender'[e.reply].pc \in {"write", "await"}
        /\ sender'[e.reply].connection = d /\ sender'[e.reply].attempt = e.attempt
  BY <1>2, <1>5 DEF PendingInv, PendingIsExact
<1>10. MailIsOwed'
  BY <1>1, <1>2, <1>3, <1>4, <1>6, <1>7 DEF PendingInv, MailIsOwed
<1> QED BY <1>8, <1>9, <1>10 DEF PendingInv, PendingIsExact

\* deliverResponse: the entry is taken out and its request gets the response.
LEMMA PendingRead ==
  ASSUME TypeInv, PendingInv, NEW c \in Connections, ReadResponse(c)
  PROVE  PendingInv'
<1> DEFINE m == Head(link[c].down)
<1> DEFINE r == m.echo.reply
<1>1. m \in Responses
  BY DEF ReadResponse, TypeInv, TypeOK
<1>2. m.echo \in Echoes /\ r \in Replies /\ m.status \in {"ok", "error"}
  BY <1>1 DEF Responses, Echoes
<1>3. /\ \A d \in Connections \ {c} : client'[d] = client[d]
      /\ client'[c].pending = client[c].pending \ {m.echo}
      /\ client'[c].phase = client[c].phase
  <2>1. client \in [Connections -> ClientRecord]
    BY TableTypes DEF TypeInv
  <2> QED BY <2>1 DEF ReadResponse, ClientRecord
<1>4. sender \in [Replies -> SenderRecord]
  BY TableTypes DEF TypeInv
<1>5. \A q \in Replies : /\ sender'[q].pc = sender[q].pc /\ sender'[q].attempt = sender[q].attempt
                         /\ sender'[q].connection = sender[q].connection
  BY <1>2, <1>4 DEF ReadResponse, SenderRecord
<1>6. /\ \A q \in Replies \ {r} : sender'[q].mail = sender[q].mail
      /\ m.echo \in client[c].pending => sender'[r].mail = m.status
      /\ m.echo \notin client[c].pending => sender'[r].mail = sender[r].mail
  BY <1>2, <1>4 DEF ReadResponse, SenderRecord
<1>7. \A q \in Replies : Echo(q)' = Echo(q) /\ Echo(q).reply = q
  BY <1>5 DEF Echo
<1>8. \A q \in Replies : sender[q].pc \in {"write", "await"} => sender[q].connection \in Connections
  BY DEF TypeInv, TypeOK, SenderShape
<1>9. m.echo \in client[c].pending => /\ m.echo = Echo(r) /\ sender[r].connection = c
                                      /\ sender[r].pc \in {"write", "await"} /\ sender[r].mail = "none"
  BY EntryIsEcho
<1> HIDE DEF m, r
<1>10. ASSUME NEW q \in Replies, sender[q].pc \in {"write", "await"}, sender'[q].mail = "none"
       PROVE  /\ Echo(q) \in client'[sender[q].connection].pending
              /\ client'[sender[q].connection].phase # "closed"
  <2>1. sender[q].mail = "none" /\ (m.echo \in client[c].pending => q # r)
    BY <1>2, <1>6, <1>9, <1>10
  <2>2. /\ Echo(q) \in client[sender[q].connection].pending
        /\ client[sender[q].connection].phase # "closed"
    BY <1>10, <2>1 DEF PendingInv, PendingIsExact
  <2>3. m.echo \in client[c].pending => Echo(q) # m.echo
    BY <1>2, <1>7, <1>9, <2>1
  <2> QED BY <1>3, <1>8, <1>10, <2>2, <2>3
<1>11. \A d \in Connections : \A e \in client'[d].pending :
         /\ sender'[e.reply].pc \in {"write", "await"}
         /\ sender'[e.reply].connection = d /\ sender'[e.reply].attempt = e.attempt
  <2>1. \A d \in Connections : client'[d].pending \subseteq client[d].pending
    BY <1>3
  <2> QED BY <1>5, <2>1, EntryIsEcho DEF PendingInv, PendingIsExact
<1>12. ASSUME NEW q \in Replies
       PROVE  /\ sender'[q].pc = "register" => sender'[q].mail = "none"
              /\ sender'[q].pc \in {"write", "await"} /\ sender'[q].mail # "none"
                    => Echo(q) \notin client'[sender[q].connection].pending
  <2>1. CASE sender'[q].mail = sender[q].mail
    BY <1>3, <1>5, <1>8, <2>1 DEF PendingInv, MailIsOwed
  <2>2. CASE m.echo \in client[c].pending /\ q = r
    BY <1>3, <1>5, <1>9, <2>2
  <2> QED BY <1>6, <2>1, <2>2
<1> QED BY <1>5, <1>7, <1>10, <1>11, <1>12 DEF PendingInv, PendingIsExact, MailIsOwed

\* finish: every entry goes, and every request that had one gets an error.
LEMMA PendingFail ==
  ASSUME TypeInv, PendingInv, NEW c \in Connections, FailPending(c)
  PROVE  PendingInv'
<1>1. /\ \A d \in Connections \ {c} : client'[d] = client[d]
      /\ client'[c].pending = {}
  <2>1. client \in [Connections -> ClientRecord]
    BY TableTypes DEF TypeInv
  <2> QED BY <2>1 DEF FailPending
<1>2. sender \in [Replies -> SenderRecord]
  BY TableTypes DEF TypeInv
<1>3. \A q \in Replies : /\ sender'[q].pc = sender[q].pc /\ sender'[q].attempt = sender[q].attempt
                         /\ sender'[q].connection = sender[q].connection
                         /\ sender'[q].mail = IF \E e \in client[c].pending : e.reply = q
                                              THEN "closed" ELSE sender[q].mail
  BY <1>2 DEF FailPending, SenderRecord
<1>4. \A q \in Replies : Echo(q)' = Echo(q) /\ Echo(q).reply = q
  BY <1>3 DEF Echo
<1>5. \A q \in Replies : sender[q].pc \in {"write", "await"} => sender[q].connection \in Connections
  BY DEF TypeInv, TypeOK, SenderShape
<1>6. ASSUME NEW q \in Replies, sender[q].pc \in {"write", "await"}, sender'[q].mail = "none"
      PROVE  /\ Echo(q) \in client'[sender[q].connection].pending
             /\ client'[sender[q].connection].phase # "closed"
  <2>1. sender[q].mail = "none" /\ ~\E e \in client[c].pending : e.reply = q
    BY <1>3, <1>6
  <2>2. /\ Echo(q) \in client[sender[q].connection].pending
        /\ client[sender[q].connection].phase # "closed"
    BY <1>6, <2>1 DEF PendingInv, PendingIsExact
  <2>3. sender[q].connection # c
    BY <1>4, <2>1, <2>2
  <2> QED BY <1>1, <1>5, <1>6, <2>2, <2>3
<1>7. \A d \in Connections : \A e \in client'[d].pending :
         /\ sender'[e.reply].pc \in {"write", "await"}
         /\ sender'[e.reply].connection = d /\ sender'[e.reply].attempt = e.attempt
  <2>1. \A d \in Connections : client'[d].pending \subseteq client[d].pending
    BY <1>1
  <2> QED BY <1>3, <2>1, EntryIsEcho DEF PendingInv, PendingIsExact
<1>8. ASSUME NEW q \in Replies
      PROVE  /\ sender'[q].pc = "register" => sender'[q].mail = "none"
             /\ sender'[q].pc \in {"write", "await"} /\ sender'[q].mail # "none"
                   => Echo(q) \notin client'[sender[q].connection].pending
  <2>1. CASE sender'[q].mail = sender[q].mail
    BY <1>1, <1>3, <1>5, <2>1 DEF PendingInv, MailIsOwed
  <2>2. CASE \E e \in client[c].pending : e.reply = q
    BY <1>1, <1>3, <2>2, EntryIsEcho
  <2> QED BY <1>3, <2>1, <2>2
<1> QED BY <1>3, <1>4, <1>6, <1>7, <1>8 DEF PendingInv, PendingIsExact, MailIsOwed

\* PendingInv is kept by every step.
LEMMA PendingStep ==
  ASSUME TypeInv, PendingInv, [Next]_vars
  PROVE  PendingInv'
<1> USE DEF fairy
<1>0. /\ client \in [Connections -> ClientRecord] /\ sender \in [Replies -> SenderRecord]
      /\ {"wait", "register", "write", "await", "judge", "pause", "delivered", "failed", "unknown"} \subseteq SenderSteps
  BY TableTypes DEF TypeInv, SenderSteps, Outcomes
<1>1. CASE UNCHANGED <<sender, client>>
  BY <1>1, PendingKept
<1>2. CASE Connect
  <2>1. \A c \in Connections : client'[c].pending = client[c].pending /\ (client'[c].phase = client[c].phase \/ client'[c].phase = "open")
    BY <1>0, <1>2 DEF Connect, ClientRecord
  <2> QED BY <1>2, <2>1, PendingKept DEF Connect
<1>3. CASE SessionStep
  <2>1. \A c \in Connections : client'[c].pending = client[c].pending /\ (client'[c].phase = client[c].phase \/ client'[c].phase = "failing")
    BY <1>0, <1>3 DEF SessionStep, EndSession, CloseClient, SessionOver, ClientRecord
  <2>2. sender' = sender
    BY <1>3 DEF SessionStep, EndSession, CloseClient, SessionOver
  <2> QED BY <2>1, <2>2, PendingKept
<1>4. ASSUME NEW c \in Connections, ReadFails(c) PROVE PendingInv'
  <2>1. \A d \in Connections : client'[d].pending = client[d].pending /\ (client'[d].phase = client[d].phase \/ client'[d].phase = "failing")
    BY <1>0, <1>4 DEF ReadFails, ClientRecord
  <2> QED BY <1>4, <2>1, PendingKept DEF ReadFails
<1>5. ASSUME NEW r \in Replies, Cancel(r) PROVE PendingInv'
  <2>1. \A q \in Replies : /\ sender'[q].pc = sender[q].pc /\ sender'[q].attempt = sender[q].attempt
                           /\ sender'[q].connection = sender[q].connection /\ sender'[q].mail = sender[q].mail
    BY <1>0, <1>5 DEF Cancel, SenderRecord
  <2> QED BY <1>5, <2>1, PendingKept DEF Cancel
<1>6. ASSUME NEW r \in Replies, WriteRequest(r) PROVE PendingInv'
  <2>1. Step(r, "await") /\ client' = client /\ sender[r].pc = "write"
    BY <1>6 DEF WriteRequest
  <2>2. /\ \A q \in Replies \ {r} : sender'[q] = sender[q]
        /\ sender'[r].pc = "await" /\ sender'[r].attempt = sender[r].attempt
        /\ sender'[r].connection = sender[r].connection /\ sender'[r].mail = sender[r].mail
    BY <1>0, <2>1, SenderStepType DEF TypeInv
  <2> QED BY <2>1, <2>2, PendingKept
<1>7. ASSUME NEW r \in Replies, NEW pc \in {"wait", "judge", "pause", "delivered", "failed", "unknown"},
             Step(r, pc), client' = client, sender[r].pc \in {"write", "await"} => sender[r].mail # "none"
      PROVE  PendingInv'
  <2>0. pc \in SenderSteps /\ TypeOK
    BY <1>0 DEF TypeInv
  <2>1. (\A q \in Replies \ {r} : sender'[q] = sender[q]) /\ sender'[r].pc = pc
    BY <1>7, <2>0, SenderStepType
  <2> QED BY <1>7, <2>1, PendingAside
<1>8. ASSUME NEW r \in Replies, StartSend(r) \/ WaitCancelled(r) \/ JudgeAttempt(r) \/ RetryPause(r)
      PROVE  PendingInv'
  <2>1. /\ \E pc \in {"wait", "judge", "pause", "delivered", "failed", "unknown"} : Step(r, pc)
        /\ client' = client /\ sender[r].pc \notin {"write", "await"}
    BY <1>8 DEF StartSend, WaitCancelled, JudgeAttempt, RetryPause
  <2> QED BY <1>7, <2>1
<1>9. ASSUME NEW r \in Replies, ReceiveResult(r) PROVE PendingInv'
  <2>1. sender[r].mail \in {"ok", "error", "closed"}
    BY <1>0, <1>9 DEF ReceiveResult, SenderRecord, Mail
  <2>2. \E pc \in {"delivered", "failed", "judge"} : Step(r, pc)
    BY <1>9, <2>1 DEF ReceiveResult
  <2> QED BY <1>7, <1>9, <2>2 DEF ReceiveResult
<1>10. ASSUME NEW r \in Replies, TakeClient(r) PROVE PendingInv'
  <2>1. /\ \A q \in Replies \ {r} : sender'[q] = sender[q]
        /\ sender'[r].pc = "register" /\ sender'[r].mail = "none"
    BY <1>0, <1>10 DEF TakeClient, SenderRecord
  <2> QED BY <1>10, <2>1, PendingAside DEF TakeClient
<1> QED
  BY <1>1, <1>2, <1>3, <1>4, <1>5, <1>6, <1>8, <1>9, <1>10, PendingRegister, PendingAbandon, PendingRead, PendingFail
  DEF Next, SenderStep, ReaderStep, HandlerStep, Disconnect, Crash, DeleteMessage, ReadRequest, RejectRequest,
      SelectKey, LoadMessage, InsertMessage, ReselectKey, RespondStored, BroadcastMessage, NilMessage, vars

\* The pending map holds exactly the requests that wait: none is left behind
\* in a client that is closed, where nothing would ever wake it, and no entry
\* outlives its request, in any interleaving of registering, answering,
\* abandoning and finish over any number of connections.
THEOREM PendingMapIsExact == Spec => []PendingIsExact
<1>1. Init => PendingInv
  BY DEF Init, PendingInv, PendingIsExact, MailIsOwed
<1>2. TypeInv /\ PendingInv /\ [Next]_vars => PendingInv'
  BY PendingStep
<1>3. PendingInv => PendingIsExact
  BY DEF PendingInv
<1> QED BY <1>1, <1>2, <1>3, TypeCorrect, PTL DEF Spec

-----------------------------------------------------------------------------
(* The refinement of OnceOnlyLog *)

\* The handlers that have inserted the row of r and have yet to announce it.
Announcers(r) ==
    {c \in Connections : /\ handler[c].pc \in {"respond", "broadcast"} /\ ~handler[c].duplicate
                         /\ ReplyOf(c) = r}

\* An ok response stands for a row that was inserted.
TrueResponses == {m \in Responses : m.status = "ok" => copies[m.echo.reply] > 0}

\* Each insertion is announced or has a handler that will announce it, and
\* whatever speaks of success, from the row to the sender's channel, follows
\* an insertion.
AnnouncersInv ==
    /\ \A r \in Replies : shown[r] + Cardinality(Announcers(r)) <= copies[r]
    /\ \A c \in Connections : handler[c].pc = "broadcast" => ~handler[c].duplicate
SuccessInv ==
    /\ \A r \in stored : copies[r] > 0
    /\ \A c \in Connections : handler[c].pc = "respond" => copies[ReplyOf(c)] > 0
    /\ \A c \in Connections : link[c].down \in Seq(TrueResponses)
    /\ \A r \in Replies : sender[r].mail = "ok" => copies[r] > 0

LogInv == AnnouncersInv /\ SuccessInv

LEMMA AnnouncersFinite ==
  ASSUME NEW r
  PROVE  /\ IsFiniteSet(Announcers(r)) /\ Cardinality(Announcers(r)) \in Nat
         /\ IsFiniteSet(Announcers(r)') /\ Cardinality(Announcers(r)') \in Nat
<1>1. IsFiniteSet(Connections)
  BY FS_Interval, DeliveryAssumption DEF Connections
<1>2. Announcers(r) \subseteq Connections /\ Announcers(r)' \subseteq Connections
  BY DEF Announcers
<1> QED BY <1>1, <1>2, FS_Subset, FS_CardinalityType

LEMMA SeqMonotone ==
  ASSUME NEW S, NEW T, S \subseteq T, NEW s \in Seq(S)
  PROVE  s \in Seq(T)
  OBVIOUS

\* Steps of Fairy and of the network insert, announce and handle nothing; what
\* they read and lose of the responses under way leaves true ones.
LEMMA FairyStepsLog ==
  ASSUME TypeInv, LogInv, handler' = handler, UNCHANGED database,
         \A c \in Connections : link'[c].down \in Seq(TrueResponses),
         \A r \in Replies : sender'[r].mail = "ok" => sender[r].mail = "ok" \/ copies[r] > 0
  PROVE  LogInv'
<1>1. \A r \in Replies : Announcers(r)' = Announcers(r)
  BY DEF Announcers, ReplyOf
<1>2. AnnouncersInv'
  BY <1>1 DEF LogInv, AnnouncersInv, database
<1>3. TrueResponses' = TrueResponses
  BY DEF TrueResponses, database
<1>4. SuccessInv'
  BY <1>3 DEF LogInv, SuccessInv, database, ReplyOf
<1> QED BY <1>2, <1>4 DEF LogInv

LEMMA BrokenLog ==
  ASSUME TypeInv, LogInv, NEW c \in Connections, NEW l \in Broken(link[c])
  PROVE  l.down \in Seq(TrueResponses)
<1>1. link[c].down \in Seq(TrueResponses)
  BY DEF LogInv, SuccessInv
<1>2. PICK u \in Prefixes(link[c].up), d \in Prefixes(link[c].down) : l = [alive |-> FALSE, up |-> u, down |-> d]
  BY DEF Broken
<1>3. PICK n \in 0..Len(link[c].down) : d = SubSeq(link[c].down, 1, n)
  BY DEF Prefixes
<1>4. d \in Seq(TrueResponses)
  BY <1>1, <1>3, PrefixType
<1> QED BY <1>2, <1>4

LEMMA FairyLog ==
  ASSUME TypeInv, LogInv,
         \/ Connect \/ SessionStep
         \/ \E c \in Connections : Disconnect(c) \/ ReaderStep(c)
         \/ \E r \in Replies : StartSend(r) \/ Cancel(r) \/ SenderStep(r)
  PROVE  LogInv'
<1> USE DEF fairy
<1>0. /\ link \in [Connections -> LinkRecord] /\ sender \in [Replies -> SenderRecord]
      /\ \A c \in Connections : link[c].down \in Seq(TrueResponses)
  BY TableTypes DEF TypeInv, LogInv, SuccessInv
<1>1. CASE Connect
  <2>1. \A c \in Connections : link'[c].down = link[c].down
    BY <1>0, <1>1 DEF Connect, LinkRecord
  <2> QED BY <1>0, <1>1, <2>1, FairyStepsLog DEF Connect
<1>2. CASE EndSession \/ SessionOver
  BY <1>0, <1>2, FairyStepsLog DEF EndSession, SessionOver
<1>3. CASE CloseClient
  <2>1. session.connection \in Connections
    BY <1>3 DEF CloseClient, TypeInv, TypeOK, ConnectionShape, Connections, NoConnection
  <2>2. \A c \in Connections : link'[c].down \in Seq(TrueResponses)
    BY <1>0, <1>3, <2>1, BrokenLog DEF CloseClient
  <2> QED BY <1>3, <2>2, FairyStepsLog DEF CloseClient
<1>4. ASSUME NEW c \in Connections, Disconnect(c) PROVE LogInv'
  <2>1. \A d \in Connections : link'[d].down \in Seq(TrueResponses)
    BY <1>0, <1>4, BrokenLog DEF Disconnect
  <2> QED BY <1>4, <2>1, FairyStepsLog DEF Disconnect
<1>5. ASSUME NEW c \in Connections, ReadResponse(c) PROVE LogInv'
  <2> DEFINE m == Head(link[c].down)
  <2>1. m \in TrueResponses /\ Tail(link[c].down) \in Seq(TrueResponses)
    BY <1>0, <1>5 DEF ReadResponse
  <2>2. m.echo.reply \in Replies /\ (m.status = "ok" => copies[m.echo.reply] > 0)
    BY <2>1 DEF TrueResponses, Responses, Echoes
  <2>3. \A d \in Connections : link'[d].down \in Seq(TrueResponses)
    BY <1>0, <1>5, <2>1 DEF ReadResponse, LinkRecord
  <2>4. \A r \in Replies : sender'[r].mail = sender[r].mail \/ (r = m.echo.reply /\ sender'[r].mail = m.status)
    BY <1>0, <1>5, <2>2 DEF ReadResponse, SenderRecord
  <2> HIDE DEF m
  <2>5. \A r \in Replies : sender'[r].mail = "ok" => sender[r].mail = "ok" \/ copies[r] > 0
    BY <2>2, <2>4
  <2> QED BY <1>5, <2>3, <2>5, FairyStepsLog DEF ReadResponse
<1>6. ASSUME NEW c \in Connections, ReadFails(c) PROVE LogInv'
  BY <1>0, <1>6, FairyStepsLog DEF ReadFails
<1>7. ASSUME NEW c \in Connections, FailPending(c) PROVE LogInv'
  <2>1. \A r \in Replies : sender'[r].mail \in {sender[r].mail, "closed"}
    BY <1>0, <1>7 DEF FailPending, SenderRecord
  <2> QED BY <1>0, <1>7, <2>1, FairyStepsLog DEF FailPending
<1>8. ASSUME NEW r \in Replies, StartSend(r) \/ Cancel(r) \/ SenderStep(r) PROVE LogInv'
  <2>1. handler' = handler /\ UNCHANGED database
    BY <1>8 DEF StartSend, Cancel, SenderStep, TakeClient, WaitCancelled, RegisterRequest, WriteRequest,
                AbandonRequest, ReceiveResult, JudgeAttempt, RetryPause
  <2>2. \A q \in Replies : sender'[q].mail \in {sender[q].mail, "none"}
    <3>1. ASSUME NEW pc, Step(r, pc)
          PROVE  \A q \in Replies : sender'[q].mail = sender[q].mail
      BY <1>0, <3>1 DEF Step, SenderRecord
    <3>2. CASE Cancel(r)
      BY <1>0, <3>2 DEF Cancel, SenderRecord
    <3>3. CASE TakeClient(r)
      BY <1>0, <3>3 DEF TakeClient, SenderRecord
    <3>4. CASE ReceiveResult(r)
      BY <3>1, <3>4 DEF ReceiveResult
    <3>5. CASE StartSend(r) \/ WaitCancelled(r) \/ RegisterRequest(r) \/ WriteRequest(r) \/ AbandonRequest(r)
      BY <3>1, <3>5 DEF StartSend, WaitCancelled, RegisterRequest, WriteRequest, AbandonRequest
    <3>6. CASE JudgeAttempt(r) \/ RetryPause(r)
      BY <3>1, <3>6 DEF JudgeAttempt, RetryPause
    <3> QED BY <1>8, <3>2, <3>3, <3>4, <3>5, <3>6 DEF SenderStep
  <2>3. \A c \in Connections : link'[c].down = link[c].down
    <3>1. CASE WriteRequest(r)
      BY <1>0, <3>1 DEF WriteRequest, LinkRecord
    <3>2. CASE link' = link
      BY <3>2
    <3> QED BY <1>8, <3>1, <3>2 DEF StartSend, Cancel, SenderStep, TakeClient, WaitCancelled, RegisterRequest,
                AbandonRequest, ReceiveResult, JudgeAttempt, RetryPause
  <2> QED BY <1>0, <2>1, <2>2, <2>3, FairyStepsLog
<1> QED BY <1>1, <1>2, <1>3, <1>4, <1>5, <1>6, <1>7, <1>8 DEF SessionStep, ReaderStep

\* Steps of a handler that neither insert nor announce.
LEMMA HandlerStepsLog ==
  ASSUME TypeInv, LogInv, UNCHANGED <<database, sender>>,
         \A c \in Connections :
            \/ handler'[c] = handler[c]
            \/ handler'[c].pc \notin {"respond", "broadcast"}
            \/ /\ handler'[c].pc = "respond" /\ handler'[c].duplicate
               /\ handler'[c].echo = handler[c].echo /\ copies[ReplyOf(c)] > 0
            \/ /\ handler[c].pc = "respond" /\ handler'[c].pc = "broadcast"
               /\ handler'[c].echo = handler[c].echo /\ ~handler[c].duplicate /\ ~handler'[c].duplicate,
         \A c \in Connections : link'[c].down \in Seq(TrueResponses)
  PROVE  LogInv'
<1>1. ASSUME NEW r \in Replies PROVE shown[r] + Cardinality(Announcers(r)') <= copies[r]
  <2>1. Announcers(r)' \subseteq Announcers(r)
    BY DEF Announcers, ReplyOf
  <2>2. Cardinality(Announcers(r)') <= Cardinality(Announcers(r))
    BY <2>1, AnnouncersFinite, FS_Subset
  <2>3. shown[r] + Cardinality(Announcers(r)) <= copies[r] /\ shown[r] \in Nat /\ copies[r] \in Nat
    BY DEF LogInv, AnnouncersInv, TypeInv, TypeOK
  <2> QED BY <2>2, <2>3, AnnouncersFinite
<1>2. AnnouncersInv'
  BY <1>1 DEF LogInv, AnnouncersInv, database
<1>3. TrueResponses' = TrueResponses
  BY DEF TrueResponses, database
<1>4. SuccessInv'
  BY <1>3 DEF LogInv, SuccessInv, database, ReplyOf
<1> QED BY <1>2, <1>4 DEF LogInv

\* INSERT of a new row: one more insertion, and one more handler to announce it.
LEMMA InsertLog ==
  ASSUME TypeInv, LogInv, NEW c \in Connections, InsertMessage(c), ReplyOf(c) \notin stored
  PROVE  LogInv'
<1> DEFINE r == ReplyOf(c)
<1>0. r \in Replies /\ copies \in [Replies -> Nat] /\ shown \in [Replies -> Nat] /\ stored \subseteq Replies
  BY DEF InsertMessage, TypeInv, TypeOK, ConnectionShape, ReplyOf, Echoes
<1>1. HandlerAt(c, "respond") /\ "respond" \in HandlerSteps
  BY DEF InsertMessage, HandlerSteps
<1>2. /\ handler'[c].pc = "respond" /\ handler'[c].echo = handler[c].echo /\ handler[c].pc = "insert"
      /\ \A d \in Connections \ {c} : handler'[d] = handler[d]
  BY <1>1, HandlerAtUpdated DEF InsertMessage
<1>3. /\ stored' = stored \cup {r} /\ copies' = [copies EXCEPT ![r] = copies[r] + 1]
      /\ UNCHANGED <<shown, link, sender>>
  BY DEF InsertMessage, fairy
<1>4. \A q \in Replies : copies'[q] \in Nat /\ copies'[q] >= copies[q] /\ (q # r => copies'[q] = copies[q])
  BY <1>0, <1>3
<1>5. copies'[r] = copies[r] + 1
  BY <1>0, <1>3
<1>6. ASSUME NEW q \in Replies PROVE shown'[q] + Cardinality(Announcers(q)') <= copies'[q]
  <2>0. /\ shown[q] + Cardinality(Announcers(q)) <= copies[q] /\ shown' = shown
        /\ shown[q] \in Nat /\ copies[q] \in Nat /\ copies'[q] \in Nat
    BY <1>0, <1>3, <1>4 DEF LogInv, AnnouncersInv
  <2>1. CASE q = r
    <3>1. Announcers(q)' \subseteq Announcers(q) \cup {c}
      BY <1>2 DEF Announcers, ReplyOf
    <3>2. /\ IsFiniteSet(Announcers(q) \cup {c})
          /\ Cardinality(Announcers(q) \cup {c}) <= Cardinality(Announcers(q)) + 1
      <4> DEFINE A == Announcers(q)
      <4>1. IsFiniteSet(A) /\ Cardinality(A) \in Nat
        BY AnnouncersFinite
      <4> HIDE DEF A
      <4>2. IsFiniteSet(A \cup {c}) /\ Cardinality(A \cup {c}) <= Cardinality(A) + 1
        <5>1. /\ IsFiniteSet(A \cup {c})
              /\ Cardinality(A \cup {c}) = IF c \in A THEN Cardinality(A) ELSE Cardinality(A) + 1
          BY <4>1, FS_AddElement, Zenon
        <5> QED BY <4>1, <5>1
      <4> QED BY <4>2 DEF A
    <3>3. Cardinality(Announcers(q)') <= Cardinality(Announcers(q) \cup {c})
      BY <3>1, <3>2, FS_Subset
    <3>4. Cardinality(Announcers(q) \cup {c}) \in Nat
      BY <3>2, FS_CardinalityType
    <3> QED BY <1>5, <2>0, <2>1, <3>2, <3>3, <3>4, AnnouncersFinite
  <2>2. CASE q # r
    <3>1. Announcers(q)' = Announcers(q)
      <4>1. \A d \in Connections \ {c} : d \in Announcers(q)' <=> d \in Announcers(q)
        BY <1>2 DEF Announcers, ReplyOf
      <4>2. c \notin Announcers(q) /\ c \notin Announcers(q)'
        BY <1>2, <2>2 DEF Announcers, ReplyOf
      <4>3. Announcers(q) \subseteq Connections /\ Announcers(q)' \subseteq Connections
        BY DEF Announcers
      <4> QED BY <4>1, <4>2, <4>3
    <3> QED BY <1>4, <2>0, <2>2, <3>1
  <2> QED BY <2>1, <2>2
<1>7. AnnouncersInv'
  BY <1>2, <1>6 DEF LogInv, AnnouncersInv
<1>8. TrueResponses \subseteq TrueResponses'
  BY <1>0, <1>4 DEF TrueResponses, Responses, Echoes
<1>9. \A d \in Connections : link'[d].down \in Seq(TrueResponses')
  BY <1>3, <1>8, SeqMonotone DEF LogInv, SuccessInv
<1>10. \A d \in Connections : handler'[d].pc = "respond" => copies'[ReplyOf(d)'] > 0
  <2>1. ASSUME NEW d \in Connections, handler'[d].pc = "respond", d # c PROVE copies'[ReplyOf(d)'] > 0
    <3>1. handler[d].pc = "respond" /\ ReplyOf(d)' = ReplyOf(d)
      BY <1>2, <2>1 DEF ReplyOf
    <3>2. ReplyOf(d) \in Replies /\ copies[ReplyOf(d)] > 0
      BY <3>1 DEF LogInv, SuccessInv, TypeInv, ConnectionShape, ReplyOf, Echoes
    <3> QED BY <1>0, <1>4, <3>1, <3>2
  <2>2. ReplyOf(c)' = r
    BY <1>2 DEF ReplyOf
  <2> QED BY <1>0, <1>5, <2>1, <2>2
<1>11. \A q \in stored' : copies'[q] > 0
  BY <1>0, <1>3, <1>4, <1>5 DEF LogInv, SuccessInv
<1>12. \A q \in Replies : sender'[q].mail = "ok" => copies'[q] > 0
  BY <1>0, <1>3, <1>4 DEF LogInv, SuccessInv
<1> QED BY <1>7, <1>9, <1>10, <1>11, <1>12 DEF LogInv, SuccessInv

\* The handler that announces a reply had one announcement to make.
LEMMA BroadcastLog ==
  ASSUME TypeInv, LogInv, NEW c \in Connections, BroadcastMessage(c)
  PROVE  /\ ReplyOf(c) \in Replies /\ shown[ReplyOf(c)] < copies[ReplyOf(c)]
         /\ LogInv'
<1> DEFINE r == ReplyOf(c)
<1>0. r \in Replies /\ copies \in [Replies -> Nat] /\ shown \in [Replies -> Nat]
  BY DEF BroadcastMessage, TypeInv, TypeOK, ConnectionShape, ReplyOf, Echoes
<1>1. c \in Announcers(r)
  BY DEF BroadcastMessage, LogInv, AnnouncersInv, Announcers
<1>2. /\ IsFiniteSet(Announcers(r) \ {c})
      /\ Cardinality(Announcers(r) \ {c}) = Cardinality(Announcers(r)) - 1
      /\ Cardinality(Announcers(r) \ {c}) \in Nat
  BY <1>1, AnnouncersFinite, FS_RemoveElement, FS_CardinalityType
<1>3. shown[r] + Cardinality(Announcers(r)) <= copies[r] /\ Cardinality(Announcers(r)) \in Nat
  BY <1>0, AnnouncersFinite DEF LogInv, AnnouncersInv
<1>4. shown[r] < copies[r]
  BY <1>0, <1>2, <1>3
<1>5. handler'[c].pc = "idle" /\ \A d \in Connections \ {c} : handler'[d] = handler[d]
  BY HandlerReturned DEF BroadcastMessage
<1>6. /\ shown' = [shown EXCEPT ![r] = shown[r] + 1]
      /\ UNCHANGED <<stored, copies, link, sender>>
  BY DEF BroadcastMessage, fairy
<1>7. ASSUME NEW q \in Replies PROVE shown'[q] + Cardinality(Announcers(q)') <= copies'[q]
  <2>0. shown[q] + Cardinality(Announcers(q)) <= copies[q] /\ shown[q] \in Nat /\ copies[q] \in Nat
    BY <1>0 DEF LogInv, AnnouncersInv
  <2>1. CASE q = r
    <3>1. Announcers(q)' \subseteq Announcers(q) \ {c}
      BY <1>5 DEF Announcers, ReplyOf
    <3>2. Cardinality(Announcers(q)') <= Cardinality(Announcers(q) \ {c})
      BY <1>2, <2>1, <3>1, FS_Subset
    <3>3. shown'[q] = shown[q] + 1
      BY <1>0, <1>6, <2>1
    <3> QED BY <1>2, <1>6, <2>0, <2>1, <3>2, <3>3, AnnouncersFinite
  <2>2. CASE q # r
    <3>1. Announcers(q)' = Announcers(q)
      BY <1>5, <2>2 DEF Announcers, ReplyOf
    <3>2. shown'[q] = shown[q]
      BY <1>0, <1>6, <2>2
    <3> QED BY <1>6, <2>0, <3>1, <3>2
  <2> QED BY <2>1, <2>2
<1>8. AnnouncersInv'
  BY <1>5, <1>7 DEF LogInv, AnnouncersInv
<1>9. TrueResponses' = TrueResponses
  BY <1>6 DEF TrueResponses
<1>10. SuccessInv'
  BY <1>5, <1>6, <1>9 DEF LogInv, SuccessInv, ReplyOf
<1> QED BY <1>0, <1>4, <1>8, <1>10 DEF LogInv

LEMMA ServerLog ==
  ASSUME TypeInv, LogInv,
         \/ \E c \in Connections : HandlerStep(c)
         \/ Crash \/ \E r \in Replies : DeleteMessage(r)
  PROVE  LogInv'
<1> USE DEF fairy
<1>0. /\ \A c \in Connections : link[c].down \in Seq(TrueResponses)
      /\ {"idle", "select", "load", "insert", "reselect", "respond", "broadcast"} \subseteq HandlerSteps
  BY DEF LogInv, SuccessInv, HandlerSteps
<1>1. ASSUME NEW c \in Connections, ReadRequest(c) PROVE LogInv'
  <2>1. link \in [Connections -> LinkRecord] /\ handler \in [Connections -> HandlerRecord]
    BY TableTypes DEF TypeInv, HandlerRecord
  <2>2. \A d \in Connections : link'[d].down = link[d].down
    BY <1>1, <2>1 DEF ReadRequest, LinkRecord
  <2>3. \A d \in Connections : handler'[d] = handler[d] \/ handler'[d].pc = "select"
    BY <1>1, <2>1 DEF ReadRequest
  <2> QED BY <1>0, <1>1, <2>2, <2>3, HandlerStepsLog DEF ReadRequest
<1>2. ASSUME NEW c \in Connections, RejectRequest(c) PROVE LogInv'
  <2>1. [echo |-> handler[c].echo, status |-> "error"] \in TrueResponses
    BY <1>2 DEF RejectRequest, TypeInv, ConnectionShape, TrueResponses, Responses
  <2>2. Append(link[c].down, [echo |-> handler[c].echo, status |-> "error"]) \in Seq(TrueResponses)
    BY <1>0, <2>1
  <2>3. \A d \in Connections : link'[d].down \in Seq(TrueResponses)
    BY <1>0, <1>2, <2>2, RespondType DEF RejectRequest
  <2>4. \A d \in Connections : handler'[d] = handler[d] \/ handler'[d].pc = "idle"
    BY <1>2, HandlerReturned DEF RejectRequest
  <2> QED BY <1>2, <2>3, <2>4, HandlerStepsLog DEF RejectRequest
<1>3. ASSUME NEW c \in Connections, SelectKey(c) \/ ReselectKey(c) \/ (InsertMessage(c) /\ ReplyOf(c) \in stored)
      PROVE  LogInv'
  <2>1. PICK pc \in {"load", "insert", "reselect"} : HandlerAt(c, pc)
    BY <1>3 DEF SelectKey, ReselectKey, InsertMessage
  <2>2. \A d \in Connections : handler'[d] = handler[d] \/ handler'[d].pc = pc
    BY <1>0, <1>3, <2>1, HandlerAtUpdated DEF SelectKey, ReselectKey, InsertMessage
  <2>3. UNCHANGED <<database, sender, link>>
    BY <1>3 DEF SelectKey, ReselectKey, InsertMessage, database
  <2> QED BY <1>0, <2>1, <2>2, <2>3, HandlerStepsLog
<1>4. ASSUME NEW c \in Connections, LoadMessage(c) PROVE LogInv'
  <2>1. handler \in [Connections -> HandlerRecord]
    BY TableTypes DEF TypeInv, HandlerRecord
  <2>2. /\ handler'[c].pc = "respond" /\ handler'[c].duplicate /\ handler'[c].echo = handler[c].echo
        /\ \A d \in Connections \ {c} : handler'[d] = handler[d]
    BY <1>4, <2>1 DEF LoadMessage, HandlerRecord
  <2>3. copies[ReplyOf(c)] > 0
    BY <1>4 DEF LoadMessage, LogInv, SuccessInv
  <2> QED BY <1>0, <1>4, <2>2, <2>3, HandlerStepsLog DEF LoadMessage
<1>5. ASSUME NEW c \in Connections, RespondStored(c) PROVE LogInv'
  <2>1. [echo |-> handler[c].echo, status |-> "ok"] \in TrueResponses
    BY <1>5 DEF RespondStored, TypeInv, ConnectionShape, TrueResponses, Responses, LogInv, SuccessInv, ReplyOf
  <2>2. Append(link[c].down, [echo |-> handler[c].echo, status |-> "ok"]) \in Seq(TrueResponses)
    BY <1>0, <2>1
  <2>3. \A d \in Connections : link'[d].down \in Seq(TrueResponses)
    BY <1>0, <1>5, <2>2, RespondType DEF RespondStored
  <2>4. CASE handler[c].duplicate
    <3>1. \A d \in Connections : handler'[d] = handler[d] \/ handler'[d].pc = "idle"
      BY <1>5, <2>4, HandlerReturned DEF RespondStored
    <3> QED BY <1>5, <2>3, <3>1, HandlerStepsLog DEF RespondStored
  <2>5. CASE ~handler[c].duplicate
    <3>1. HandlerAt(c, "broadcast")
      BY <1>5, <2>5 DEF RespondStored, HandlerAt
    <3>2. /\ handler'[c].pc = "broadcast" /\ handler'[c].echo = handler[c].echo
          /\ handler'[c].duplicate = handler[c].duplicate
          /\ \A d \in Connections \ {c} : handler'[d] = handler[d]
      BY <1>0, <1>5, <3>1, HandlerAtUpdated DEF RespondStored
    <3> QED BY <1>5, <2>3, <2>5, <3>2, HandlerStepsLog DEF RespondStored
  <2> QED BY <2>4, <2>5
<1>6. ASSUME ServerStops, UNCHANGED <<database, sender>> PROVE LogInv'
  <2>1. \A c \in Connections : handler'[c].pc = "idle"
    BY <1>6, ServerStopsType DEF TypeInv, IdleHandler
  <2>2. \A c \in Connections : link'[c].down \in Seq(TrueResponses)
    BY <1>0, <1>6, ServerStopsType, PrefixType DEF TypeInv
  <2> QED BY <1>6, <2>1, <2>2, HandlerStepsLog
<1>7. ASSUME NEW r \in Replies, DeleteMessage(r) PROVE LogInv'
  <2>1. \A q \in Replies : Announcers(q)' = Announcers(q)
    BY <1>7 DEF DeleteMessage, Announcers, ReplyOf
  <2>2. TrueResponses' = TrueResponses
    BY <1>7 DEF DeleteMessage, TrueResponses
  <2>3. AnnouncersInv'
    BY <1>7, <2>1 DEF DeleteMessage, LogInv, AnnouncersInv
  <2>4. SuccessInv'
    BY <1>7, <2>2 DEF DeleteMessage, LogInv, SuccessInv, ReplyOf
  <2> QED BY <2>3, <2>4 DEF LogInv
<1> QED BY <1>1, <1>2, <1>3, <1>4, <1>5, <1>6, <1>7, InsertLog, BroadcastLog
    DEF HandlerStep, Crash, NilMessage

\* A step that inserts, announces, deletes and reports nothing is a stutter of
\* the log.
LEMMA NothingHappens ==
  ASSUME UNCHANGED database,
         \A r \in Replies : \/ sender'[r].pc = sender[r].pc
                            \/ sender[r].pc \notin Outcomes /\ sender'[r].pc \notin Outcomes
  PROVE  UNCHANGED Promise!vars
  BY DEF database, Promise!vars

\* A sender that ends its send reports its outcome, delivered only for a reply
\* that was stored.
LEMMA SenderReports ==
  ASSUME TypeInv, NEW r \in Replies, NEW o \in Outcomes, Step(r, o), sender[r].pc \notin Outcomes,
         UNCHANGED database, o = "delivered" => copies[r] > 0
  PROVE  Promise!Next
<1>1. o \in SenderSteps /\ TypeOK
  BY DEF SenderSteps, TypeInv
<1>2. sender'[r].pc = o /\ \A q \in Replies \ {r} : sender'[q] = sender[q]
  BY <1>1, SenderStepType
<1> DEFINE told == [q \in Replies |-> IF sender[q].pc \in Outcomes THEN sender[q].pc ELSE "pending"]
<1>3. told[r] = "pending" /\ told' = [told EXCEPT ![r] = o]
  <2>1. \A q \in Replies : told'[q] = [told EXCEPT ![r] = o][q]
    BY <1>2
  <2> QED BY <2>1
<1>4. Promise!Report(r, o)
  BY <1>3 DEF Promise!Report, database
<1> QED BY <1>4 DEF Promise!Next, Outcomes

\* Every step of the protocol is a step of the log, or none.
LEMMA LogStep ==
  ASSUME TypeInv, LogInv, [Next]_vars
  PROVE  [Promise!Next]_(Promise!vars)
<1> USE DEF fairy
<1>0. sender \in [Replies -> SenderRecord]
  BY TableTypes DEF TypeInv
<1>1. CASE UNCHANGED <<database, sender>>
  BY <1>1, NothingHappens
<1>2. ASSUME NEW c \in Connections, ReadResponse(c) PROVE UNCHANGED Promise!vars
  <2>1. Head(link[c].down) \in Responses
    BY <1>2 DEF ReadResponse, TypeInv, TypeOK
  <2>2. Head(link[c].down).echo.reply \in Replies
    BY <2>1 DEF Responses, Echoes
  <2>3. \A r \in Replies : sender'[r].pc = sender[r].pc
    BY <1>0, <1>2, <2>2 DEF ReadResponse, SenderRecord
  <2> QED BY <1>2, <2>3, NothingHappens DEF ReadResponse
<1>3. ASSUME NEW c \in Connections, FailPending(c) PROVE UNCHANGED Promise!vars
  <2>1. \A r \in Replies : sender'[r].pc = sender[r].pc
    BY <1>0, <1>3 DEF FailPending, SenderRecord
  <2> QED BY <1>3, <2>1, NothingHappens DEF FailPending
<1>4. ASSUME NEW r \in Replies, Cancel(r) PROVE UNCHANGED Promise!vars
  <2>1. \A q \in Replies : sender'[q].pc = sender[q].pc
    BY <1>0, <1>4 DEF Cancel, SenderRecord
  <2> QED BY <1>4, <2>1, NothingHappens DEF Cancel
<1>5. ASSUME NEW r \in Replies, TakeClient(r) PROVE UNCHANGED Promise!vars
  <2>1. /\ \A q \in Replies \ {r} : sender'[q] = sender[q]
        /\ sender[r].pc = "wait" /\ sender'[r].pc = "register"
    BY <1>0, <1>5 DEF TakeClient, SenderRecord
  <2> QED BY <1>5, <2>1, NothingHappens DEF TakeClient, Outcomes
<1>6. ASSUME NEW r \in Replies, NEW pc \in {"wait", "write", "await", "judge", "pause"}, Step(r, pc),
             sender[r].pc \notin Outcomes, UNCHANGED database
      PROVE  UNCHANGED Promise!vars
  <2>1. pc \in SenderSteps /\ pc \notin Outcomes /\ TypeOK
    BY DEF SenderSteps, Outcomes, TypeInv
  <2>2. sender'[r].pc = pc /\ \A q \in Replies \ {r} : sender'[q] = sender[q]
    BY <1>6, <2>1, SenderStepType
  <2> QED BY <1>6, <2>1, <2>2, NothingHappens
<1>7. ASSUME NEW r \in Replies, StartSend(r) \/ RegisterRequest(r) \/ WriteRequest(r) \/ AbandonRequest(r)
      PROVE  UNCHANGED Promise!vars
  <2>1. sender[r].pc \notin Outcomes /\ UNCHANGED database
    BY <1>7 DEF StartSend, RegisterRequest, WriteRequest, AbandonRequest, Outcomes
  <2>2. \E pc \in {"wait", "write", "await", "judge", "pause"} : Step(r, pc)
    BY <1>7 DEF StartSend, RegisterRequest, WriteRequest, AbandonRequest
  <2> QED BY <1>6, <2>1, <2>2
<1>8. ASSUME NEW r \in Replies, WaitCancelled(r) \/ JudgeAttempt(r) \/ RetryPause(r)
      PROVE  Promise!Next \/ UNCHANGED Promise!vars
  <2>1. sender[r].pc \notin Outcomes /\ UNCHANGED database
    BY <1>8 DEF WaitCancelled, JudgeAttempt, RetryPause, Outcomes
  <2>2. \/ \E pc \in {"wait", "write", "await", "judge", "pause"} : Step(r, pc)
        \/ Step(r, "failed") \/ Step(r, "unknown")
    BY <1>8 DEF WaitCancelled, JudgeAttempt, RetryPause
  <2>3. "failed" \in Outcomes /\ "unknown" \in Outcomes
    BY DEF Outcomes
  <2> QED BY <1>6, <2>1, <2>2, <2>3, SenderReports
<1>9. ASSUME NEW r \in Replies, ReceiveResult(r) PROVE Promise!Next \/ UNCHANGED Promise!vars
  <2>1. sender[r].pc \notin Outcomes /\ UNCHANGED database
    BY <1>9 DEF ReceiveResult, Outcomes
  <2>2. sender[r].mail \in {"ok", "error", "closed"} /\ (sender[r].mail = "ok" => copies[r] > 0)
    BY <1>0, <1>9 DEF ReceiveResult, SenderRecord, Mail, LogInv, SuccessInv
  <2>3. \/ sender[r].mail = "ok" /\ Step(r, "delivered")
        \/ Step(r, "failed") \/ Step(r, "judge")
    BY <1>9, <2>2 DEF ReceiveResult
  <2>4. "failed" \in Outcomes /\ "delivered" \in Outcomes
    BY DEF Outcomes
  <2> QED BY <1>6, <2>1, <2>2, <2>3, <2>4, SenderReports
<1>10. ASSUME NEW c \in Connections, InsertMessage(c) PROVE Promise!Next \/ UNCHANGED Promise!vars
  <2>1. ReplyOf(c) \in Replies
    BY <1>10 DEF InsertMessage, TypeInv, ConnectionShape, ReplyOf, Echoes
  <2>2. CASE ReplyOf(c) \in stored
    BY <1>10, <2>2, NothingHappens DEF InsertMessage, database
  <2>3. CASE ReplyOf(c) \notin stored
    <3>1. Promise!Store(ReplyOf(c))
      BY <1>10, <2>3 DEF InsertMessage, Promise!Store
    <3> QED BY <2>1, <3>1 DEF Promise!Next
  <2> QED BY <2>2, <2>3
<1>11. ASSUME NEW c \in Connections, BroadcastMessage(c) PROVE Promise!Next
  <2>1. ReplyOf(c) \in Replies /\ shown[ReplyOf(c)] < copies[ReplyOf(c)]
    BY <1>11, BroadcastLog
  <2>2. Promise!Announce(ReplyOf(c))
    BY <1>11, <2>1 DEF BroadcastMessage, Promise!Announce
  <2> QED BY <2>1, <2>2 DEF Promise!Next
<1>12. ASSUME NEW r \in Replies, DeleteMessage(r) PROVE Promise!Next
  <2>1. Promise!Delete(r)
    BY <1>12 DEF DeleteMessage, Promise!Delete
  <2> QED BY <2>1 DEF Promise!Next
<1> QED
  BY <1>1, <1>2, <1>3, <1>4, <1>5, <1>7, <1>8, <1>9, <1>10, <1>11, <1>12
  DEF Next, SessionStep, ReaderStep, SenderStep, HandlerStep, Connect, EndSession, CloseClient, SessionOver,
      Disconnect, ReadFails, Crash, ReadRequest, RejectRequest, SelectKey, LoadMessage, ReselectKey,
      RespondStored, NilMessage, vars, database

\* The refinement: whatever retries, reconnects, late handlers, crashes and
\* deletions do, a reply is stored only while no copy of it is, announced at
\* most once for each insertion, and reported delivered only if it was stored.
THEOREM ImplementsOnceOnlyLog == Spec => OnceOnly
<1>1. Init => LogInv
  <2>1. ASSUME Init, NEW r \in Replies PROVE Cardinality(Announcers(r)) = 0
    <3>1. Announcers(r) = {}
      BY <2>1 DEF Init, Announcers, IdleHandler
    <3> QED BY <3>1, FS_EmptySet
  <2>2. Init => AnnouncersInv
    BY <2>1 DEF Init, AnnouncersInv, IdleHandler
  <2>3. Init => SuccessInv
    <3>1. <<>> \in Seq(TrueResponses)
      OBVIOUS
    <3>2. ASSUME Init, NEW c \in Connections PROVE link[c].down = <<>> /\ handler[c].pc = "idle"
      BY <3>2 DEF Init, IdleHandler
    <3>3. ASSUME Init, NEW r \in Replies PROVE sender[r].mail = "none"
      BY <3>3 DEF Init
    <3>4. Init => stored = {}
      BY DEF Init
    <3> QED BY <3>1, <3>2, <3>3, <3>4 DEF SuccessInv
  <2> QED BY <2>2, <2>3 DEF LogInv
<1>2. TypeInv /\ LogInv /\ [Next]_vars => LogInv'
  <2>1. ASSUME LogInv, UNCHANGED vars PROVE LogInv'
    <3>1. \A r \in Replies : Announcers(r)' = Announcers(r)
      BY <2>1 DEF vars, Announcers, ReplyOf
    <3>2. TrueResponses' = TrueResponses
      BY <2>1 DEF vars, TrueResponses
    <3> QED BY <2>1, <3>1, <3>2 DEF vars, LogInv, AnnouncersInv, SuccessInv, ReplyOf
  <2> QED BY <2>1, FairyLog, ServerLog DEF Next
<1>3. Init => Promise!Init
  BY DEF Init, Promise!Init, Outcomes
<1>4. TypeInv /\ LogInv /\ [Next]_vars => [Promise!Next]_(Promise!vars)
  BY LogStep
<1> QED BY <1>1, <1>2, <1>3, <1>4, TypeCorrect, PTL DEF Spec, OnceOnly, Promise!Spec
-----------------------------------------------------------------------------
(* The session of Fairy: its types, and where the events are *)

EventPlaces(s) == {i \in DOMAIN s : s[i] = "event"}
EventsIn(s) == Cardinality(EventPlaces(s))
OneIfEvent(f) == IF f = "event" THEN 1 ELSE 0

SessionShape ==
    /\ sessionAt \in Requesting \cup {"loop", "closing", "ended"}
    /\ request \in {"idle", "write", "wait"} \cup RequestOutcomes
    /\ reading \in {"read", "offer", "gone"} /\ offered \in {NoFrame, "event", "late"}
    /\ reading = "offer" => offered # NoFrame
    /\ closed \in BOOLEAN /\ linkUp \in BOOLEAN /\ runOver \in BOOLEAN
    /\ owed \in [present : BOOLEAN, earlier : Nat]

FramesTyped ==
    /\ eventQueue \in Seq({"event", "late"}) /\ Len(eventQueue) <= EventLimit
    /\ wire \in Seq({"response", "late", "event"})
    /\ pushed \in 0..PushLimit /\ dispatched \in Nat /\ ticked \in 0..TickLimit

\* readLoop and DispatchEvent: an event that was pushed is on the wire, in the
\* hands of readLoop, in the channel or dispatched, and never in two places.
EventsAreAccounted ==
    dispatched + EventsIn(eventQueue) + OneIfEvent(offered) + EventsIn(wire) <= pushed

SessionInv == SessionShape /\ FramesTyped /\ EventsAreAccounted

\* The number of events in a sequence of frames is a number.
LEMMA EventsInType ==
  ASSUME NEW S, NEW s \in Seq(S)
  PROVE  IsFiniteSet(EventPlaces(s)) /\ EventsIn(s) \in Nat
<1>1. DOMAIN s = 1 .. Len(s) /\ Len(s) \in Nat
  OBVIOUS
<1>2. IsFiniteSet(DOMAIN s)
  BY <1>1, FS_Interval
<1>3. EventPlaces(s) \in SUBSET (DOMAIN s)
  BY DEF EventPlaces
<1>4. IsFiniteSet(EventPlaces(s))
  BY <1>2, <1>3, FS_Subset
<1> QED BY <1>4, FS_CardinalityType DEF EventsIn

\* A frame put behind the others counts if it is an event.
LEMMA EventsInAppend ==
  ASSUME NEW S, NEW s \in Seq(S), NEW f \in S
  PROVE  EventsIn(Append(s, f)) = EventsIn(s) + OneIfEvent(f)
<1>1. Len(s) \in Nat /\ DOMAIN s = 1 .. Len(s)
  OBVIOUS
<1>2. PICK t : t = Append(s, f)
  OBVIOUS
<1>3. /\ DOMAIN t = 1 .. Len(s) + 1 /\ t[Len(s) + 1] = f
      /\ \A i \in 1 .. Len(s) : t[i] = s[i]
  BY <1>1, <1>2
<1>4. Len(s) + 1 \notin EventPlaces(s)
  BY <1>1 DEF EventPlaces
<1>5. IsFiniteSet(EventPlaces(s)) /\ EventsIn(s) \in Nat
  BY EventsInType
<1>6. CASE f = "event"
  <2>1. EventPlaces(t) = EventPlaces(s) \cup {Len(s) + 1}
    BY <1>1, <1>3, <1>6 DEF EventPlaces
  <2>2. Cardinality(EventPlaces(t)) = Cardinality(EventPlaces(s)) + 1
    BY <2>1, <1>4, <1>5, FS_AddElement
  <2> QED BY <2>2, <1>2, <1>6 DEF EventsIn, OneIfEvent
<1>7. CASE f # "event"
  <2>1. EventPlaces(t) = EventPlaces(s)
    BY <1>1, <1>3, <1>7 DEF EventPlaces
  <2> QED BY <2>1, <1>2, <1>5, <1>7 DEF EventsIn, OneIfEvent
<1> QED BY <1>6, <1>7

\* A frame taken from the front no longer counts.
LEMMA EventsInTail ==
  ASSUME NEW S, NEW s \in Seq(S), s # <<>>
  PROVE  EventsIn(s) = EventsIn(Tail(s)) + OneIfEvent(Head(s))
<1>1. Len(s) \in Nat \ {0} /\ DOMAIN s = 1 .. Len(s)
  OBVIOUS
<1>2. PICK t : t = Tail(s)
  OBVIOUS
<1>3. /\ t \in Seq(S) /\ DOMAIN t = 1 .. Len(s) - 1 /\ \A i \in 1 .. Len(s) - 1 : t[i] = s[i + 1]
  BY <1>1, <1>2
<1>4. PICK rest : rest = EventPlaces(s) \ {1}
  OBVIOUS
<1>5. IsFiniteSet(EventPlaces(s)) /\ EventsIn(s) \in Nat /\ IsFiniteSet(EventPlaces(t)) /\ EventsIn(t) \in Nat
  BY <1>3, EventsInType
<1>6. PICK g : g = [i \in EventPlaces(t) |-> i + 1]
  OBVIOUS
<1>7. g \in Bijection(EventPlaces(t), rest)
  <2>1. \A i \in EventPlaces(t) : i \in Nat /\ i + 1 \in rest
    BY <1>1, <1>3, <1>4 DEF EventPlaces
  <2>2. \A j \in rest : j - 1 \in EventPlaces(t) /\ j = (j - 1) + 1
    BY <1>1, <1>3, <1>4 DEF EventPlaces
  <2>3. g \in [EventPlaces(t) -> rest]
    BY <1>6, <2>1
  <2>4. \A a, b \in EventPlaces(t) : g[a] = g[b] => a = b
    BY <1>6, <2>1
  <2>5. \A j \in rest : \E i \in EventPlaces(t) : g[i] = j
    BY <1>6, <2>2
  <2> QED BY <2>3, <2>4, <2>5, Fun_IsBij
<1>8. ExistsBijection(EventPlaces(t), rest)
  BY <1>7 DEF ExistsBijection
<1>9. Cardinality(rest) = EventsIn(t)
  BY <1>5, <1>8, FS_Bijection DEF EventsIn
<1>10. Cardinality(rest) = IF 1 \in EventPlaces(s) THEN EventsIn(s) - 1 ELSE EventsIn(s)
  BY <1>4, <1>5, FS_RemoveElement DEF EventsIn
<1>11. 1 \in EventPlaces(s) <=> Head(s) = "event"
  BY <1>1 DEF EventPlaces
<1> QED BY <1>2, <1>5, <1>9, <1>10, <1>11 DEF OneIfEvent

\* authenticate and the session loop: a request that returns leads to one of
\* the places runSession has, and takes no event from the wire.
LEMMA RequestReturnsKeeps ==
  ASSUME SessionShape, FramesTyped, NEW outcome, RequestReturns(outcome)
  PROVE  /\ request' = "idle" /\ sessionAt' \in Requesting \cup {"loop", "closing", "ended"}
         /\ owed' \in [present : BOOLEAN, earlier : Nat]
         /\ wire' \in Seq({"response", "late", "event"}) /\ EventsIn(wire') = EventsIn(wire)
<1>1. SessionAfter(outcome) \subseteq Requesting \cup {"loop", "closing", "ended"}
  BY DEF SessionAfter, Requesting
<1>2. owed' \in [present : BOOLEAN, earlier : Nat]
  <2>1. owed.earlier \in Nat /\ (IF owed.present THEN 1 ELSE 0) \in Nat
    BY DEF SessionShape
  <2>2. owed.earlier + (IF owed.present THEN 1 ELSE 0) \in Nat
    BY <2>1
  <2> QED BY <2>2 DEF RequestReturns
<1>3. wire' \in Seq({"response", "late", "event"}) /\ DOMAIN wire' = DOMAIN wire
  BY SMTT(30) DEF RequestReturns, FramesTyped
<1>4. \A i \in DOMAIN wire : wire'[i] = "event" <=> wire[i] = "event"
  BY DEF RequestReturns
<1>5. EventPlaces(wire') = EventPlaces(wire)
  BY <1>3, <1>4 DEF EventPlaces
<1>6. EventsIn(wire') = EventsIn(wire)
  BY <1>5 DEF EventsIn
<1>7. request' = "idle" /\ sessionAt' \in SessionAfter(outcome)
  BY DEF RequestReturns
<1> QED BY <1>1, <1>2, <1>3, <1>6, <1>7

\* The steps that leave every frame where it is.
FramesStay == UNCHANGED <<eventQueue, offered, pushed, dispatched>> /\ wire' \in Seq({"response", "late", "event"})
              /\ EventsIn(wire') = EventsIn(wire) /\ ticked' \in 0 .. TickLimit

LEMMA FramesStayAccounted ==
  ASSUME FramesTyped, EventsAreAccounted, FramesStay
  PROVE  FramesTyped' /\ EventsAreAccounted'
  BY DEF FramesTyped, EventsAreAccounted, FramesStay

\* The steps in which runSession waits for, begins or ends a request.
LEMMA RequestStep ==
  ASSUME SessionShape, FramesTyped, BeginRequest \/ WriteSessionRequest \/ TakeOutcome \/ RequestExpires
  PROVE  SessionShape' /\ FramesStay
<1>0. UNCHANGED <<readerSide, eventQueue, linkUp, pushed, counters, runOver>>
  BY DEF BeginRequest, WriteSessionRequest, TakeOutcome, RequestExpires
<1>1. CASE \E outcome \in {"failed"} \cup RequestOutcomes : RequestReturns(outcome)
  <2>1. PICK outcome \in {"failed"} \cup RequestOutcomes : RequestReturns(outcome)
    BY <1>1
  <2>2. /\ request' = "idle" /\ sessionAt' \in Requesting \cup {"loop", "closing", "ended"}
        /\ owed' \in [present : BOOLEAN, earlier : Nat]
        /\ wire' \in Seq({"response", "late", "event"}) /\ EventsIn(wire') = EventsIn(wire)
    BY <2>1, RequestReturnsKeeps
  <2> QED BY <1>0, <2>2 DEF SessionShape, FramesStay, FramesTyped, readerSide, counters
<1>2. CASE request' = "write" /\ UNCHANGED <<sessionAt, wire, owed>>
  BY <1>0, <1>2 DEF SessionShape, FramesStay, FramesTyped, readerSide, counters
<1>3. CASE request' = "wait" /\ owed' = [owed EXCEPT !.present = linkUp] /\ UNCHANGED <<sessionAt, wire>>
  <2>1. owed' \in [present : BOOLEAN, earlier : Nat]
    BY <1>3 DEF SessionShape
  <2> QED BY <1>0, <1>3, <2>1 DEF SessionShape, FramesStay, FramesTyped, readerSide, counters
<1> QED BY <1>1, <1>2, <1>3 DEF BeginRequest, WriteSessionRequest, TakeOutcome, RequestExpires

\* The other steps that move no event.
LEMMA QuietStep ==
  ASSUME SessionShape, FramesTyped, ReadError \/ Tick \/ LeaveLoop \/ CloseSession \/ LoseLink \/ EndRun
  PROVE  SessionShape' /\ FramesStay
<1>1. ASSUME Finish PROVE closed' = TRUE /\ request' \in {"idle", "write", "wait"} \cup RequestOutcomes
  BY <1>1 DEF Finish, SessionShape, RequestOutcomes
<1>2. Nothing \in [present : BOOLEAN, earlier : Nat]
  BY DEF Nothing
<1>3. TickLimit \in Nat
  BY SessionAssumption
<1>4. CASE ReadError
  BY <1>1, <1>4 DEF ReadError, SessionShape, FramesStay, FramesTyped, network, counters
<1>5. CASE Tick
  BY <1>3, <1>5 DEF Tick, SessionShape, FramesStay, FramesTyped, network, readerSide, Requesting
<1>6. CASE LeaveLoop
  BY <1>6 DEF LeaveLoop, SessionShape, FramesStay, FramesTyped, network, counters, readerSide
<1>7. CASE CloseSession
  BY <1>1, <1>2, <1>7 DEF CloseSession, SessionShape, FramesStay, FramesTyped, counters
<1>8. CASE LoseLink
  BY <1>2, <1>8 DEF LoseLink, SessionShape, FramesStay, FramesTyped, counters, readerSide
<1>9. CASE EndRun
  BY <1>9 DEF EndRun, SessionShape, FramesStay, FramesTyped, network, counters, readerSide
<1> QED BY <1>4, <1>5, <1>6, <1>7, <1>8, <1>9

LEMMA CountsAreNumbers ==
  ASSUME FramesTyped
  PROVE  /\ EventsIn(eventQueue) \in Nat /\ EventsIn(wire) \in Nat /\ OneIfEvent(offered) \in Nat
         /\ dispatched \in Nat /\ pushed \in Nat /\ PushLimit \in Nat
<1>1. EventsIn(eventQueue) \in Nat /\ EventsIn(wire) \in Nat
  BY EventsInType DEF FramesTyped
<1>2. dispatched \in Nat /\ pushed \in Nat /\ PushLimit \in Nat
  BY SessionAssumption DEF FramesTyped
<1> QED BY <1>1, <1>2 DEF OneIfEvent

\* readLoop takes a frame from the wire.
LEMMA TakeFrameStep ==
  ASSUME SessionInv, TakeFrame
  PROVE  SessionInv'
<1>1. /\ wire # <<>> /\ wire' = Tail(wire) /\ reading = "read"
      /\ UNCHANGED <<sessionAt, eventQueue, closed, owed, linkUp, pushed, dispatched, ticked, runOver>>
  BY DEF TakeFrame, counters
<1>2. /\ wire' \in Seq({"response", "late", "event"}) /\ Head(wire) \in {"response", "late", "event"}
      /\ EventsIn(wire) = EventsIn(wire') + OneIfEvent(Head(wire))
  BY <1>1, EventsInTail DEF SessionInv, FramesTyped
<1>3. /\ request' \in {"idle", "write", "wait"} \cup RequestOutcomes
      /\ reading' \in {"read", "offer", "gone"} /\ offered' \in {NoFrame, "event", "late"}
      /\ reading' = "offer" => offered' # NoFrame
  BY <1>1, <1>2 DEF TakeFrame, SessionInv, SessionShape, NoFrame
<1>4. OneIfEvent(offered') <= OneIfEvent(offered) + OneIfEvent(Head(wire)) /\ OneIfEvent(offered') \in Nat
  <2>1. OneIfEvent(offered) \in Nat /\ OneIfEvent(Head(wire)) \in Nat
    BY DEF OneIfEvent
  <2>2. offered' = offered \/ offered' = Head(wire)
    BY DEF TakeFrame
  <2> QED BY <2>1, <2>2
<1>5. SessionShape'
  BY <1>1, <1>3 DEF SessionInv, SessionShape
<1>6. FramesTyped'
  BY <1>1, <1>2 DEF SessionInv, FramesTyped
<1>7. EventsIn(wire') \in Nat
  BY <1>6, EventsInType DEF FramesTyped
<1>8. EventsAreAccounted'
  <2>1. EventsIn(eventQueue)' = EventsIn(eventQueue) /\ EventsIn(wire)' = EventsIn(wire')
    BY <1>1 DEF EventsIn, EventPlaces
  <2>2. OneIfEvent(Head(wire)) \in Nat
    BY DEF OneIfEvent
  <2> QED BY <1>1, <1>2, <1>4, <1>7, <2>1, <2>2, CountsAreNumbers, SMTT(30) DEF SessionInv, EventsAreAccounted
<1> QED BY <1>5, <1>6, <1>8 DEF SessionInv

\* readLoop puts the frame into the channel, or drops it when the client is
\* closed.
LEMMA OfferEventStep ==
  ASSUME SessionInv, OfferEvent
  PROVE  SessionInv'
<1>1. /\ reading = "offer" /\ offered' = NoFrame /\ reading' \in {"read", "gone"}
      /\ UNCHANGED <<sessionAt, request, closed, wire, owed, linkUp, pushed, dispatched, ticked, runOver>>
  BY DEF OfferEvent, network, counters
<1>2. offered \in {"event", "late"}
  BY <1>1 DEF SessionInv, SessionShape
<1>3. /\ eventQueue' \in Seq({"event", "late"}) /\ Len(eventQueue') <= EventLimit
      /\ EventsIn(eventQueue') <= EventsIn(eventQueue) + OneIfEvent(offered)
  <2>1. CASE Len(eventQueue) < EventLimit /\ eventQueue' = Append(eventQueue, offered)
    <3>1. EventsIn(eventQueue') = EventsIn(eventQueue) + OneIfEvent(offered)
      BY <1>2, <2>1, EventsInAppend DEF SessionInv, FramesTyped
    <3>2. eventQueue' \in Seq({"event", "late"}) /\ Len(eventQueue') <= EventLimit
      BY <1>2, <2>1, SessionAssumption DEF SessionInv, FramesTyped
    <3>3. EventsIn(eventQueue) \in Nat /\ OneIfEvent(offered) \in Nat
      BY CountsAreNumbers DEF SessionInv
    <3> QED BY <3>1, <3>2, <3>3
  <2>2. CASE UNCHANGED eventQueue
    <3>1. EventsIn(eventQueue) \in Nat /\ OneIfEvent(offered) \in Nat
      BY CountsAreNumbers DEF SessionInv
    <3> QED BY <2>2, <3>1 DEF SessionInv, FramesTyped
  <2> QED BY <2>1, <2>2 DEF OfferEvent
<1>4. SessionShape'
  BY <1>1 DEF SessionInv, SessionShape
<1>5. FramesTyped'
  BY <1>1, <1>3 DEF SessionInv, FramesTyped
<1>6. EventsIn(eventQueue') \in Nat /\ OneIfEvent(offered') = 0
  BY <1>1, <1>3, EventsInType DEF OneIfEvent, NoFrame
<1>7. EventsAreAccounted'
  <2>1. EventsIn(wire)' = EventsIn(wire) /\ EventsIn(eventQueue)' = EventsIn(eventQueue')
    BY <1>1 DEF EventsIn, EventPlaces
  <2> QED BY <1>1, <1>3, <1>6, <2>1, CountsAreNumbers DEF SessionInv, EventsAreAccounted
<1> QED BY <1>4, <1>5, <1>7 DEF SessionInv

\* The session loop takes an event from the channel.
LEMMA DispatchEventStep ==
  ASSUME SessionInv, DispatchEvent
  PROVE  SessionInv'
<1>1. /\ eventQueue # <<>> /\ eventQueue' = Tail(eventQueue)
      /\ dispatched' = dispatched + OneIfEvent(Head(eventQueue))
      /\ UNCHANGED <<sessionAt, request, reading, offered, closed, wire, owed, linkUp, pushed, ticked, runOver>>
  BY DEF DispatchEvent, network, readerSide, OneIfEvent
<1>2. /\ eventQueue' \in Seq({"event", "late"}) /\ Len(eventQueue') <= EventLimit
      /\ EventsIn(eventQueue) = EventsIn(eventQueue') + OneIfEvent(Head(eventQueue))
  <2>1. EventsIn(eventQueue) = EventsIn(eventQueue') + OneIfEvent(Head(eventQueue))
    BY <1>1, EventsInTail DEF SessionInv, FramesTyped
  <2>2. eventQueue' \in Seq({"event", "late"}) /\ Len(eventQueue') <= EventLimit
    BY <1>1, SessionAssumption DEF SessionInv, FramesTyped
  <2> QED BY <2>1, <2>2
<1>3. SessionShape'
  BY <1>1 DEF SessionInv, SessionShape
<1>4. OneIfEvent(Head(eventQueue)) \in Nat
  BY DEF OneIfEvent
<1>5. FramesTyped'
  BY <1>1, <1>2, <1>4 DEF SessionInv, FramesTyped
<1>6. EventsIn(eventQueue') \in Nat
  BY <1>2, EventsInType
<1>7. EventsAreAccounted'
  <2>1. EventsIn(wire)' = EventsIn(wire) /\ EventsIn(eventQueue)' = EventsIn(eventQueue')
    BY <1>1 DEF EventsIn, EventPlaces
  <2> QED BY <1>1, <1>2, <1>4, <1>6, <2>1, CountsAreNumbers DEF SessionInv, EventsAreAccounted
<1> QED BY <1>3, <1>5, <1>7 DEF SessionInv

\* The server answers, or pushes an event.
LEMMA ServerStep ==
  ASSUME SessionInv, ServerResponds \/ PushEvent
  PROVE  SessionInv'
<1>1. UNCHANGED <<sessionAt, request, reading, offered, closed, eventQueue, linkUp, dispatched, ticked, runOver>>
  BY DEF ServerResponds, PushEvent, readerSide, counters
<1>2. /\ owed' \in [present : BOOLEAN, earlier : Nat]
      /\ \E f \in {"response", "late", "event"} :
            wire' = Append(wire, f) /\ pushed' = pushed + OneIfEvent(f) /\ pushed' \in 0 .. PushLimit
  <2>0. pushed \in 0 .. PushLimit /\ PushLimit \in Nat /\ owed \in [present : BOOLEAN, earlier : Nat]
    BY SessionAssumption DEF SessionInv, FramesTyped, SessionShape
  <2>1. CASE ServerResponds
    <3>1. owed' \in [present : BOOLEAN, earlier : Nat]
      <4>0. owed.present \in BOOLEAN /\ owed.earlier \in Nat
        BY <2>0
      <4>1. CASE owed' = [owed EXCEPT !.present = FALSE]
        BY <2>0, <4>1
      <4>2. CASE owed.earlier > 0 /\ owed' = [owed EXCEPT !.earlier = @ - 1]
        <5>1. owed.earlier - 1 \in Nat
          BY <4>0, <4>2
        <5> QED BY <2>0, <4>2, <5>1
      <4> QED BY <2>1, <4>1, <4>2 DEF ServerResponds
    <3>2. pushed' = pushed /\ (wire' = Append(wire, "response") \/ wire' = Append(wire, "late"))
      BY <2>1 DEF ServerResponds
    <3>3. pushed + OneIfEvent("response") = pushed /\ pushed + OneIfEvent("late") = pushed
      BY <2>0 DEF OneIfEvent
    <3> QED BY <2>0, <3>1, <3>2, <3>3
  <2>2. CASE PushEvent
    <3>1. wire' = Append(wire, "event") /\ pushed' = pushed + 1 /\ pushed < PushLimit /\ owed' = owed
      BY <2>2 DEF PushEvent
    <3>2. pushed' = pushed + OneIfEvent("event") /\ pushed' \in 0 .. PushLimit
      BY <2>0, <3>1 DEF OneIfEvent
    <3> QED BY <2>0, <3>1, <3>2
  <2> QED BY <2>1, <2>2
<1>3. PICK f \in {"response", "late", "event"} :
            wire' = Append(wire, f) /\ pushed' = pushed + OneIfEvent(f) /\ pushed' \in 0 .. PushLimit
  BY <1>2
<1>4. wire' \in Seq({"response", "late", "event"}) /\ EventsIn(wire') = EventsIn(wire) + OneIfEvent(f)
  BY <1>3, EventsInAppend DEF SessionInv, FramesTyped
<1>5. SessionShape'
  BY <1>1, <1>2 DEF SessionInv, SessionShape
<1>6. FramesTyped'
  BY <1>1, <1>3, <1>4 DEF SessionInv, FramesTyped
<1>7. OneIfEvent(f) \in Nat
  BY DEF OneIfEvent
<1>8. EventsAreAccounted'
  <2>1. EventsIn(eventQueue)' = EventsIn(eventQueue) /\ EventsIn(wire)' = EventsIn(wire')
    BY <1>1 DEF EventsIn, EventPlaces
  <2> QED BY <1>1, <1>3, <1>4, <1>7, <2>1, CountsAreNumbers DEF SessionInv, EventsAreAccounted
<1> QED BY <1>5, <1>6, <1>8 DEF SessionInv

\* Dial has succeeded: nothing is on its way.
LEMMA SessionStarts == SessionInit => SessionInv
<1> SUFFICES ASSUME SessionInit PROVE SessionInv
  OBVIOUS
<1>1. EventsIn(<<>>) = 0
  <2>1. EventPlaces(<<>>) = {}
    BY DEF EventPlaces
  <2> QED BY <2>1, FS_EmptySet DEF EventsIn
<1>2. EventLimit \in Nat /\ PushLimit \in Nat /\ TickLimit \in Nat
  BY SessionAssumption
<1>3. SessionShape
  BY DEF SessionInit, SessionShape, Nothing, NoFrame, Requesting
<1>4. FramesTyped
  BY <1>2 DEF SessionInit, FramesTyped
<1>5. EventsAreAccounted
  BY <1>1 DEF SessionInit, EventsAreAccounted, OneIfEvent, NoFrame
<1> QED BY <1>3, <1>4, <1>5 DEF SessionInv

LEMMA SessionSteps == SessionInv /\ [ConnectionNext]_sessionVars => SessionInv'
<1> SUFFICES ASSUME SessionInv, [ConnectionNext]_sessionVars PROVE SessionInv'
  OBVIOUS
<1>1. CASE BeginRequest \/ WriteSessionRequest \/ TakeOutcome \/ RequestExpires
  BY <1>1, RequestStep, FramesStayAccounted DEF SessionInv
<1>2. CASE ReadError \/ Tick \/ LeaveLoop \/ CloseSession \/ LoseLink \/ EndRun
  BY <1>2, QuietStep, FramesStayAccounted DEF SessionInv
<1>3. CASE UNCHANGED sessionVars
  <2>1. FramesStay /\ SessionShape'
    BY <1>3 DEF sessionVars, FramesStay, SessionInv, SessionShape, FramesTyped
  <2> QED BY <2>1, FramesStayAccounted DEF SessionInv
<1> QED BY <1>1, <1>2, <1>3, TakeFrameStep, OfferEventStep, DispatchEventStep, ServerStep
        DEF ConnectionNext, ReadLoopStep, RunSessionStep

\* The types, and with them the bound of the channel and that no event is
\* dispatched that was not pushed.
LEMMA SessionInvTyped == SessionInv => SessionTypeOK /\ dispatched <= pushed
<1> SUFFICES ASSUME SessionInv PROVE SessionTypeOK /\ dispatched <= pushed
  OBVIOUS
<1>1. dispatched \in Nat /\ pushed \in Nat /\ PushLimit \in Nat /\ dispatched <= pushed
  BY CountsAreNumbers DEF SessionInv, EventsAreAccounted
<1>2. dispatched \in 0 .. PushLimit
  BY <1>1 DEF SessionInv, FramesTyped
<1> QED BY <1>1, <1>2 DEF SessionInv, SessionShape, FramesTyped, SessionTypeOK

\* runSession and readLoop, for every capacity of the channel and any number of
\* events, requests and late responses: the channel of events never holds more
\* than its capacity, and no event is dispatched twice or out of nothing.
THEOREM SessionStaysTyped == ConnectionSpec => [](SessionTypeOK /\ dispatched <= pushed)
<1> QED BY SessionStarts, SessionSteps, SessionInvTyped, PTL DEF ConnectionSpec

\* The replies and the session together: no sender makes more attempts than
\* maxAttempts, and the channel of events stays within its capacity.
THEOREM DeliveryStaysTyped == DeliverySpec => []DeliveryTypeOK
<1>1. DeliveryInit => TypeInv /\ SessionInv
  BY StartsTyped, SessionStarts DEF DeliveryInit
<1>2. TypeInv /\ SessionInv /\ [DeliveryNext]_allVars => TypeInv' /\ SessionInv'
  <2> SUFFICES ASSUME TypeInv, SessionInv, [DeliveryNext]_allVars PROVE TypeInv' /\ SessionInv'
    OBVIOUS
  <2>1. [Next]_vars /\ [ConnectionNext]_sessionVars
    BY DEF DeliveryNext, ReplyStep, LoopStep, allVars
  <2> QED BY <2>1, StaysTyped, SessionSteps
<1>3. TypeInv /\ SessionInv => DeliveryTypeOK
  BY SessionInvTyped DEF TypeInv, DeliveryTypeOK
<1> QED BY <1>1, <1>2, <1>3, PTL DEF DeliverySpec

=============================================================================
