--------------------------- MODULE DynamicMessage ---------------------------
(***************************************************************************)
(* Updates of dynamic messages (server/internal/gateway/gateway.go:        *)
(* handleDynamicMutation, handleDynamicEvent, lockDynamicMessageUpdate,    *)
(* handleRecallMessage; the store calls they make in store/sqlite.go).     *)
(*                                                                         *)
(* Every connection has one readPump goroutine, which handles one request  *)
(* at a time.  An update reads the segments of a message, computes the new *)
(* ones and writes them all back, so two updates of one message must not   *)
(* overlap: a reference-counted lock per message, kept in a map that must  *)
(* not grow without bound, serialises them.  Recalls and deletions do not  *)
(* take that lock.                                                         *)
(*                                                                         *)
(* A message's content is the sequence of updates applied to it; an update *)
(* is identified by its idempotency key (sender and client_message_id, or  *)
(* actor and event_id).  Requests that fail validation or access checks    *)
(* change nothing and are not actions.                                     *)
(***************************************************************************)
EXTENDS Integers, Sequences, FiniteSets

CONSTANTS
    Clients,     \* connections, each with its readPump goroutine
    Messages,    \* messages with dynamic content
    Locks,       \* dynamicMessageUpdateLock objects
    Keys,        \* idempotency keys
    EventKeys,   \* the keys of dynamic events; the others are of mutations
    NoKey,       \* a mutation without client_message_id
    None,        \* nil
    MaxUnkeyed   \* bound: a mutation without key is only sent while the
                 \* message has fewer updates than this

ASSUME DynamicAssumption ==
    /\ IsFiniteSet(Clients)
    /\ EventKeys \subseteq Keys
    /\ NoKey \notin Keys /\ None \notin Locks /\ None \notin Messages
    /\ MaxUnkeyed \in Nat

VARIABLES
    status,     \* messages.recalled and the presence of the row
    segments,   \* messages.segments
    idem,       \* dynamic_update_idempotency and dynamic_interaction_events
    lockOf,     \* g.dynamicUpdateLocks
    refs,       \* refs of each lock object
    held,       \* whether mu of each lock object is locked
    client,     \* what each readPump goroutine is doing
    broadcast,  \* update events sent to the conversation, in order
    noticed     \* messages whose recall was announced to the conversation

sent == <<broadcast, noticed>>
vars == <<status, segments, idem, lockOf, refs, held, client, broadcast, noticed>>

store == <<status, segments, idem>>
lockTable == <<lockOf, refs, held>>

Ops == Keys \cup {NoKey}

\* The program counters between taking a reference and dropping it, and those
\* between mu.Lock and mu.Unlock.
Referencing == {"wait", "check", "read", "store", "broadcast", "unlock", "deref"}
Critical == {"check", "read", "store", "broadcast", "unlock"}

ClientRecord == [pc : Referencing \cup {"idle", "recall", "notice"},
                 target : Messages \cup {None},
                 key : Ops, lock : Locks \cup {None}, snapshot : Seq(Ops)]

IdleClient == [pc |-> "idle", target |-> None, key |-> NoKey, lock |-> None,
               snapshot |-> <<>>]

Init ==
    /\ status = [m \in Messages |-> "live"]
    /\ segments = [m \in Messages |-> <<>>]
    /\ idem = [k \in Keys |-> None]
    /\ lockOf = [m \in Messages |-> None]
    /\ refs = [l \in Locks |-> 0]
    /\ held = [l \in Locks |-> FALSE]
    /\ client = [c \in Clients |-> IdleClient]
    /\ broadcast = [m \in Messages |-> <<>>]
    /\ noticed = {}

Goto(c, pc) == client' = [client EXCEPT ![c].pc = pc]

-----------------------------------------------------------------------------
(* lockDynamicMessageUpdate *)

\* Under dynamicUpdateMu: find or create the message's lock, take a reference.
\* A new object is one nobody references any more.
TakeReference(c, k, m) ==
    /\ client[c].pc = "idle"
    /\ k = NoKey => Len(segments[m]) < MaxUnkeyed
    /\ \E l \in Locks :
          /\ IF lockOf[m] # None
             THEN l = lockOf[m]
             ELSE refs[l] = 0 /\ \A n \in Messages : lockOf[n] # l
          /\ lockOf' = [lockOf EXCEPT ![m] = l]
          /\ refs' = [refs EXCEPT ![l] = @ + 1]
          /\ client' = [client EXCEPT ![c] = [IdleClient EXCEPT
                 !.pc = "wait", !.target = m, !.key = k, !.lock = l]]
    /\ UNCHANGED <<store, held, sent>>

\* lock.mu.Lock()
AcquireLock(c) ==
    /\ client[c].pc = "wait"
    /\ ~held[client[c].lock]
    /\ held' = [held EXCEPT ![client[c].lock] = TRUE]
    /\ Goto(c, IF client[c].key \in EventKeys THEN "read" ELSE "check")
    /\ UNCHANGED <<store, lockOf, refs, sent>>

\* The deferred unlock: lock.mu.Unlock() first, ...
Unlock(c) ==
    /\ client[c].pc = "unlock"
    /\ held' = [held EXCEPT ![client[c].lock] = FALSE]
    /\ Goto(c, "deref")
    /\ UNCHANGED <<store, lockOf, refs, sent>>

\* Variant: every unlock removes the map entry.
DropReferenceUncounted(c) ==
    /\ client[c].pc = "deref"
    /\ refs' = [refs EXCEPT ![client[c].lock] = @ - 1]
    /\ lockOf' = [lockOf EXCEPT ![client[c].target] = None]
    /\ client' = [client EXCEPT ![c] = IdleClient]
    /\ UNCHANGED <<store, held, sent>>

\* ... then, under dynamicUpdateMu, the reference; the last one removes the
\* message's entry from the map.
DropReference(c) ==
    LET l == client[c].lock
        m == client[c].target
    IN  /\ client[c].pc = "deref"
        /\ refs' = [refs EXCEPT ![l] = @ - 1]
        /\ lockOf' = IF refs[l] = 1 THEN [lockOf EXCEPT ![m] = None] ELSE lockOf
        /\ client' = [client EXCEPT ![c] = IdleClient]
        /\ UNCHANGED <<store, held, sent>>

-----------------------------------------------------------------------------
(* handleDynamicMutation and handleDynamicEvent, under the lock *)

\* Variant: a duplicate is broadcast again.
LookupIdempotencyRebroadcasting(c) ==
    LET k == client[c].key
    IN  /\ client[c].pc = "check"
        /\ Goto(c, IF k \in Keys /\ idem[k] # None THEN "broadcast" ELSE "read")
        /\ UNCHANGED <<store, lockTable, sent>>

\* A mutation looks its key up first: a known key is answered (duplicate, or
\* conflict when it was used for another message) and nothing is written.
LookupIdempotency(c) ==
    LET k == client[c].key
    IN  /\ client[c].pc = "check"
        /\ Goto(c, IF k \in Keys /\ idem[k] # None THEN "unlock" ELSE "read")
        /\ UNCHANGED <<store, lockTable, sent>>

\* Variant: the early return skips mu.Unlock.
ReadMessageLeakingLock(c) ==
    LET m == client[c].target
    IN  /\ client[c].pc = "read"
        /\ IF status[m] # "live"
           THEN Goto(c, "deref")
           ELSE client' = [client EXCEPT ![c] = [@ EXCEPT !.pc = "store", !.snapshot = segments[m]]]
        /\ UNCHANGED <<store, lockTable, sent>>

\* GetMessage: a missing or recalled target is refused.  An event looks its
\* key up among the recorded events only after that.
ReadMessage(c) ==
    LET m == client[c].target
        k == client[c].key
    IN  /\ client[c].pc = "read"
        /\ IF \/ status[m] # "live"
              \/ k \in EventKeys /\ idem[k] # None
           THEN Goto(c, "unlock")
           ELSE client' = [client EXCEPT ![c] = [@ EXCEPT !.pc = "store", !.snapshot = segments[m]]]
        /\ UNCHANGED <<store, lockTable, sent>>

\* Variant: the transaction does not look the key up again.
CommitUpdateUnchecked(c) ==
    LET m == client[c].target
        k == client[c].key
    IN  /\ client[c].pc = "store"
        /\ status[m] # "deleted"
        /\ segments' = [segments EXCEPT ![m] = Append(client[c].snapshot, k)]
        /\ idem' = IF k \in Keys THEN [idem EXCEPT ![k] = m] ELSE idem
        /\ Goto(c, "broadcast")
        /\ UNCHANGED <<status, lockTable, sent>>

\* StoreDynamicUpdateIdempotent / CommitDynamicInteractionEvent: one
\* transaction that rechecks the key, overwrites the segments of a row that
\* still exists and records the key.  It does not look at recalled.
CommitUpdate(c) ==
    LET m == client[c].target
        k == client[c].key
    IN  /\ client[c].pc = "store"
        /\ IF status[m] = "deleted" \/ (k \in Keys /\ idem[k] # None)
           THEN /\ Goto(c, "unlock")
                /\ UNCHANGED store
           ELSE /\ segments' = [segments EXCEPT ![m] = Append(client[c].snapshot, k)]
                /\ idem' = IF k \in Keys THEN [idem EXCEPT ![k] = m] ELSE idem
                /\ Goto(c, "broadcast")
                /\ UNCHANGED status
        /\ UNCHANGED <<lockTable, sent>>

\* The transaction fails as a whole: an error is sent, nothing is written.
CommitFails(c) ==
    /\ client[c].pc = "store"
    /\ Goto(c, "unlock")
    /\ UNCHANGED <<store, lockTable, sent>>

\* The acknowledgement, then the event for every device of the conversation.
BroadcastUpdate(c) ==
    LET m == client[c].target
    IN  /\ client[c].pc = "broadcast"
        /\ broadcast' = [broadcast EXCEPT ![m] = Append(@, client[c].key)]
        /\ Goto(c, "unlock")
        /\ UNCHANGED <<store, lockTable, noticed>>

-----------------------------------------------------------------------------
(* handleRecallMessage and the administrator's deletion *)

\* GetMessage and the checks (not recalled, within two minutes, permission).
ReadForRecall(c, m) ==
    /\ client[c].pc = "idle"
    /\ status[m] = "live"
    /\ client' = [client EXCEPT ![c] = [IdleClient EXCEPT !.pc = "recall", !.target = m]]
    /\ UNCHANGED <<store, lockTable, sent>>

\* RecallMessage: UPDATE ... SET recalled = TRUE, whatever the row says now.
CommitRecall(c) ==
    LET m == client[c].target
    IN  /\ client[c].pc = "recall"
        /\ IF status[m] = "deleted"
           THEN /\ client' = [client EXCEPT ![c] = IdleClient]
                /\ UNCHANGED status
           ELSE /\ status' = [status EXCEPT ![m] = "recalled"]
                /\ Goto(c, "notice")
        /\ UNCHANGED <<segments, idem, lockTable, sent>>

\* The recall notice for every device of the conversation.
NoticeRecall(c) ==
    LET m == client[c].target
    IN  /\ client[c].pc = "notice"
        /\ noticed' = noticed \cup {m}
        /\ client' = [client EXCEPT ![c] = IdleClient]
        /\ UNCHANGED <<store, lockTable, broadcast>>

\* DeleteMessage: the row, its idempotency records and its events, in one
\* transaction.
DeleteMessage(m) ==
    /\ status[m] # "deleted"
    /\ status' = [status EXCEPT ![m] = "deleted"]
    /\ idem' = [k \in Keys |-> IF idem[k] = m THEN None ELSE idem[k]]
    /\ UNCHANGED <<segments, lockTable, client, sent>>

-----------------------------------------------------------------------------
HandlerStep(c) ==
    \/ LookupIdempotency(c)
    \/ ReadMessage(c)
    \/ CommitUpdate(c)
    \/ CommitFails(c)
    \/ BroadcastUpdate(c)
    \/ Unlock(c)
    \/ DropReference(c)
    \/ CommitRecall(c)
    \/ NoticeRecall(c)

Next ==
    \/ \E c \in Clients, k \in Ops, m \in Messages : TakeReference(c, k, m)
    \/ \E c \in Clients, m \in Messages : ReadForRecall(c, m)
    \/ \E c \in Clients : AcquireLock(c) \/ HandlerStep(c)
    \/ \E m \in Messages : DeleteMessage(m)

Spec == Init /\ [][Next]_vars

\* A goroutine that can run does; sync.Mutex hands itself to a waiter that has
\* waited for a millisecond, so a waiter is not passed over forever.
Fairness ==
    \A c \in Clients : WF_vars(HandlerStep(c)) /\ SF_vars(AcquireLock(c))

FairSpec == Spec /\ Fairness

-----------------------------------------------------------------------------
(* Properties *)

\* Every variable holds a value of its Go or SQL type.
TypeOK ==
    /\ status \in [Messages -> {"live", "recalled", "deleted"}]
    /\ segments \in [Messages -> Seq(Ops)]
    /\ idem \in [Keys -> Messages \cup {None}]
    /\ lockOf \in [Messages -> Locks \cup {None}]
    /\ refs \in [Locks -> Int]
    /\ held \in [Locks -> BOOLEAN]
    /\ client \in [Clients -> ClientRecord]
    /\ broadcast \in [Messages -> Seq(Ops)]
    /\ noticed \subseteq Messages

\* Two goroutines are never between mu.Lock and mu.Unlock for the same
\* message, although the lock object of a message is removed from the map and
\* created anew while other goroutines wait.
MutualExclusion ==
    \A c, d \in Clients :
        /\ client[c].pc \in Critical /\ client[d].pc \in Critical
        /\ client[c].target = client[d].target
        => c = d

\* The map holds an entry exactly for the messages some goroutine references,
\* and a lock's count is the number of those goroutines: nothing leaks, and no
\* goroutine waits on an object that is no longer in the map.
LocksReclaimed ==
    /\ \A m \in Messages :
          lockOf[m] # None <=> \E c \in Clients : client[c].pc \in Referencing /\ client[c].target = m
    /\ \A c \in Clients :
          client[c].pc \in Referencing => lockOf[client[c].target] = client[c].lock
    /\ \A l \in Locks :
          refs[l] = Cardinality({c \in Clients : client[c].pc \in Referencing /\ client[c].lock = l})

Occurrences(s, k) == Cardinality({i \in DOMAIN s : s[i] = k})

\* Read-modify-write loses nothing and applies nothing twice: a key is in the
\* content of the message its record names exactly once and in no other
\* message, also when it is retried over another connection or sent for two
\* messages at the same time.
EveryUpdateAppliedOnce ==
    \A k \in Keys, m \in Messages :
        status[m] # "deleted" =>
            Occurrences(segments[m], k) = IF idem[k] = m THEN 1 ELSE 0

\* Devices receive the updates of a message in the order they were committed,
\* each once, so that all of them converge to the stored content.
BroadcastInCommitOrder ==
    \A m \in Messages :
        /\ Len(broadcast[m]) <= Len(segments[m])
        /\ broadcast[m] = SubSeq(segments[m], 1, Len(broadcast[m]))
        /\ (\A c \in Clients : ~(client[c].pc = "broadcast" /\ client[c].target = m))
              => broadcast[m] = segments[m]

\* A recalled message is not written any more.
RecalledIsFrozen ==
    [][\A m \in Messages : status[m] = "recalled" => segments'[m] = segments[m]]_vars

\* A deleted message leaves no idempotency record behind, whatever update was
\* under way when it was deleted.
DeletionIsComplete ==
    \A m \in Messages : status[m] = "deleted" => \A k \in Keys : idem[k] # m

\* Every request is answered: no goroutine waits for a lock forever.
RequestsComplete ==
    \A c \in Clients : client[c].pc # "idle" ~> client[c].pc = "idle"
=============================================================================
