---------------------------- MODULE OnceOnlyLog ----------------------------
(***************************************************************************)
(* What reliable sending promises, without connections, attempts, timeouts *)
(* or handlers.  A reply is stored only while no copy of it is stored, is  *)
(* announced to the conversation at most once for each time it was stored, *)
(* and is reported delivered only after it was stored.  An operator may    *)
(* delete a stored message.  A reply whose sender gave up may still be     *)
(* stored afterwards.                                                      *)
(***************************************************************************)
EXTENDS Naturals

CONSTANT Replies

VARIABLES
    log,       \* replies with a stored copy
    copies,    \* how often each reply was stored
    shown,     \* how often each reply was announced
    outcome    \* what its sender was told

vars == <<log, copies, shown, outcome>>

Init ==
    /\ log = {}
    /\ copies = [r \in Replies |-> 0]
    /\ shown = [r \in Replies |-> 0]
    /\ outcome = [r \in Replies |-> "pending"]

Store(r) ==
    /\ r \notin log
    /\ log' = log \cup {r}
    /\ copies' = [copies EXCEPT ![r] = @ + 1]
    /\ UNCHANGED <<shown, outcome>>

Announce(r) ==
    /\ shown[r] < copies[r]
    /\ shown' = [shown EXCEPT ![r] = @ + 1]
    /\ UNCHANGED <<log, copies, outcome>>

Delete(r) ==
    /\ r \in log
    /\ log' = log \ {r}
    /\ UNCHANGED <<copies, shown, outcome>>

Report(r, o) ==
    /\ outcome[r] = "pending"
    /\ o = "delivered" => copies[r] > 0
    /\ outcome' = [outcome EXCEPT ![r] = o]
    /\ UNCHANGED <<log, copies, shown>>

Next ==
    \E r \in Replies :
        \/ Store(r) \/ Announce(r) \/ Delete(r)
        \/ \E o \in {"delivered", "failed", "unknown"} : Report(r, o)

Spec == Init /\ [][Next]_vars
=============================================================================
