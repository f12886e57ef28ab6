----------------------------- MODULE Friendship -----------------------------
(***************************************************************************)
(* Friend requests, friendships and blocks: friend_request,                *)
(* friend_request_handle, remove_friend (server/internal/gateway/          *)
(* gateway.go) and set_user_blocked (gateway/profile_cards.go) over the    *)
(* tables friendships, friend_requests and user_blocks (store/sqlite.go,   *)
(* store/profile_cards.go).                                                *)
(*                                                                         *)
(* The handlers hold no lock: an account answers a request from several    *)
(* devices at once, and each store call is a step of its own.  The reads   *)
(* with which a handler begins are one step.  A request that is refused by *)
(* these reads changes nothing and is no action.  The two rows of a        *)
(* friendship are written and deleted in one transaction, so a friendship  *)
(* is a set of two users.                                                  *)
(***************************************************************************)
EXTENDS Naturals, FiniteSets

CONSTANTS
    Users,
    Pumps,        \* readPump goroutines
    Requests,     \* ids of friend requests; how many there are is a bound on
                  \* the requests that are sent
    None,         \* no user, no request
    StoreErrors   \* whether a store call may fail

ASSUME FriendshipAssumption ==
    /\ None \notin Users /\ None \notin Requests
    /\ StoreErrors \in BOOLEAN

VARIABLES
    friends,   \* rows of friendships
    request,   \* rows of friend_requests
    blocks,    \* rows of user_blocks: blocker and blocked
    pump,      \* what each goroutine is doing
    answers,   \* how often the answer to a request was confirmed and announced
    kept,      \* history: friendships left behind when an undo failed
    parted,    \* history: requests whose users were separated, by a removal or
               \* a block, after the request was created,
    ended      \* and after it was accepted

vars == <<friends, request, blocks, pump, answers, kept, parted, ended>>
separations == <<parted, ended>>
tables == <<friends, request, blocks>>
history == <<answers, kept, separations>>

Pairs == {{u, v} : u, v \in Users}
Statuses == {"none", "pending", "accepted", "rejected"}
RequestRows == [from : Users \cup {None}, to : Users \cup {None}, status : Statuses]
NoRow == [from |-> None, to |-> None, status |-> "none"]

\* actor and peer are the account of the connection and the one it names; added
\* is friendAdded.
Steps == {"idle", "create", "add", "handle", "undo", "unfriend"}
PumpRecord == [pc : Steps, actor : Users \cup {None}, peer : Users \cup {None},
               flag : Requests \cup {None}, action : {"accepted", "rejected"},
               added : BOOLEAN]
IdlePump == [pc |-> "idle", actor |-> None, peer |-> None, flag |-> None,
             action |-> "rejected", added |-> FALSE]

PairOf(r) == {request[r].from, request[r].to}
PairAt(p) == {pump[p].actor, pump[p].peer}

Init ==
    /\ friends = {}
    /\ request = [r \in Requests |-> NoRow]
    /\ blocks = {}
    /\ pump = [p \in Pumps |-> IdlePump]
    /\ answers = [r \in Requests |-> 0]
    /\ kept = {}
    /\ parted = {}
    /\ ended = {}

Goto(p, pc) == pump' = [pump EXCEPT ![p].pc = pc]
Done(p) == pump' = [pump EXCEPT ![p] = IdlePump]

\* The users of these requests are no longer together.
Part(pair) ==
    LET between == {r \in Requests : PairOf(r) = pair}
    IN  /\ parted' = parted \cup between
        /\ ended' = ended \cup {r \in between : request[r].status = "accepted"}

-----------------------------------------------------------------------------
(* friend_request *)

IsEitherBlocked(u, v) == <<u, v>> \in blocks \/ <<v, u>> \in blocks

\* isEitherBlocked, AreFriends and GetPendingFriendRequests refuse the request;
\* the handler ignores their errors, so that a read that fails refuses nothing.
\* The conjunct on the number of requests is the bound.
BeginRequest(p, u, v) ==
    /\ pump[p].pc = "idle"
    /\ u # v
    /\ \/ StoreErrors
       \/ /\ ~IsEitherBlocked(u, v)
          /\ {u, v} \notin friends
          /\ \A r \in Requests : request[r].status = "pending" => PairOf(r) # {u, v}
    /\ Cardinality({q \in Pumps : pump[q].pc = "create"})
          < Cardinality({r \in Requests : request[r].status = "none"})
    /\ pump' = [pump EXCEPT ![p] = [IdlePump EXCEPT !.pc = "create", !.actor = u, !.peer = v]]
    /\ UNCHANGED <<tables, history>>

\* The row that is inserted.
FriendRequest(from, to) == [from |-> from, to |-> to, status |-> "pending"]

CreateFriendRequest(p) ==
    /\ pump[p].pc = "create"
    /\ \E r \in Requests :
          /\ request[r].status = "none"
          /\ request' = [request EXCEPT ![r] = FriendRequest(pump[p].actor, pump[p].peer)]
    /\ Done(p)
    /\ UNCHANGED <<friends, blocks, history>>

-----------------------------------------------------------------------------
(* friend_request_handle *)

\* GetFriendRequest: the request is pending and addressed to the caller.
BeginHandle(p, r, action) ==
    /\ pump[p].pc = "idle"
    /\ request[r].status = "pending"
    /\ pump' = [pump EXCEPT ![p] =
           [pc |-> IF action = "accepted" THEN "add" ELSE "handle",
            actor |-> request[r].to, peer |-> request[r].from, flag |-> r,
            action |-> action, added |-> FALSE]]
    /\ UNCHANGED <<tables, history>>

\* AddFriend tells whether it inserted the rows.
AddFriend(p) ==
    /\ pump[p].pc = "add"
    /\ friends' = friends \cup {PairAt(p)}
    /\ pump' = [pump EXCEPT ![p] = [@ EXCEPT !.pc = "handle", !.added = PairAt(p) \notin friends]]
    /\ UNCHANGED <<request, blocks, history>>

\* Variant: the update does not look at the status.
HandleFriendRequestAgain(p) ==
    LET r == pump[p].flag
    IN  /\ pump[p].pc = "handle"
        /\ request' = [request EXCEPT ![r].status = pump[p].action]
        /\ answers' = [answers EXCEPT ![r] = @ + 1]
        /\ Done(p)
        /\ UNCHANGED <<friends, blocks, kept, separations>>

\* Variant: an accept that lost keeps the friendship it inserted.
HandleFriendRequestKeeping(p) ==
    LET r == pump[p].flag
    IN  /\ pump[p].pc = "handle"
        /\ IF request[r].status = "pending"
           THEN /\ request' = [request EXCEPT ![r].status = pump[p].action]
                /\ answers' = [answers EXCEPT ![r] = @ + 1]
           ELSE UNCHANGED <<request, answers>>
        /\ Done(p)
        /\ UNCHANGED <<friends, blocks, kept, separations>>

\* UPDATE ... WHERE status = 'pending', so that one answer wins: it is confirmed
\* and announced.  An accept that lost, or whose update failed, takes back the
\* friendship if it inserted it.
HandleFriendRequest(p) ==
    LET r == pump[p].flag
    IN  /\ pump[p].pc = "handle"
        /\ IF request[r].status = "pending"
           THEN /\ request' = [request EXCEPT ![r].status = pump[p].action]
                /\ answers' = [answers EXCEPT ![r] = @ + 1]
                /\ Done(p)
           ELSE /\ IF pump[p].added THEN Goto(p, "undo") ELSE Done(p)
                /\ UNCHANGED <<request, answers>>
        /\ UNCHANGED <<friends, blocks, kept, separations>>

UndoAdd(p) ==
    /\ pump[p].pc = "undo"
    /\ friends' = friends \ {PairAt(p)}
    /\ Done(p)
    /\ UNCHANGED <<request, blocks, history>>

-----------------------------------------------------------------------------
(* remove_friend and set_user_blocked *)

RemoveFriend(p, u, v) ==
    /\ pump[p].pc = "idle"
    /\ {u, v} \in friends
    /\ friends' = friends \ {{u, v}}
    /\ Part({u, v})
    /\ UNCHANGED <<request, blocks, pump, answers, kept>>

Block(p, u, v) ==
    /\ pump[p].pc = "idle"
    /\ u # v
    /\ blocks' = blocks \cup {<<u, v>>}
    /\ pump' = [pump EXCEPT ![p] = [IdlePump EXCEPT !.pc = "unfriend", !.actor = u, !.peer = v]]
    /\ UNCHANGED <<friends, request, history>>

\* A block ends the friendship in a second store call.
UnfriendBlocked(p) ==
    /\ pump[p].pc = "unfriend"
    /\ friends' = friends \ {PairAt(p)}
    /\ Part(PairAt(p))
    /\ Done(p)
    /\ UNCHANGED <<request, blocks, answers, kept>>

Unblock(p, u, v) ==
    /\ pump[p].pc = "idle"
    /\ <<u, v>> \in blocks
    /\ blocks' = blocks \ {<<u, v>>}
    /\ UNCHANGED <<friends, request, pump, history>>

-----------------------------------------------------------------------------
\* A store call fails: the handler answers with an error, except that the
\* failure of an undo is ignored and an accept that fails after AddFriend undoes
\* it.  A failed RemoveFriend of a block is ignored too.
StoreFails(p) ==
    /\ StoreErrors
    /\ pump[p].pc # "idle"
    /\ IF pump[p].pc = "handle" /\ pump[p].added THEN Goto(p, "undo") ELSE Done(p)
    /\ kept' = IF pump[p].pc = "undo" THEN kept \cup {PairAt(p)} ELSE kept
    /\ UNCHANGED <<tables, answers, separations>>

HandlerStep(p) ==
    \/ CreateFriendRequest(p)
    \/ AddFriend(p)
    \/ HandleFriendRequest(p)
    \/ UndoAdd(p)
    \/ UnfriendBlocked(p)
    \/ StoreFails(p)

Next ==
    \E p \in Pumps :
        \/ HandlerStep(p)
        \/ \E u, v \in Users : \/ BeginRequest(p, u, v) \/ RemoveFriend(p, u, v)
                               \/ Block(p, u, v) \/ Unblock(p, u, v)
        \/ \E r \in Requests, action \in {"accepted", "rejected"} : BeginHandle(p, r, action)

Spec == Init /\ [][Next]_vars

-----------------------------------------------------------------------------
(* Properties *)

\* Every variable holds a value of its Go or SQL type.
TypeOK ==
    /\ friends \subseteq Pairs
    /\ request \in [Requests -> RequestRows]
    /\ blocks \subseteq Users \X Users
    /\ pump \in [Pumps -> PumpRecord]
    /\ answers \in [Requests -> Nat]
    /\ kept \subseteq Pairs
    /\ parted \subseteq Requests
    /\ ended \subseteq parted

\* Nobody becomes or stays a friend without consent: two users are friends only
\* if one of them accepted a request of the other and neither has ended that
\* friendship or blocked the other since, or an accept is under way that will
\* take the friendship back if it loses against another answer; only the
\* friendship of an undo that failed may stay.
FriendsConsented ==
    \A pair \in friends :
        \/ \E r \in Requests \ ended : PairOf(r) = pair /\ request[r].status = "accepted"
        \/ \E p \in Pumps : PairAt(p) = pair /\ pump[p].pc \in {"handle", "undo"} /\ pump[p].added
        \/ pair \in kept

\* Two devices may answer a request at the same time; one answer is confirmed
\* and announced, and it is the one that is stored for good.
AnsweredOnce ==
    \A r \in Requests : answers[r] = IF request[r].status \in {"accepted", "rejected"} THEN 1 ELSE 0

\* An accepted request makes friends: once no answer is under way, the users of
\* a request whose acceptance was confirmed are friends, unless one of them has
\* ended the friendship or blocked the other.
AcceptedAreFriends ==
    (\A p \in Pumps : pump[p].pc = "idle") =>
        \A r \in Requests \ parted : request[r].status = "accepted" => PairOf(r) \in friends
=============================================================================
