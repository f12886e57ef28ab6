-------------------------- MODULE GroupGovernance --------------------------
(***************************************************************************)
(* The life of a group: the eleven group handlers of the gateway           *)
(* (server/internal/gateway/gateway.go, handleCreateGroup to               *)
(* handleGroupMuteAll) over the tables groups, group_members and           *)
(* conversations (server/internal/store/sqlite.go).                        *)
(*                                                                         *)
(* The handlers hold no lock.  Each reads the group and its members,       *)
(* decides, writes with one store call, and copies the membership into the *)
(* conversation with syncGroupConversationParticipants, undoing its write  *)
(* when that fails.  Requests of several readPump goroutines interleave    *)
(* between store calls; consecutive reads of one handler are one step.     *)
(*                                                                         *)
(* One group is modelled; a group's id is never used again.  Participants  *)
(* are a set: their order is for display.  Announcement and avatar go the  *)
(* way of the name.  A request that is refused before its first write      *)
(* changes nothing and is no action.  Notices are sent from the state      *)
(* after the last write and change nothing.                                *)
(***************************************************************************)
EXTENDS Naturals, FiniteSets

CONSTANTS
    Users,
    Pumps,          \* readPump goroutines that handle group requests
    Names,          \* group names
    None,           \* no user, no value
    NoConversation, \* conversations has no row for the group
    MaxMembers,     \* maxGroupMembers
    MaxInvite,      \* maxGroupInviteBatch
    StoreErrors,    \* whether a store call may fail, once in a request
    MaxRequests     \* bound: how many requests arrive

ASSUME GroupAssumption ==
    /\ None \notin Users /\ IsFiniteSet(Users) /\ Names # {}
    /\ MaxMembers \in Nat /\ MaxInvite \in Nat /\ StoreErrors \in BOOLEAN
    /\ MaxRequests \in Nat

VARIABLES
    group,         \* the row of groups
    role,          \* rows of group_members: role, "" for no row
    muted,         \* rows of group_members: muted_until is set
    conversation,  \* the row of conversations
    request,       \* what each goroutine is doing
    settled,       \* history: a request that met no other one has written the
                   \* conversation, with the owner among the members, and
                   \* requests have not overlapped since
    arrived        \* how many requests have arrived

vars == <<group, role, muted, conversation, request, settled, arrived>>
history == <<settled, arrived>>
tables == <<group, role, muted, conversation>>

Roles == {"", "member", "admin", "owner"}
Phases == {"unborn", "live", "dismissed"}
Operations == {"create", "invite", "join", "leave", "kick", "ban", "update",
               "set_admin", "transfer", "dismiss", "mute_all"}
Steps == {"idle", "insert_group", "insert_owner", "add", "remove", "write",
          "sync", "save", "undo", "resync", "resave"}
Projections == [owner : Users \cup {None}, title : Names, participants : SUBSET Users]
GroupRows == [phase : Phases, owner : Users \cup {None}, name : Names, mute_all : BOOLEAN]
Settings == [name : Names, mute_all : BOOLEAN]
NoSettings == [name |-> CHOOSE n \in Names : TRUE, mute_all |-> FALSE]
NoProjection == [owner |-> None, title |-> NoSettings.name, participants |-> {}]

\* targets: the members still to add, or the one target; added: those added so
\* far; old, new: the settings read and to be written; enabled: the switch of
\* ban and set_admin; read: what the sync read; alone: no other request was under way so far;
\* failed: a store call of this request has failed.
RequestRecord == [op : Operations, actor : Users \cup {None}, pc : Steps,
                  targets : SUBSET Users, added : SUBSET Users,
                  old : Settings, new : Settings, enabled : BOOLEAN,
                  read : Projections, alone : BOOLEAN, failed : BOOLEAN]
Idle == [op |-> "join", actor |-> None, pc |-> "idle", targets |-> {},
         added |-> {}, old |-> NoSettings, new |-> NoSettings,
         enabled |-> FALSE, read |-> NoProjection, alone |-> FALSE,
         failed |-> FALSE]

Members == {u \in Users : role[u] # ""}
IsGroupAdmin(u) == role[u] \in {"owner", "admin"}
CanManageGroupMember(actorRole, targetRole) ==
    \/ actorRole = "owner" /\ targetRole \in {"admin", "member"}
    \/ actorRole = "admin" /\ targetRole = "member"

Init ==
    /\ group = [phase |-> "unborn", owner |-> None, name |-> NoSettings.name,
                mute_all |-> FALSE]
    /\ role = [u \in Users |-> ""]
    /\ muted = [u \in Users |-> FALSE]
    /\ conversation = NoConversation
    /\ request = [p \in Pumps |-> Idle]
    /\ settled = FALSE
    /\ arrived = 0

-----------------------------------------------------------------------------
(* What a handler decides from what it reads, up to its first write *)

Quiet == \A p \in Pumps : request[p].pc = "idle"

Begin(p, r) ==
    /\ request[p].pc = "idle" /\ arrived < MaxRequests
    /\ arrived' = arrived + 1
    /\ request' = [q \in Pumps |->
           IF q = p THEN [r EXCEPT !.alone = Quiet]
           ELSE IF request[q].pc = "idle" THEN request[q]
           ELSE [request[q] EXCEPT !.alone = FALSE]]
    /\ settled' = (settled /\ Quiet)
    /\ UNCHANGED tables

Asks(op, u, pc, targets) ==
    [Idle EXCEPT !.op = op, !.actor = u, !.pc = pc, !.targets = targets]
Live == group.phase = "live"
\* Clients learn the id of a group from lists that join group_members, so not
\* while Store.CreateGroup is still to write the first row of it.
Known == Live /\ \A q \in Pumps : request[q].pc # "insert_owner"
OwnSettings == [name |-> group.name, mute_all |-> group.mute_all]
InviteTargets(u) == {T \in SUBSET (Users \ {u}) : Cardinality(T) <= MaxInvite}

CreateGroup(p, u, T) ==
    /\ group.phase = "unborn" /\ T \in InviteTargets(u)
    /\ \A q \in Pumps : request[q].op = "create" => request[q].pc = "idle"
    /\ Begin(p, [Asks("create", u, "insert_group", T) EXCEPT !.new = OwnSettings])

\* Members are left out of the invitation before the limit is checked.
GroupInvite(p, u, T) ==
    /\ Known /\ IsGroupAdmin(u) /\ T \in InviteTargets(u)
    /\ Cardinality(Members) + Cardinality(T \ Members) <= MaxMembers
    /\ Begin(p, Asks("invite", u, IF T \subseteq Members THEN "sync" ELSE "add",
                     T \ Members))

\* No limit is checked.
JoinGroup(p, u) == Known /\ Begin(p, Asks("join", u, "add", {u}))

LeaveGroup(p, u) ==
    Known /\ group.owner # u /\ Begin(p, Asks("leave", u, "remove", {u}))

GroupKick(p, u, t) ==
    /\ Known /\ CanManageGroupMember(role[u], role[t]) /\ t # u /\ t # group.owner
    /\ Begin(p, Asks("kick", u, "remove", {t}))

GroupBan(p, u, t, enabled) ==
    /\ Known /\ CanManageGroupMember(role[u], role[t]) /\ t # u
    /\ Begin(p, [Asks("ban", u, "write", {t}) EXCEPT !.enabled = enabled])

UpdateGroup(p, u, name) ==
    /\ Known /\ IsGroupAdmin(u)
    /\ Begin(p, [Asks("update", u, "write", {}) EXCEPT !.old = OwnSettings,
                     !.new = [OwnSettings EXCEPT !.name = name]])

SetGroupAdmin(p, u, t, enabled) ==
    /\ Known /\ group.owner = u /\ t # u
    /\ role[t] = IF enabled THEN "member" ELSE "admin"
    /\ Begin(p, [Asks("set_admin", u, "write", {t}) EXCEPT !.enabled = enabled])

TransferGroup(p, u, t) ==
    /\ Known /\ group.owner = u /\ t # u /\ role[t] # ""
    /\ Begin(p, Asks("transfer", u, "write", {t}))

DismissGroup(p, u) ==
    /\ Known /\ group.owner = u
    /\ Begin(p, Asks("dismiss", u, "write", {}))

GroupMuteAll(p, u, enabled) ==
    /\ Known /\ IsGroupAdmin(u)
    /\ Begin(p, [Asks("mute_all", u, "write", {}) EXCEPT
                     !.new = [OwnSettings EXCEPT !.mute_all = enabled]])

-----------------------------------------------------------------------------
(* The store calls *)

Goto(p, pc) == request' = [request EXCEPT ![p].pc = pc]
Finish(p) == request' = [request EXCEPT ![p] = Idle]
At(p, op, pc) == request[p].op = op /\ request[p].pc = pc
Target(p) == CHOOSE u \in request[p].targets : TRUE

\* Store.CreateGroup: the group's row, ...
InsertGroup(p) ==
    /\ request[p].pc = "insert_group"
    /\ group' = [phase |-> "live", owner |-> request[p].actor,
                 name |-> request[p].new.name, mute_all |-> FALSE]
    /\ Goto(p, "insert_owner")
    /\ UNCHANGED <<role, muted, conversation, history>>

\* ... and the owner's, in a statement of its own.
InsertOwner(p) ==
    LET u == request[p].actor IN
    /\ request[p].pc = "insert_owner"
    /\ IF role[u] = ""
       THEN /\ role' = [role EXCEPT ![u] = "owner"]
            /\ Goto(p, IF request[p].targets = {} THEN "sync" ELSE "add")
       ELSE UNCHANGED role /\ Finish(p)
    /\ UNCHANGED <<group, muted, conversation, history>>

\* AddGroupMember, INSERT OR IGNORE.  An id that is a member by now makes
\* create and invite take back what they added; a join just fails.
AddMember(p, u) ==
    /\ request[p].pc = "add" /\ u \in request[p].targets
    /\ IF role[u] = ""
       THEN /\ role' = [role EXCEPT ![u] = "member"]
            /\ muted' = [muted EXCEPT ![u] = FALSE]
            /\ request' = [request EXCEPT ![p].added = @ \cup {u},
                   ![p].targets = @ \ {u},
                   ![p].pc = IF request[p].targets = {u} THEN "sync" ELSE "add"]
       ELSE /\ UNCHANGED <<role, muted>>
            /\ IF request[p].added = {} THEN Finish(p) ELSE Goto(p, "undo")
    /\ UNCHANGED <<group, conversation, history>>

\* RemoveGroupMember
RemoveMember(p) ==
    LET u == Target(p) IN
    /\ request[p].pc = "remove"
    /\ role' = [role EXCEPT ![u] = ""]
    /\ muted' = [muted EXCEPT ![u] = FALSE]
    /\ IF role[u] = "" THEN Finish(p) ELSE Goto(p, "sync")
    /\ UNCHANGED <<group, conversation, history>>

\* SetGroupMemberMute: an UPDATE, which matches no row when the member is gone.
WriteMute(p) ==
    LET u == Target(p) IN
    /\ At(p, "ban", "write")
    /\ muted' = [muted EXCEPT ![u] = role[u] # "" /\ request[p].enabled]
    /\ Finish(p)
    /\ UNCHANGED <<group, role, conversation, history>>

\* SetGroupMemberRole: an UPDATE, whatever the role is by now.
WriteRole(p) ==
    LET u == Target(p) IN
    /\ At(p, "set_admin", "write")
    /\ role' = IF role[u] = "" THEN role
               ELSE [role EXCEPT ![u] = IF request[p].enabled THEN "admin" ELSE "member"]
    /\ Finish(p)
    /\ UNCHANGED <<group, muted, conversation, history>>

SetSettings(s) == group' = [group EXCEPT !.name = s.name, !.mute_all = s.mute_all]

\* Store.UpdateGroup for handleUpdateGroup, ...
WriteUpdate(p) ==
    /\ At(p, "update", "write")
    /\ IF Live THEN SetSettings(request[p].new) /\ Goto(p, "sync")
               ELSE UNCHANGED group /\ Finish(p)
    /\ UNCHANGED <<role, muted, conversation, history>>

\* ... and for handleGroupMuteAll, which does not touch the conversation.
WriteMuteAll(p) ==
    /\ At(p, "mute_all", "write")
    /\ IF Live THEN SetSettings(request[p].new) ELSE UNCHANGED group
    /\ Finish(p)
    /\ UNCHANGED <<role, muted, conversation, history>>

\* TransferGroupOwnership, one transaction.
CanTransfer(from, to) ==
    Live /\ role[to] \in {"member", "admin"} /\ group.owner = from
TransferOwnership(from, to) ==
    /\ group' = [group EXCEPT !.owner = to]
    /\ role' = [u \in Users |-> IF u = to THEN "owner"
                                ELSE IF u = from /\ role[u] # "" THEN "member"
                                ELSE role[u]]
    /\ muted' = [muted EXCEPT ![to] = FALSE]

\* Variant: the update of the owner is not conditional on the current owner.
CanTransferUnconditionally(from, to) == Live /\ role[to] \in {"member", "admin"}
WriteTransferUnconditionally(p) ==
    LET u == request[p].actor
        t == Target(p) IN
    /\ At(p, "transfer", "write")
    /\ IF CanTransferUnconditionally(u, t)
       THEN TransferOwnership(u, t) /\ Goto(p, "sync")
       ELSE UNCHANGED <<group, role, muted>> /\ Finish(p)
    /\ UNCHANGED <<conversation, history>>

WriteTransfer(p) ==
    LET u == request[p].actor
        t == Target(p) IN
    /\ At(p, "transfer", "write")
    /\ IF CanTransfer(u, t)
       THEN TransferOwnership(u, t) /\ Goto(p, "sync")
       ELSE UNCHANGED <<group, role, muted>> /\ Finish(p)
    /\ UNCHANGED <<conversation, history>>

\* DeleteGroup, one transaction.
DeleteGroup(p) ==
    /\ At(p, "dismiss", "write")
    /\ IF Live
       THEN /\ group' = [group EXCEPT !.phase = "dismissed", !.owner = None]
            /\ role' = [u \in Users |-> ""]
            /\ muted' = [u \in Users |-> FALSE]
            /\ conversation' = NoConversation
       ELSE UNCHANGED tables
    /\ Finish(p)
    /\ UNCHANGED history

-----------------------------------------------------------------------------
(* syncGroupConversationParticipants and what follows a failure *)

Syncing(p) == request[p].pc \in {"sync", "save"}
Projection == [owner |-> group.owner, title |-> group.name, participants |-> Members]

\* What a handler does when the first sync returns an error.
AfterFailedSync(p) ==
    CASE request[p].op = "create" \/ ~Syncing(p) -> Idle
      [] Syncing(p) /\ request[p].op = "invite" /\ request[p].added = {} ->
             [request[p] EXCEPT !.pc = "resync"]
      [] OTHER -> [request[p] EXCEPT !.pc = "undo"]

\* GetGroup and GetGroupMembers; there may be no group any more.
ReadMembership(p) ==
    /\ request[p].pc \in {"sync", "resync"}
    /\ request' = [request EXCEPT ![p] =
           IF Live
           THEN [@ EXCEPT !.read = Projection,
                          !.pc = IF Syncing(p) THEN "save" ELSE "resave"]
           ELSE AfterFailedSync(p)]
    /\ UNCHANGED <<tables, history>>

SettledBy(r) ==
    r.pc = "save" /\ r.alone /\ r.read.owner \in r.read.participants

\* SaveConversation, an upsert of what was read.
SaveConversation(p) ==
    /\ request[p].pc \in {"save", "resave"}
    /\ conversation' = request[p].read
    /\ settled' = (settled \/ SettledBy(request[p]))
    /\ Finish(p)
    /\ UNCHANGED <<group, role, muted, arrived>>

AfterUndoAdd(r, u) ==
    IF r.added # {u} THEN [r EXCEPT !.added = @ \ {u}]
    ELSE IF r.op = "invite" /\ r.targets = {} THEN [r EXCEPT !.pc = "resync"]
    ELSE Idle

\* create and invite remove the members they added, one by one, join removes
\* its own; only an invite whose sync failed syncs once more.
UndoAdd(p, u) ==
    /\ request[p].pc = "undo" /\ u \in request[p].added
    /\ role' = [role EXCEPT ![u] = ""]
    /\ muted' = [muted EXCEPT ![u] = FALSE]
    /\ request' = [request EXCEPT ![p] = AfterUndoAdd(@, u)]
    /\ UNCHANGED <<group, conversation, history>>

\* Variant: the member that could not be removed everywhere is not put back.
UndoRemoveForgotten(p) ==
    /\ request[p].op \in {"leave", "kick"} /\ request[p].pc = "undo"
    /\ Finish(p)
    /\ UNCHANGED <<tables, history>>

\* leave and kick put the member back, with the role of a member, and sync.
UndoRemove(p) ==
    LET u == Target(p) IN
    /\ request[p].op \in {"leave", "kick"} /\ request[p].pc = "undo"
    /\ role' = IF role[u] = "" THEN [role EXCEPT ![u] = "member"] ELSE role
    /\ Goto(p, "resync")
    /\ UNCHANGED <<group, muted, conversation, history>>

\* update writes back the settings it read.
UndoUpdate(p) ==
    /\ At(p, "update", "undo")
    /\ IF Live THEN SetSettings(request[p].old) ELSE UNCHANGED group
    /\ Finish(p)
    /\ UNCHANGED <<role, muted, conversation, history>>

\* Variant: the way back is not conditional on the current owner.
UndoTransferBlindly(p) ==
    LET u == request[p].actor
        t == Target(p) IN
    /\ At(p, "transfer", "undo")
    /\ IF CanTransferUnconditionally(t, u) THEN TransferOwnership(t, u)
                                           ELSE UNCHANGED <<group, role, muted>>
    /\ Finish(p)
    /\ UNCHANGED <<conversation, history>>

\* transfer transfers back.
UndoTransfer(p) ==
    LET u == request[p].actor
        t == Target(p) IN
    /\ At(p, "transfer", "undo")
    /\ IF CanTransfer(t, u) THEN TransferOwnership(t, u)
                            ELSE UNCHANGED <<group, role, muted>>
    /\ Finish(p)
    /\ UNCHANGED <<conversation, history>>

\* A store call fails and changes nothing.  A failed first write ends the
\* request, after what create and invite have added is taken back; a failure
\* of the second sync is ignored.
Failed(r) == [r EXCEPT !.failed = TRUE]
StoreFails(p) ==
    /\ StoreErrors /\ ~request[p].failed
    /\ request[p].pc \notin {"idle", "undo"}
    /\ request' = [request EXCEPT ![p] =
           IF Syncing(p) /\ @.op # "create" THEN Failed(AfterFailedSync(p))
           ELSE IF @.pc = "add" /\ @.added # {} THEN Failed([@ EXCEPT !.pc = "undo"])
           ELSE Idle]
    /\ UNCHANGED <<tables, history>>

\* The error of an undoing call is ignored.
UndoFails(p) ==
    /\ StoreErrors /\ ~request[p].failed /\ request[p].pc = "undo"
    /\ IF request[p].added # {}
       THEN \E u \in request[p].added :
                request' = [request EXCEPT ![p] =
                    IF AfterUndoAdd(@, u) = Idle THEN Idle ELSE Failed(AfterUndoAdd(@, u))]
       ELSE IF request[p].op \in {"leave", "kick"}
            THEN request' = [request EXCEPT ![p] = Failed([@ EXCEPT !.pc = "resync"])]
            ELSE Finish(p)
    /\ UNCHANGED <<tables, history>>

-----------------------------------------------------------------------------
HandlerStep(p) ==
    \/ InsertGroup(p) \/ InsertOwner(p)
    \/ \E u \in Users : AddMember(p, u) \/ UndoAdd(p, u)
    \/ RemoveMember(p) \/ WriteMute(p) \/ WriteRole(p) \/ WriteUpdate(p)
    \/ WriteMuteAll(p) \/ WriteTransfer(p) \/ DeleteGroup(p)
    \/ ReadMembership(p) \/ SaveConversation(p)
    \/ UndoRemove(p) \/ UndoUpdate(p) \/ UndoTransfer(p)
    \/ StoreFails(p) \/ UndoFails(p)

Arrival(p, u) ==
    \/ \E T \in SUBSET Users : CreateGroup(p, u, T) \/ GroupInvite(p, u, T)
    \/ JoinGroup(p, u) \/ LeaveGroup(p, u) \/ DismissGroup(p, u)
    \/ \E t \in Users : GroupKick(p, u, t) \/ TransferGroup(p, u, t)
    \/ \E t \in Users, b \in BOOLEAN : GroupBan(p, u, t, b) \/ SetGroupAdmin(p, u, t, b)
    \/ \E n \in Names : UpdateGroup(p, u, n)
    \/ \E b \in BOOLEAN : GroupMuteAll(p, u, b)

Next == \E p \in Pumps : HandlerStep(p) \/ \E u \in Users : Arrival(p, u)

Spec == Init /\ [][Next]_vars

-----------------------------------------------------------------------------
(* Properties *)

\* Every variable holds a value of its Go or SQL type.
TypeOK ==
    /\ group \in GroupRows
    /\ role \in [Users -> Roles]
    /\ muted \in [Users -> BOOLEAN]
    /\ conversation \in Projections \cup {NoConversation}
    /\ request \in [Pumps -> RequestRecord]
    /\ settled \in BOOLEAN
    /\ arrived \in 0..MaxRequests

\* group_members never shows a second owner, nor an owner other than
\* groups.owner_id, whatever transfers, role changes, departures, rollbacks
\* and dismissals overlap: an owner's rights are never held by two.
OneOwner == \A u \in Users : role[u] = "owner" => group.owner = u

\* Ownership passes only from the owner to the member the owner named, or back
\* when that transfer is undone; concurrent transfers do not override one
\* another.
OwnershipIsHandedOver ==
    [][Live /\ Live' /\ group'.owner # group.owner =>
          \E p \in Pumps : /\ request[p].op = "transfer"
                           /\ {group.owner, group'.owner}
                                  = {request[p].actor} \cup request[p].targets]_vars

\* What OneOwner rests on.  Until a group's first two rows are written no other
\* request can be about it, ...
Creating == {"insert_group", "insert_owner"}
CreationIsExclusive ==
    /\ \A p \in Pumps :
          /\ request[p].pc \in Creating =>
                /\ request[p].op = "create"
                /\ \A q \in Pumps : request[q].pc # "idle" => q = p
          /\ request[p].pc = "insert_group" => group.phase = "unborn"
          /\ request[p].pc = "insert_owner" => Live /\ group.owner = request[p].actor
          /\ group.phase = "unborn" => request[p].pc \in {"idle", "insert_group"}
    /\ group.phase = "unborn" => Members = {}
\* ... and a transfer keeps the one target it was asked for.
TransferTarget ==
    \A p \in Pumps : request[p].op = "transfer" =>
        /\ request[p].pc # "add" /\ request[p].actor \in Users
        /\ \E t \in Users : request[p].targets = {t}
OwnershipInvariant == TypeOK /\ OneOwner /\ CreationIsExclusive /\ TransferTarget

\* Self-repair: once a request that met no other one has synced (and the owner
\* is a member, without which a transfer cannot be undone), the conversation has exactly the members, owner and name of the group, and
\* keeps them through failing store calls and their rollbacks until requests
\* overlap again; a dismissed group leaves neither members nor conversation.
UndisturbedSyncAligns ==
    settled /\ Quiet =>
        /\ conversation = IF Live THEN Projection ELSE NoConversation
        /\ Live \/ Members = {}

\* The conversation follows the membership after every membership change.
ProjectionAligned ==
    Quiet /\ Live /\ conversation # NoConversation => conversation = Projection
=============================================================================
