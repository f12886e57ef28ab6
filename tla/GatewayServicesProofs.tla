----------------------- MODULE GatewayServicesProofs -----------------------
(***************************************************************************)
(* Theorems about services of the gateway, each for every value of its     *)
(* constants and bounds.                                                   *)
(*                                                                         *)
(*  Accounts            the registry of connections, the notices to        *)
(*                      friends and the online column of the users table   *)
(*                      agree on which accounts have a device              *)
(*  ConversationInbox   what was read stays read, a recalled message gets  *)
(*                      no reaction, and a notification goes out only to a *)
(*                      member whose level admits it                       *)
(*  GroupBoard          announcements, their copy in the row of the group  *)
(*                      and the settings that share that row               *)
(*  DynamicInteraction  what a card shows follows from its stored events,  *)
(*                      and an approval is earned by different actors      *)
(*  Friendship          the tables stay typed, a request is answered once  *)
(*                      and nobody becomes a friend without consent        *)
(***************************************************************************)
EXTENDS Accounts, GroupBoard, ConversationInbox, DynamicInteraction, Friendship,
        FiniteSetTheorems, FunctionTheorems, SequenceTheorems, WellFoundedInduction, TLAPS

(*************************************************************************)
(* Accounts                                                              *)
(*************************************************************************)

(* The inductive invariant *)

\* A request past its first step is about an account.
RequestsHaveUsers ==
    /\ \A c \in Connections : connection[c].pc \notin {"new", "gone"} => UserOf(c) \in AccountUsers
    /\ \A a \in Admins : admin[a].pc # "idle" => admin[a].user \in AccountUsers

\* handleUpdateProfile: the copy of the row that SetUser will write back says
\* online, unless somebody else has written the row; while the edit is under
\* way its own connection keeps the account from being the first or the last.
EditsKeepOnline ==
    \A c \in Connections : connection[c].pc = "edit" /\ UserOf(c) \notin foreign => connection[c].row.online

AccountsTypeInv == AccountsTypeOK /\ RequestsHaveUsers
RowsInv == OnlineMatchesDevices /\ EditsKeepOnline
AccountsInv == AccountsTypeInv /\ RegistryIsExact /\ EveryTransitionAnnounced /\ RowsInv

ConnectionRecord == [pc : ConnectionSteps, user : AccountUsers \cup {NoAccount}, row : AccountRows]
AdminRecord == [pc : AdminSteps, user : AccountUsers \cup {NoAccount}, row : AccountRows, original : Nat]

-----------------------------------------------------------------------------
(* One connection takes a step *)

AnnouncingIn(u, pc) == {c \in Connections : connection[c].pc = pc /\ UserOf(c) = u}
One(b) == IF b THEN 1 ELSE 0
Counts(c, u, pc) == connection[c].pc = pc /\ UserOf(c) = u

\* The connections about to announce something are finitely many.
LEMMA AnnouncingIsFinite ==
  ASSUME NEW u, NEW pc
  PROVE  /\ IsFiniteSet(AnnouncingIn(u, pc))
         /\ Announcing(u, pc) = Cardinality(AnnouncingIn(u, pc)) /\ Announcing(u, pc) \in Nat
<1>1. AnnouncingIn(u, pc) \subseteq Connections
  BY DEF AnnouncingIn
<1>2. IsFiniteSet(AnnouncingIn(u, pc))
  BY <1>1, AccountsAssumption, FS_Subset, Zenon
<1>3. Announcing(u, pc) = Cardinality(AnnouncingIn(u, pc))
  BY DEF Announcing, AnnouncingIn
<1> QED BY <1>2, <1>3, FS_CardinalityType, Zenon

\* The size of a set that loses an element, gets it, or keeps it.
LEMMA SizeWithout ==
  ASSUME NEW S, NEW x, IsFiniteSet(S)
  PROVE  /\ IsFiniteSet(S \ {x}) /\ Cardinality(S) \in Nat /\ Cardinality(S \ {x}) \in Nat
         /\ x \in S => Cardinality(S) = Cardinality(S \ {x}) + 1
         /\ x \notin S => Cardinality(S) = Cardinality(S \ {x})
<1>1. IsFiniteSet(S \ {x}) /\ Cardinality(S \ {x}) = IF x \in S THEN Cardinality(S) - 1 ELSE Cardinality(S)
  BY FS_RemoveElement, Zenon
<1>2. Cardinality(S) \in Nat /\ Cardinality(S \ {x}) \in Nat
  BY <1>1, FS_CardinalityType, Zenon
<1> QED BY <1>1, <1>2

\* One connection moves: the announcements to come change by its own.
LEMMA OneMoves ==
  ASSUME NEW c \in Connections, \A d \in Connections \ {c} : connection'[d] = connection[d],
         NEW u, NEW pc
  PROVE  Announcing(u, pc)' = Announcing(u, pc) - One(Counts(c, u, pc)) + One(Counts(c, u, pc)')
<1>1. IsFiniteSet(AnnouncingIn(u, pc)) /\ Announcing(u, pc) = Cardinality(AnnouncingIn(u, pc))
  BY AnnouncingIsFinite, Zenon
<1>2. (IsFiniteSet(AnnouncingIn(u, pc)) /\ Announcing(u, pc) = Cardinality(AnnouncingIn(u, pc)))'
  BY AnnouncingIsFinite, PTL
<1>3. AnnouncingIn(u, pc)' \ {c} = AnnouncingIn(u, pc) \ {c}
  BY DEF AnnouncingIn, UserOf
<1>4. (c \in AnnouncingIn(u, pc) <=> Counts(c, u, pc)) /\ (c \in AnnouncingIn(u, pc)' <=> Counts(c, u, pc)')
  BY DEF AnnouncingIn, Counts, UserOf
<1> DEFINE S == AnnouncingIn(u, pc)
           T == AnnouncingIn(u, pc)'
<1>5. /\ Cardinality(S) \in Nat /\ Cardinality(S \ {c}) \in Nat
      /\ c \in S => Cardinality(S) = Cardinality(S \ {c}) + 1
      /\ c \notin S => Cardinality(S) = Cardinality(S \ {c})
  BY <1>1, SizeWithout, Zenon
<1>6. IsFiniteSet(T) /\ Announcing(u, pc)' = Cardinality(T)
  BY <1>2
<1>7. /\ Cardinality(T) \in Nat /\ Cardinality(T \ {c}) \in Nat
      /\ c \in T => Cardinality(T) = Cardinality(T \ {c}) + 1
      /\ c \notin T => Cardinality(T) = Cardinality(T \ {c})
  BY <1>6, SizeWithout, Zenon
<1>8. Cardinality(T \ {c}) = Cardinality(S \ {c})
  BY <1>3
<1>9. (c \in S <=> Counts(c, u, pc)) /\ (c \in T <=> Counts(c, u, pc)') /\ Announcing(u, pc) = Cardinality(S)
  BY <1>1, <1>4
<1> HIDE DEF S, T
<1> QED BY <1>5, <1>6, <1>7, <1>8, <1>9 DEF One

\* Nothing moves: the announcements to come are the same.
LEMMA NoneMoves ==
  ASSUME connection' = connection, NEW u, NEW pc
  PROVE  Announcing(u, pc)' = Announcing(u, pc)
  BY DEF Announcing, UserOf

-----------------------------------------------------------------------------
(* Types *)

\* The tables start empty and no request is under way.
LEMMA InitTyped == AccountsInit => AccountsTypeInv
<1>0. NoAccountRow \in AccountRows /\ \A b \in BOOLEAN : [NoAccountRow EXCEPT !.exists = b] \in AccountRows
  BY DEF NoAccountRow, AccountRows
<1>1. FreshConnection \in ConnectionRecord /\ IdleAdmin \in AdminRecord
  BY <1>0 DEF FreshConnection, IdleAdmin, ConnectionRecord, AdminRecord, ConnectionSteps, AdminSteps
<1>2. ASSUME AccountsInit PROVE AccountsTypeOK
  <2>1. account \in [AccountUsers -> AccountRows]
    <3>1. ASSUME NEW u \in AccountUsers PROVE [NoAccountRow EXCEPT !.exists = u \in Registered] \in AccountRows
      <4>1. (u \in Registered) \in BOOLEAN
        OBVIOUS
      <4> QED BY <1>0, <4>1, Zenon
    <3>2. account = [u \in AccountUsers |-> [NoAccountRow EXCEPT !.exists = u \in Registered]]
      BY <1>2 DEF AccountsInit
    <3> QED BY <3>1, <3>2, Zenon
  <2>2. connection \in [Connections -> ConnectionRecord] /\ admin \in [Admins -> AdminRecord]
    BY <1>1, <1>2 DEF AccountsInit
  <2>3. /\ clients \in [AccountUsers -> SUBSET Connections] /\ foreign \subseteq AccountUsers
        /\ notices \in [AccountUsers -> [on : Nat, off : Nat]]
        /\ edits \in [AccountUsers -> 0..MaxEdits] /\ resets \in [AccountUsers -> 0..MaxResets]
        /\ restarts \in 0..MaxRestarts
    BY <1>2, AccountsAssumption DEF AccountsInit, NoNotice
  <2> QED BY <2>1, <2>2, <2>3 DEF AccountsTypeOK, ConnectionRecord, AdminRecord
<1>3. ASSUME AccountsInit PROVE RequestsHaveUsers
  BY <1>3 DEF AccountsInit, RequestsHaveUsers, FreshConnection, IdleAdmin
<1> QED BY <1>2, <1>3 DEF AccountsTypeInv

\* The parts of the type invariant, one for each variable.
ConnectionsTyped == connection \in [Connections -> ConnectionRecord]
AdminsTyped == admin \in [Admins -> AdminRecord]
RowsTyped == account \in [AccountUsers -> AccountRows]
CountsTyped ==
    /\ notices \in [AccountUsers -> [on : Nat, off : Nat]]
    /\ edits \in [AccountUsers -> 0..MaxEdits] /\ resets \in [AccountUsers -> 0..MaxResets]
    /\ restarts \in 0..MaxRestarts
RegistryTyped == clients \in [AccountUsers -> SUBSET Connections] /\ foreign \subseteq AccountUsers

\* The parts of the type invariant, one per variable or pair of variables.
LEMMA TypeParts ==
  AccountsTypeInv <=> ConnectionsTyped /\ AdminsTyped /\ RowsTyped /\ CountsTyped /\ RegistryTyped /\ RequestsHaveUsers
  BY DEF AccountsTypeInv, AccountsTypeOK, ConnectionsTyped, AdminsTyped, RowsTyped, CountsTyped, RegistryTyped,
         ConnectionRecord, AdminRecord

\* The same of the next state.
LEMMA TypePartsNext ==
  ConnectionsTyped' /\ AdminsTyped' /\ RowsTyped' /\ CountsTyped' /\ RegistryTyped' /\ RequestsHaveUsers' => AccountsTypeInv'
  BY DEF AccountsTypeInv, AccountsTypeOK, ConnectionsTyped, AdminsTyped, RowsTyped, CountsTyped, RegistryTyped,
         ConnectionRecord, AdminRecord

\* An account has a row of the right shape, whatever is written into it.
LEMMA RowsAreRows ==
  /\ NoAccountRow \in AccountRows /\ [NoAccountRow EXCEPT !.exists = TRUE] \in AccountRows
  /\ [NoAccountRow EXCEPT !.exists = TRUE, !.online = TRUE] \in AccountRows
  /\ \A r \in AccountRows : /\ \A b \in BOOLEAN : [r EXCEPT !.online = b] \in AccountRows
                            /\ \A n \in Nat : /\ [r EXCEPT !.nickname = n] \in AccountRows
                                              /\ [r EXCEPT !.password = n] \in AccountRows
  BY DEF NoAccountRow, AccountRows

\* Steps of a connection: which step it goes to, for which account, with which
\* copy of the row.
LEMMA ConnectionStep ==
  ASSUME ConnectionsTyped, NEW c \in Connections, NEW r \in ConnectionRecord,
         connection' = [connection EXCEPT ![c] = r]
  PROVE  ConnectionsTyped' /\ connection'[c] = r /\ \A d \in Connections \ {c} : connection'[d] = connection[d]
  BY DEF ConnectionsTyped

\* A new connection and an idle admin request are well-formed.
LEMMA FreshTyped == FreshConnection \in ConnectionRecord /\ IdleAdmin \in AdminRecord
  BY RowsAreRows DEF FreshConnection, IdleAdmin, ConnectionRecord, AdminRecord, ConnectionSteps, AdminSteps

\* What an action of a connection does to its record.
LEMMA MovesTo ==
  ASSUME ConnectionsTyped, NEW c \in Connections, NEW pc \in ConnectionSteps,
         connection' = [connection EXCEPT ![c].pc = pc]
  PROVE  /\ ConnectionsTyped'
         /\ connection'[c].pc = pc /\ connection'[c].user = connection[c].user
         /\ connection'[c].row = connection[c].row
         /\ \A d \in Connections \ {c} : connection'[d] = connection[d]
<1>1. connection[c] \in ConnectionRecord
  BY DEF ConnectionsTyped
<1>2. [connection[c] EXCEPT !.pc = pc] \in ConnectionRecord
  BY <1>1 DEF ConnectionRecord
<1>3. connection' = [connection EXCEPT ![c] = [connection[c] EXCEPT !.pc = pc]]
  BY DEF ConnectionsTyped
<1>4. ConnectionsTyped' /\ connection'[c] = [connection[c] EXCEPT !.pc = pc]
      /\ \A d \in Connections \ {c} : connection'[d] = connection[d]
  BY <1>2, <1>3, ConnectionStep, Zenon
<1> QED BY <1>1, <1>4 DEF ConnectionRecord

\* The record of connection c becomes this one; no other connection moves.
Becomes(c, pc, u, entry) ==
    /\ connection'[c].pc = pc /\ connection'[c].user = u /\ connection'[c].row = entry
    /\ \A d \in Connections \ {c} : connection'[d] = connection[d]

\* What each action of a connection does to its record.
LEMMA ConnectionEffects ==
  ASSUME AccountsTypeInv, NEW c \in Connections
  PROVE  /\ CreateOnAuth(c) => ConnectionsTyped' /\ Becomes(c, "attach", UserOf(c), connection[c].row)
         /\ AddClient(c) =>
              ConnectionsTyped' /\ Becomes(c, IF clients[UserOf(c)] = {} THEN "online" ELSE "ready", UserOf(c), connection[c].row)
         /\ NotifyOnline(c) => ConnectionsTyped' /\ Becomes(c, "ready", UserOf(c), connection[c].row)
         /\ DetachClient(c) =>
              ConnectionsTyped' /\ Becomes(c, IF clients[UserOf(c)] = {c} THEN "offline" ELSE "gone", UserOf(c), connection[c].row)
         /\ CloseUnauthenticated(c) => ConnectionsTyped' /\ Becomes(c, "gone", UserOf(c), connection[c].row)
         /\ NotifyOffline(c) => ConnectionsTyped' /\ Becomes(c, "gone", UserOf(c), connection[c].row)
         /\ CommitRegister(c) => ConnectionsTyped' /\ Becomes(c, "new", NoAccount, NoAccountRow)
         /\ BeginEdit(c) =>
              ConnectionsTyped' /\ Becomes(c, "edit", UserOf(c), [account[UserOf(c)] EXCEPT !.nickname = edits[UserOf(c)] + 1])
         /\ CommitEdit(c) => ConnectionsTyped' /\ Becomes(c, "ready", UserOf(c), NoAccountRow)
         /\ \A u \in AccountUsers :
              /\ Auth(c, u) =>
                   ConnectionsTyped' /\ Becomes(c, IF account[u].exists THEN "attach" ELSE "create", u, connection[c].row)
              /\ BeginRegister(c, u) => ConnectionsTyped' /\ Becomes(c, "register", u, connection[c].row)
<1> USE DEF Becomes, UserOf
<1>0. ConnectionsTyped /\ RowsTyped /\ CountsTyped /\ RequestsHaveUsers
  BY TypeParts
<1>s. /\ "attach" \in ConnectionSteps /\ "online" \in ConnectionSteps /\ "ready" \in ConnectionSteps
      /\ "offline" \in ConnectionSteps /\ "gone" \in ConnectionSteps /\ "new" \in ConnectionSteps
      /\ "edit" \in ConnectionSteps /\ "register" \in ConnectionSteps /\ "create" \in ConnectionSteps
  BY DEF ConnectionSteps
<1>c. connection[c] \in ConnectionRecord
  BY <1>0 DEF ConnectionsTyped
<1>1. CreateOnAuth(c) => ConnectionsTyped' /\ Becomes(c, "attach", UserOf(c), connection[c].row)
  BY <1>0, <1>s, MovesTo DEF CreateOnAuth, ConnectionAt
<1>2. AddClient(c) =>
        ConnectionsTyped' /\ Becomes(c, IF clients[UserOf(c)] = {} THEN "online" ELSE "ready", UserOf(c), connection[c].row)
  BY <1>0, <1>s, MovesTo DEF AddClient, ConnectionAt
<1>3. NotifyOnline(c) => ConnectionsTyped' /\ Becomes(c, "ready", UserOf(c), connection[c].row)
  BY <1>0, <1>s, MovesTo DEF NotifyOnline, ConnectionAt
<1>4. DetachClient(c) =>
        ConnectionsTyped' /\ Becomes(c, IF clients[UserOf(c)] = {c} THEN "offline" ELSE "gone", UserOf(c), connection[c].row)
  BY <1>0, <1>s, MovesTo DEF DetachClient, ConnectionAt
<1>5. CloseUnauthenticated(c) => ConnectionsTyped' /\ Becomes(c, "gone", UserOf(c), connection[c].row)
  BY <1>0, <1>s, MovesTo DEF CloseUnauthenticated, ConnectionAt
<1>6. NotifyOffline(c) => ConnectionsTyped' /\ Becomes(c, "gone", UserOf(c), connection[c].row)
  BY <1>0, <1>s, MovesTo DEF NotifyOffline, ConnectionAt
<1>7. CommitRegister(c) => ConnectionsTyped' /\ Becomes(c, "new", NoAccount, NoAccountRow)
  <2> SUFFICES ASSUME CommitRegister(c) PROVE ConnectionsTyped' /\ Becomes(c, "new", NoAccount, NoAccountRow)
    OBVIOUS
  <2>1. connection' = [connection EXCEPT ![c] = FreshConnection]
    BY DEF CommitRegister
  <2>2. ConnectionsTyped' /\ connection'[c] = FreshConnection
        /\ \A d \in Connections \ {c} : connection'[d] = connection[d]
    BY <1>0, <2>1, FreshTyped, ConnectionStep, Zenon
  <2> QED BY <2>2 DEF FreshConnection
<1>8. BeginEdit(c) =>
        ConnectionsTyped' /\ Becomes(c, "edit", UserOf(c), [account[UserOf(c)] EXCEPT !.nickname = edits[UserOf(c)] + 1])
  <2> SUFFICES ASSUME BeginEdit(c) PROVE ConnectionsTyped' /\ Becomes(c, "edit", UserOf(c), [account[UserOf(c)] EXCEPT !.nickname = edits[UserOf(c)] + 1])
    OBVIOUS
  <2> DEFINE entry == [account[UserOf(c)] EXCEPT !.nickname = edits[UserOf(c)] + 1]
             r == [connection[c] EXCEPT !.pc = "edit", !.row = entry]
  <2>1. UserOf(c) \in AccountUsers
    BY <1>0 DEF BeginEdit, RequestsHaveUsers
  <2>2. account[UserOf(c)] \in AccountRows /\ edits[UserOf(c)] + 1 \in Nat
    BY <1>0, <2>1, AccountsAssumption DEF RowsTyped, CountsTyped
  <2>3. entry \in AccountRows
    BY <2>2, RowsAreRows
  <2>4. connection' = [connection EXCEPT ![c] = r]
    BY <1>0 DEF BeginEdit, ConnectionsTyped
  <2> HIDE DEF entry
  <2>5. r \in ConnectionRecord /\ r.pc = "edit" /\ r.user = UserOf(c) /\ r.row = entry
    BY <1>c, <1>s, <2>3 DEF ConnectionRecord
  <2> HIDE DEF r
  <2>6. ConnectionsTyped' /\ connection'[c] = r /\ \A d \in Connections \ {c} : connection'[d] = connection[d]
    BY <1>0, <2>4, <2>5, ConnectionStep, Zenon
  <2> QED BY <2>5, <2>6 DEF entry
<1>9. CommitEdit(c) => ConnectionsTyped' /\ Becomes(c, "ready", UserOf(c), NoAccountRow)
  <2> SUFFICES ASSUME CommitEdit(c) PROVE ConnectionsTyped' /\ Becomes(c, "ready", UserOf(c), NoAccountRow)
    OBVIOUS
  <2> DEFINE r == [connection[c] EXCEPT !.pc = "ready", !.row = NoAccountRow]
  <2>1. connection' = [connection EXCEPT ![c] = r]
    BY <1>0 DEF CommitEdit, ConnectionsTyped
  <2>2. r \in ConnectionRecord /\ r.pc = "ready" /\ r.user = UserOf(c) /\ r.row = NoAccountRow
    BY <1>c, <1>s, RowsAreRows DEF ConnectionRecord
  <2> HIDE DEF r
  <2> QED BY <1>0, <2>1, <2>2, ConnectionStep
<1>10. ASSUME NEW u \in AccountUsers, Auth(c, u)
       PROVE  ConnectionsTyped' /\ Becomes(c, IF account[u].exists THEN "attach" ELSE "create", u, connection[c].row)
  <2> DEFINE pc == IF account[u].exists THEN "attach" ELSE "create"
             r == [connection[c] EXCEPT !.user = u, !.pc = pc]
  <2>1. connection' = [connection EXCEPT ![c] = r]
    BY <1>0, <1>10 DEF Auth, ConnectionsTyped
  <2>2. pc \in ConnectionSteps
    BY <1>s
  <2> HIDE DEF pc
  <2>3. r \in ConnectionRecord /\ r.pc = pc /\ r.user = u /\ r.row = connection[c].row
    BY <1>c, <2>2 DEF ConnectionRecord
  <2> HIDE DEF r
  <2>4. ConnectionsTyped' /\ Becomes(c, pc, u, connection[c].row)
    BY <1>0, <2>1, <2>3, ConnectionStep
  <2> QED BY <2>4 DEF pc
<1>11. ASSUME NEW u \in AccountUsers, BeginRegister(c, u)
       PROVE  ConnectionsTyped' /\ Becomes(c, "register", u, connection[c].row)
  <2> DEFINE r == [connection[c] EXCEPT !.pc = "register", !.user = u]
  <2>1. connection' = [connection EXCEPT ![c] = r]
    BY <1>0, <1>11 DEF BeginRegister, ConnectionsTyped
  <2>2. r \in ConnectionRecord /\ r.pc = "register" /\ r.user = u /\ r.row = connection[c].row
    BY <1>c, <1>s DEF ConnectionRecord
  <2> HIDE DEF r
  <2> QED BY <1>0, <2>1, <2>2, ConnectionStep
<1> HIDE DEF Becomes
<1> QED BY <1>1, <1>2, <1>3, <1>4, <1>5, <1>6, <1>7, <1>8, <1>9, <1>10, <1>11

\* The step of a connection: the accounts of the requests under way stay known.
LEMMA UsersStayKnown ==
  ASSUME AccountsTypeInv, NEW c \in Connections, NEW pc, NEW u, NEW entry, Becomes(c, pc, u, entry),
         pc \notin {"new", "gone"} => u \in AccountUsers, admin' = admin
  PROVE  RequestsHaveUsers'
<1>0. RequestsHaveUsers
  BY TypeParts
<1>1. ASSUME NEW d \in Connections, connection'[d].pc \notin {"new", "gone"} PROVE connection'[d].user \in AccountUsers
  <2>1. CASE d = c
    BY <1>1, <2>1 DEF Becomes
  <2>2. CASE d # c
    BY <1>0, <1>1, <2>2 DEF Becomes, RequestsHaveUsers, UserOf
  <2> QED BY <2>1, <2>2
<1>2. \A a \in Admins : admin'[a].pc # "idle" => admin'[a].user \in AccountUsers
  BY <1>0 DEF RequestsHaveUsers
<1> QED BY <1>1, <1>2 DEF RequestsHaveUsers, UserOf

\* Writing one account keeps the table a table.
LEMMA RowWritten ==
  ASSUME RowsTyped, NEW u \in AccountUsers, NEW entry \in AccountRows, account' = [account EXCEPT ![u] = entry]
  PROVE  RowsTyped'
  BY DEF RowsTyped

\* addClient and detachClient: so does writing the online column.
LEMMA OnlineWritten ==
  ASSUME RowsTyped, NEW u \in AccountUsers, NEW b \in BOOLEAN, account' = [account EXCEPT ![u].online = b]
  PROVE  /\ RowsTyped' /\ account'[u].online = b
         /\ \A v \in AccountUsers \ {u} : account'[v] = account[v]
<1>1. account[u] \in AccountRows
  BY DEF RowsTyped
<1>2. [account[u] EXCEPT !.online = b] \in AccountRows /\ [account[u] EXCEPT !.online = b].online = b
  BY <1>1 DEF AccountRows
<1>3. account' = [account EXCEPT ![u] = [account[u] EXCEPT !.online = b]]
  BY DEF RowsTyped
<1> QED BY <1>2, <1>3 DEF RowsTyped

\* Steps of connections keep the types.
LEMMA ConnectionTypes ==
  ASSUME AccountsTypeInv, NEW c \in Connections,
         \/ PumpStep(c) \/ DetachClient(c) \/ CloseUnauthenticated(c) \/ BeginEdit(c)
         \/ \E u \in AccountUsers : Auth(c, u) \/ BeginRegister(c, u)
  PROVE  AccountsTypeInv'
<1>0. /\ ConnectionsTyped /\ AdminsTyped /\ RowsTyped /\ CountsTyped /\ RegistryTyped /\ RequestsHaveUsers
  BY TypeParts
<1>u. connection[c].pc \notin {"new", "gone"} => UserOf(c) \in AccountUsers
  BY <1>0 DEF RequestsHaveUsers
<1>e. NoAccountRow \in AccountRows /\ connection[c].row \in AccountRows
  BY <1>0, RowsAreRows DEF ConnectionsTyped, ConnectionRecord
<1>1. CASE CreateOnAuth(c)
  <2>1. ConnectionsTyped' /\ RequestsHaveUsers'
    BY <1>1, <1>u, ConnectionEffects, UsersStayKnown DEF CreateOnAuth
  <2>2. RowsTyped' /\ RegistryTyped'
    BY <1>0, <1>1, <1>u, RowsAreRows, RowWritten DEF CreateOnAuth, SetForeignUser, SetUser, RegistryTyped
  <2> QED BY <1>0, <1>1, <2>1, <2>2, TypePartsNext DEF CreateOnAuth, AdminsTyped, CountsTyped
<1>2. CASE AddClient(c)
  <2>1. ConnectionsTyped' /\ RequestsHaveUsers'
    <3>1. UserOf(c) \in AccountUsers /\ admin' = admin
      BY <1>2, <1>u DEF AddClient
    <3> QED BY <1>2, <3>1, ConnectionEffects, UsersStayKnown
  <2>2. RowsTyped'
    BY <1>0, <1>2, <1>u, OnlineWritten DEF AddClient, RowsTyped
  <2>3. RegistryTyped'
    BY <1>0, <1>2, <1>u DEF AddClient, RegistryTyped
  <2> QED BY <1>0, <1>2, <2>1, <2>2, <2>3, TypePartsNext DEF AddClient, AdminsTyped, CountsTyped
<1>3. CASE NotifyOnline(c)
  <2>1. ConnectionsTyped' /\ RequestsHaveUsers'
    BY <1>3, <1>u, ConnectionEffects, UsersStayKnown DEF NotifyOnline
  <2>2. notices' \in [AccountUsers -> [on : Nat, off : Nat]]
    BY <1>0, <1>3, <1>u DEF NotifyOnline, CountsTyped
  <2> QED BY <1>0, <1>3, <2>1, <2>2, TypePartsNext DEF NotifyOnline, AdminsTyped, CountsTyped, RowsTyped, RegistryTyped
<1>4. CASE DetachClient(c)
  <2>1. ConnectionsTyped' /\ RequestsHaveUsers'
    <3>1. UserOf(c) \in AccountUsers /\ admin' = admin
      BY <1>4, <1>u DEF DetachClient
    <3> QED BY <1>4, <3>1, ConnectionEffects, UsersStayKnown
  <2>2. RowsTyped'
    BY <1>0, <1>4, <1>u, OnlineWritten DEF DetachClient, RowsTyped
  <2>3. RegistryTyped'
    BY <1>0, <1>4, <1>u DEF DetachClient, RegistryTyped
  <2> QED BY <1>0, <1>4, <2>1, <2>2, <2>3, TypePartsNext DEF DetachClient, AdminsTyped, CountsTyped
<1>5. CASE CloseUnauthenticated(c)
  <2>1. ConnectionsTyped' /\ RequestsHaveUsers'
    BY <1>5, ConnectionEffects, UsersStayKnown DEF CloseUnauthenticated
  <2> QED BY <1>0, <1>5, <2>1, TypePartsNext
          DEF CloseUnauthenticated, AdminsTyped, CountsTyped, RowsTyped, RegistryTyped
<1>6. CASE NotifyOffline(c)
  <2>1. ConnectionsTyped' /\ RequestsHaveUsers'
    BY <1>6, ConnectionEffects, UsersStayKnown DEF NotifyOffline
  <2>2. notices' \in [AccountUsers -> [on : Nat, off : Nat]]
    BY <1>0, <1>6, <1>u DEF NotifyOffline, CountsTyped
  <2> QED BY <1>0, <1>6, <2>1, <2>2, TypePartsNext DEF NotifyOffline, AdminsTyped, CountsTyped, RowsTyped, RegistryTyped
<1>7. CASE CommitRegister(c)
  <2>1. ConnectionsTyped' /\ RequestsHaveUsers'
    BY <1>7, ConnectionEffects, UsersStayKnown DEF CommitRegister
  <2>2. RowsTyped' /\ RegistryTyped'
    BY <1>0, <1>7, <1>u, RowsAreRows, RowWritten DEF CommitRegister, SetForeignUser, SetUser, RegistryTyped
  <2> QED BY <1>0, <1>7, <2>1, <2>2, TypePartsNext DEF CommitRegister, AdminsTyped, CountsTyped
<1>8. CASE BeginEdit(c)
  <2>1. ConnectionsTyped' /\ RequestsHaveUsers'
    <3>1. UserOf(c) \in AccountUsers /\ admin' = admin
      BY <1>8, <1>u DEF BeginEdit
    <3>2. PICK entry : entry = [account[UserOf(c)] EXCEPT !.nickname = edits[UserOf(c)] + 1]
      OBVIOUS
    <3>3. ConnectionsTyped' /\ Becomes(c, "edit", UserOf(c), entry)
      BY <1>8, <3>2, ConnectionEffects
    <3> QED BY <3>1, <3>3, UsersStayKnown
  <2>2. edits' \in [AccountUsers -> 0..MaxEdits]
    BY <1>0, <1>8, <1>u, AccountsAssumption DEF BeginEdit, CountsTyped
  <2> QED BY <1>0, <1>8, <2>1, <2>2, TypePartsNext DEF BeginEdit, AdminsTyped, CountsTyped, RowsTyped, RegistryTyped
<1>9. CASE CommitEdit(c)
  <2>1. ConnectionsTyped' /\ RequestsHaveUsers'
    BY <1>9, <1>u, ConnectionEffects, UsersStayKnown DEF CommitEdit
  <2>2. RowsTyped'
    BY <1>0, <1>9, <1>u, <1>e, RowWritten DEF CommitEdit, SetUser
  <2> QED BY <1>0, <1>9, <2>1, <2>2, TypePartsNext DEF CommitEdit, AdminsTyped, CountsTyped, RegistryTyped
<1>10. ASSUME NEW u \in AccountUsers, Auth(c, u) PROVE AccountsTypeInv'
  <2>1. ConnectionsTyped' /\ RequestsHaveUsers'
    <3>1. admin' = admin
      BY <1>10 DEF Auth
    <3> QED BY <1>10, <3>1, ConnectionEffects, UsersStayKnown
  <2> QED BY <1>0, <1>10, <2>1, TypePartsNext DEF Auth, AdminsTyped, CountsTyped, RowsTyped, RegistryTyped
<1>11. ASSUME NEW u \in AccountUsers, BeginRegister(c, u) PROVE AccountsTypeInv'
  <2>1. ConnectionsTyped' /\ RequestsHaveUsers'
    <3>1. admin' = admin
      BY <1>11 DEF BeginRegister
    <3> QED BY <1>11, <3>1, ConnectionEffects, UsersStayKnown
  <2> QED BY <1>0, <1>11, <2>1, TypePartsNext DEF BeginRegister, AdminsTyped, CountsTyped, RowsTyped, RegistryTyped
<1> QED BY <1>1, <1>2, <1>3, <1>4, <1>5, <1>6, <1>7, <1>8, <1>9, <1>10, <1>11 DEF PumpStep

\* The admin server's requests: one of them changes, to a record of its type.
LEMMA AdminStep ==
  ASSUME AdminsTyped, RequestsHaveUsers, NEW a \in Admins, NEW r \in AdminRecord,
         r.pc # "idle" => r.user \in AccountUsers,
         admin' = [admin EXCEPT ![a] = r], connection' = connection
  PROVE  AdminsTyped' /\ RequestsHaveUsers'
<1>1. AdminsTyped' /\ admin'[a] = r /\ \A b \in Admins \ {a} : admin'[b] = admin[b]
  BY DEF AdminsTyped
<1> QED BY <1>1 DEF RequestsHaveUsers, UserOf

\* Steps of the admin server keep the types.
LEMMA AdminTypes ==
  ASSUME AccountsTypeInv, NEW a \in Admins,
         \/ AdminSetNickname(a) \/ AdminSetPassword(a) \/ AdminRevokeSessions(a)
         \/ \E u \in AccountUsers : AdminReadForNickname(a, u) \/ AdminReadForReset(a, u)
  PROVE  AccountsTypeInv'
<1>0. /\ ConnectionsTyped /\ AdminsTyped /\ RowsTyped /\ CountsTyped /\ RegistryTyped /\ RequestsHaveUsers
  BY TypeParts
<1>a. admin[a] \in AdminRecord
  BY <1>0 DEF AdminsTyped
<1>b. /\ admin[a].row \in AccountRows /\ admin[a].original \in Nat
      /\ admin[a].pc # "idle" => admin[a].user \in AccountUsers
  BY <1>0, <1>a DEF AdminRecord, RequestsHaveUsers
<1>i. IdleAdmin.pc = "idle"
  BY DEF IdleAdmin
<1>1. CASE AdminSetNickname(a)
  <2>1. AdminsTyped' /\ RequestsHaveUsers'
    BY <1>0, <1>1, <1>i, FreshTyped, AdminStep DEF AdminSetNickname
  <2>2. RowsTyped' /\ RegistryTyped'
    BY <1>0, <1>1, <1>b, RowWritten DEF AdminSetNickname, SetForeignUser, SetUser, RegistryTyped
  <2> QED BY <1>0, <1>1, <2>1, <2>2, TypePartsNext DEF AdminSetNickname, ConnectionsTyped, CountsTyped
<1>2. CASE AdminSetPassword(a)
  <2> DEFINE r == [admin[a] EXCEPT !.pc = "revoke"]
  <2>0. admin' = [admin EXCEPT ![a] = r] /\ connection' = connection
    BY <1>0, <1>2 DEF AdminSetPassword, AdminsTyped
  <2>1. r \in AdminRecord /\ r.user = admin[a].user
    BY <1>a DEF AdminRecord, AdminSteps
  <2>2. r.user \in AccountUsers
    BY <1>2, <1>b, <2>1 DEF AdminSetPassword
  <2> HIDE DEF r
  <2>3. AdminsTyped' /\ RequestsHaveUsers'
    BY <1>0, <2>0, <2>1, <2>2, AdminStep
  <2>4. RowsTyped' /\ RegistryTyped'
    BY <1>0, <1>2, <1>b, RowWritten DEF AdminSetPassword, SetForeignUser, SetUser, RegistryTyped
  <2> QED BY <1>0, <1>2, <2>3, <2>4, TypePartsNext DEF AdminSetPassword, ConnectionsTyped, CountsTyped
<1>3. CASE AdminRevokeSessions(a)
  <2>1. AdminsTyped' /\ RequestsHaveUsers'
    BY <1>0, <1>3, <1>i, FreshTyped, AdminStep DEF AdminRevokeSessions
  <2>2. RowsTyped' /\ RegistryTyped'
    <3>1. CASE UNCHANGED <<account, foreign>>
      BY <1>0, <1>3, <3>1 DEF AdminRevokeSessions, RowsTyped, RegistryTyped
    <3>2. CASE SetForeignUser(admin[a].user, [admin[a].row EXCEPT !.password = admin[a].original])
      <4>1. [admin[a].row EXCEPT !.password = admin[a].original] \in AccountRows /\ admin[a].user \in AccountUsers
        BY <1>3, <1>b, RowsAreRows DEF AdminRevokeSessions
      <4> QED BY <1>0, <1>3, <3>2, <4>1, RowWritten DEF AdminRevokeSessions, SetForeignUser, SetUser, RegistryTyped
    <3> QED BY <1>3, <3>1, <3>2 DEF AdminRevokeSessions
  <2> QED BY <1>0, <1>3, <2>1, <2>2, TypePartsNext DEF AdminRevokeSessions, ConnectionsTyped, CountsTyped
<1>4. ASSUME NEW u \in AccountUsers, AdminReadForNickname(a, u) PROVE AccountsTypeInv'
  <2> DEFINE entry == [account[u] EXCEPT !.nickname = edits[u] + 1]
             r == [IdleAdmin EXCEPT !.pc = "nickname", !.user = u, !.row = entry]
  <2>1. entry \in AccountRows
    <3>1. account[u] \in AccountRows /\ edits[u] + 1 \in Nat
      BY <1>0 DEF RowsTyped, CountsTyped
    <3> QED BY <3>1, RowsAreRows
  <2>2. admin' = [admin EXCEPT ![a] = r] /\ connection' = connection
    BY <1>4 DEF AdminReadForNickname
  <2> HIDE DEF entry
  <2>3. r \in AdminRecord /\ r.user = u
    BY <2>1, FreshTyped DEF AdminRecord, AdminSteps
  <2> HIDE DEF r
  <2>4. AdminsTyped' /\ RequestsHaveUsers'
    BY <1>0, <2>2, <2>3, AdminStep
  <2>5. edits' \in [AccountUsers -> 0..MaxEdits]
    <3>1. edits' = [edits EXCEPT ![u] = edits[u] + 1] /\ edits[u] < MaxEdits
      BY <1>4 DEF AdminReadForNickname
    <3> QED BY <1>0, <3>1, AccountsAssumption DEF CountsTyped
  <2> QED BY <1>0, <1>4, <2>4, <2>5, TypePartsNext
          DEF AdminReadForNickname, ConnectionsTyped, CountsTyped, RowsTyped, RegistryTyped
<1>5. ASSUME NEW u \in AccountUsers, AdminReadForReset(a, u) PROVE AccountsTypeInv'
  <2> DEFINE entry == [account[u] EXCEPT !.password = resets[u] + 1]
             r == [pc |-> "password", user |-> u, row |-> entry, original |-> account[u].password]
  <2>1. entry \in AccountRows /\ account[u].password \in Nat
    <3>1. account[u] \in AccountRows /\ resets[u] + 1 \in Nat
      BY <1>0 DEF RowsTyped, CountsTyped
    <3> QED BY <3>1, RowsAreRows DEF AccountRows
  <2>2. admin' = [admin EXCEPT ![a] = r] /\ connection' = connection
    BY <1>5 DEF AdminReadForReset
  <2> HIDE DEF entry
  <2>3. r \in AdminRecord /\ r.user = u
    BY <2>1 DEF AdminRecord, AdminSteps
  <2> HIDE DEF r
  <2>4. AdminsTyped' /\ RequestsHaveUsers'
    BY <1>0, <2>2, <2>3, AdminStep
  <2>5. resets' \in [AccountUsers -> 0..MaxResets]
    <3>1. resets' = [resets EXCEPT ![u] = resets[u] + 1] /\ resets[u] < MaxResets
      BY <1>5 DEF AdminReadForReset
    <3> QED BY <1>0, <3>1, AccountsAssumption DEF CountsTyped
  <2> QED BY <1>0, <1>5, <2>4, <2>5, TypePartsNext
          DEF AdminReadForReset, ConnectionsTyped, CountsTyped, RowsTyped, RegistryTyped
<1> QED BY <1>1, <1>2, <1>3, <1>4, <1>5

\* A restart leaves well-formed connections and requests behind.
LEMMA RestartTypes ==
  ASSUME AccountsTypeInv, Restart
  PROVE  AccountsTypeInv'
<1>0. /\ RowsTyped /\ CountsTyped /\ RegistryTyped
  BY TypeParts
<1>1. ConnectionsTyped' /\ AdminsTyped' /\ RequestsHaveUsers'
  <2>1. /\ connection' = [c \in Connections |-> FreshConnection] /\ admin' = [a \in Admins |-> IdleAdmin]
        /\ FreshConnection.pc = "new" /\ IdleAdmin.pc = "idle"
    BY DEF Restart, FreshConnection, IdleAdmin
  <2>2. ConnectionsTyped' /\ AdminsTyped'
    BY <2>1, FreshTyped, Zenon DEF ConnectionsTyped, AdminsTyped
  <2>3. \A c \in Connections : connection'[c].pc = "new"
    BY <2>1, Zenon
  <2>4. \A a \in Admins : admin'[a].pc = "idle"
    BY <2>1, Zenon
  <2> QED BY <2>2, <2>3, <2>4 DEF RequestsHaveUsers
<1>2. RegistryTyped' /\ RowsTyped'
  BY <1>0 DEF Restart, RegistryTyped, RowsTyped
<1>3. CountsTyped'
  BY <1>0, AccountsAssumption DEF Restart, CountsTyped, NoNotice
<1> QED BY <1>1, <1>2, <1>3, TypePartsNext

\* Every step keeps the types.
LEMMA TypeStep == AccountsTypeInv /\ [AccountsNext]_accountVars => AccountsTypeInv'
<1> SUFFICES ASSUME AccountsTypeInv, [AccountsNext]_accountVars PROVE AccountsTypeInv'
  OBVIOUS
<1>1. CASE UNCHANGED accountVars
  BY <1>1 DEF accountVars, AccountsTypeInv, AccountsTypeOK, RequestsHaveUsers, UserOf
<1>2. CASE AccountsNext
  BY <1>2, ConnectionTypes, AdminTypes, RestartTypes DEF AccountsNext
<1> QED BY <1>1, <1>2

-----------------------------------------------------------------------------
(* The registry *)

AttachedSteps == {"online", "ready", "edit"}

\* A connection that stays attached to its account, or stays unattached.
LEMMA RegistryKept ==
  ASSUME AccountsTypeInv, RegistryIsExact, NEW c \in Connections, NEW pc, NEW u, NEW entry, Becomes(c, pc, u, entry),
         clients' = clients, pc \in AttachedSteps <=> Attached(c), Attached(c) => u = UserOf(c)
  PROVE  RegistryIsExact'
<1>1. ASSUME NEW v \in AccountUsers, NEW d \in Connections
      PROVE  (Attached(d) /\ UserOf(d) = v) <=> (connection'[d].pc \in AttachedSteps /\ connection'[d].user = v)
  <2>1. CASE d = c
    BY <2>1 DEF Becomes, Attached, UserOf, AttachedSteps
  <2>2. CASE d # c
    BY <2>2 DEF Becomes, Attached, UserOf, AttachedSteps
  <2> QED BY <2>1, <2>2
<1> QED BY <1>1 DEF RegistryIsExact, Attached, UserOf, AttachedSteps

\* addClient
LEMMA RegistryGrows ==
  ASSUME AccountsTypeInv, RegistryIsExact, NEW c \in Connections, NEW pc \in AttachedSteps, NEW u \in AccountUsers, NEW entry,
         Becomes(c, pc, u, entry), clients' = [clients EXCEPT ![u] = @ \cup {c}], ~Attached(c)
  PROVE  RegistryIsExact'
<1>0. clients \in [AccountUsers -> SUBSET Connections]
  BY DEF AccountsTypeInv, AccountsTypeOK
<1>1. ASSUME NEW v \in AccountUsers
      PROVE  clients'[v] = {d \in Connections : connection'[d].pc \in AttachedSteps /\ connection'[d].user = v}
  <2>1. ASSUME NEW d \in Connections PROVE d \in clients'[v] <=> (connection'[d].pc \in AttachedSteps /\ connection'[d].user = v)
    <3>1. d \in clients[v] <=> (Attached(d) /\ UserOf(d) = v)
      BY DEF RegistryIsExact
    <3>2. CASE d = c
      BY <1>0, <3>1, <3>2 DEF Becomes, Attached, UserOf, AttachedSteps
    <3>3. CASE d # c
      BY <1>0, <3>1, <3>3 DEF Becomes, Attached, UserOf, AttachedSteps
    <3> QED BY <3>2, <3>3
  <2>2. clients'[v] \subseteq Connections
    BY <1>0
  <2> QED BY <2>1, <2>2
<1> QED BY <1>1 DEF RegistryIsExact, Attached, UserOf, AttachedSteps

\* detachClient
LEMMA RegistryShrinks ==
  ASSUME AccountsTypeInv, RegistryIsExact, NEW c \in Connections, NEW pc, NEW u \in AccountUsers, NEW entry,
         Becomes(c, pc, u, entry), clients' = [clients EXCEPT ![u] = @ \ {c}], pc \notin AttachedSteps, u = UserOf(c)
  PROVE  RegistryIsExact'
<1>0. clients \in [AccountUsers -> SUBSET Connections]
  BY DEF AccountsTypeInv, AccountsTypeOK
<1>1. ASSUME NEW v \in AccountUsers
      PROVE  clients'[v] = {d \in Connections : connection'[d].pc \in AttachedSteps /\ connection'[d].user = v}
  <2>1. ASSUME NEW d \in Connections PROVE d \in clients'[v] <=> (connection'[d].pc \in AttachedSteps /\ connection'[d].user = v)
    <3>1. d \in clients[v] <=> (Attached(d) /\ UserOf(d) = v)
      BY DEF RegistryIsExact
    <3>2. CASE d = c
      BY <1>0, <3>1, <3>2 DEF Becomes, Attached, UserOf, AttachedSteps
    <3>3. CASE d # c
      BY <1>0, <3>1, <3>3 DEF Becomes, Attached, UserOf, AttachedSteps
    <3> QED BY <3>2, <3>3
  <2>2. clients'[v] \subseteq Connections
    BY <1>0
  <2> QED BY <2>1, <2>2
<1> QED BY <1>1 DEF RegistryIsExact, Attached, UserOf, AttachedSteps

\* No step makes the registry and the connections disagree.
LEMMA RegistryStep ==
  ASSUME AccountsTypeInv, RegistryIsExact, [AccountsNext]_accountVars
  PROVE  RegistryIsExact'
<1> USE DEF Attached, AttachedSteps
<1>u. \A c \in Connections : connection[c].pc \notin {"new", "gone"} => UserOf(c) \in AccountUsers
  BY DEF AccountsTypeInv, RequestsHaveUsers
<1>1. ASSUME NEW c \in Connections, PumpStep(c) \/ DetachClient(c) \/ CloseUnauthenticated(c) \/ BeginEdit(c)
      PROVE  RegistryIsExact'
  <2>1. CASE CreateOnAuth(c)
    BY <2>1, ConnectionEffects, RegistryKept DEF CreateOnAuth
  <2>2. CASE AddClient(c)
    <3>1. PICK pc \in AttachedSteps : Becomes(c, pc, UserOf(c), connection[c].row)
      BY <2>2, ConnectionEffects
    <3> QED BY <1>u, <2>2, <3>1, RegistryGrows DEF AddClient
  <2>3. CASE NotifyOnline(c)
    BY <2>3, ConnectionEffects, RegistryKept DEF NotifyOnline
  <2>4. CASE DetachClient(c)
    <3>1. PICK pc \in {"offline", "gone"} : Becomes(c, pc, UserOf(c), connection[c].row)
      BY <2>4, ConnectionEffects
    <3> QED BY <1>u, <2>4, <3>1, RegistryShrinks DEF DetachClient
  <2>5. CASE CloseUnauthenticated(c)
    BY <2>5, ConnectionEffects, RegistryKept DEF CloseUnauthenticated
  <2>6. CASE NotifyOffline(c)
    BY <2>6, ConnectionEffects, RegistryKept DEF NotifyOffline
  <2>7. CASE CommitRegister(c)
    BY <2>7, ConnectionEffects, RegistryKept DEF CommitRegister
  <2>8. CASE BeginEdit(c)
    <3>1. PICK entry : Becomes(c, "edit", UserOf(c), entry)
      BY <2>8, ConnectionEffects
    <3> QED BY <2>8, <3>1, RegistryKept DEF BeginEdit
  <2>9. CASE CommitEdit(c)
    BY <2>9, ConnectionEffects, RegistryKept DEF CommitEdit
  <2> QED BY <1>1, <2>1, <2>2, <2>3, <2>4, <2>5, <2>6, <2>7, <2>8, <2>9 DEF PumpStep
<1>2. ASSUME NEW c \in Connections, NEW u \in AccountUsers, Auth(c, u) PROVE RegistryIsExact'
  <2>1. PICK pc \in {"attach", "create"} : Becomes(c, pc, u, connection[c].row)
    BY <1>2, ConnectionEffects
  <2> QED BY <1>2, <2>1, RegistryKept DEF Auth
<1>3. ASSUME NEW c \in Connections, NEW u \in AccountUsers, BeginRegister(c, u) PROVE RegistryIsExact'
  BY <1>3, ConnectionEffects, RegistryKept DEF BeginRegister
<1>4. ASSUME connection' = connection, clients' = clients PROVE RegistryIsExact'
  BY <1>4 DEF RegistryIsExact, UserOf
<1>5. ASSUME NEW a \in Admins,
             \/ AdminSetNickname(a) \/ AdminSetPassword(a) \/ AdminRevokeSessions(a)
             \/ \E u \in AccountUsers : AdminReadForNickname(a, u) \/ AdminReadForReset(a, u)
      PROVE  RegistryIsExact'
  BY <1>4, <1>5 DEF AdminSetNickname, AdminSetPassword, AdminRevokeSessions, AdminReadForNickname, AdminReadForReset
<1>6. CASE Restart
  BY <1>6 DEF Restart, RegistryIsExact, FreshConnection, UserOf
<1>7. CASE UNCHANGED accountVars
  BY <1>4, <1>7 DEF accountVars
<1> QED BY <1>1, <1>2, <1>3, <1>5, <1>6, <1>7 DEF AccountsNext

-----------------------------------------------------------------------------
(* The notices to friends *)

\* The two sides of EveryTransitionAnnounced for one account.
Balanced(u) ==
    notices[u].on + Announcing(u, "online")
        = notices[u].off + Announcing(u, "offline") + (IF clients[u] = {} THEN 0 ELSE 1)

\* A step of a connection that neither announces anything nor has something
\* to announce before or after it.
LEMMA SilentStep ==
  ASSUME EveryTransitionAnnounced, NEW c \in Connections, NEW pc, NEW u, NEW entry, Becomes(c, pc, u, entry),
         connection[c].pc \notin {"online", "offline"}, pc \notin {"online", "offline"},
         notices' = notices, \A v \in AccountUsers : clients'[v] = {} <=> clients[v] = {}
  PROVE  EveryTransitionAnnounced'
<1> SUFFICES ASSUME NEW v \in AccountUsers PROVE Balanced(v)'
  BY DEF EveryTransitionAnnounced, Balanced
<1>0. Balanced(v)
  BY DEF EveryTransitionAnnounced, Balanced
<1>1. \A d \in Connections \ {c} : connection'[d] = connection[d]
  BY DEF Becomes
<1>2. ~Counts(c, v, "online") /\ ~Counts(c, v, "offline") /\ ~Counts(c, v, "online")' /\ ~Counts(c, v, "offline")'
  BY DEF Counts, Becomes
<1>3. Announcing(v, "online") \in Nat /\ Announcing(v, "offline") \in Nat
  BY AnnouncingIsFinite, Zenon
<1>4. Announcing(v, "online")' = Announcing(v, "online") - One(Counts(c, v, "online")) + One(Counts(c, v, "online")')
  BY <1>1, OneMoves, Zenon
<1>5. Announcing(v, "offline")' = Announcing(v, "offline") - One(Counts(c, v, "offline")) + One(Counts(c, v, "offline")')
  BY <1>1, OneMoves, Zenon
<1>6. Announcing(v, "online")' = Announcing(v, "online") /\ Announcing(v, "offline")' = Announcing(v, "offline")
  BY <1>2, <1>3, <1>4, <1>5 DEF One
<1> QED BY <1>0, <1>6 DEF Balanced

\* The counts of another account than the one whose connection moves.
LEMMA OthersCount ==
  ASSUME NEW c \in Connections, NEW pc, NEW u, NEW entry, Becomes(c, pc, u, entry), u = UserOf(c),
         NEW v, v # u, NEW p
  PROVE  Announcing(v, p)' = Announcing(v, p)
<1>1. \A d \in Connections \ {c} : connection'[d] = connection[d]
  BY DEF Becomes
<1>2. Announcing(v, p)' = Announcing(v, p) - One(Counts(c, v, p)) + One(Counts(c, v, p)')
  BY <1>1, OneMoves, Zenon
<1>3. Announcing(v, p) \in Nat
  BY AnnouncingIsFinite, Zenon
<1>4. ~Counts(c, v, p) /\ ~Counts(c, v, p)'
  BY DEF Counts, Becomes, UserOf
<1> QED BY <1>2, <1>3, <1>4 DEF One

\* The counts of the account whose connection moves.
LEMMA OwnCount ==
  ASSUME NEW c \in Connections, NEW pc, NEW u, NEW entry, Becomes(c, pc, u, entry), u = UserOf(c), NEW p
  PROVE  Announcing(u, p)' = Announcing(u, p) - One(connection[c].pc = p) + One(pc = p)
<1>1. \A d \in Connections \ {c} : connection'[d] = connection[d]
  BY DEF Becomes
<1>2. Announcing(u, p)' = Announcing(u, p) - One(Counts(c, u, p)) + One(Counts(c, u, p)')
  BY <1>1, OneMoves, Zenon
<1>3. (Counts(c, u, p) <=> connection[c].pc = p) /\ (Counts(c, u, p)' <=> pc = p)
  BY DEF Counts, Becomes, UserOf
<1> QED BY <1>2, <1>3 DEF One

\* A step of a connection of account u that goes from one place to another:
\* only the sums of u have to be looked at.
LEMMA AnnouncingStep ==
  ASSUME EveryTransitionAnnounced, NEW c \in Connections, NEW pc, NEW u, NEW entry, Becomes(c, pc, u, entry),
         u = UserOf(c),
         \A v \in AccountUsers \ {u} : notices'[v] = notices[v] /\ clients'[v] = clients[v],
         u \in AccountUsers => Balanced(u)'
  PROVE  EveryTransitionAnnounced'
<1>1. ASSUME NEW v \in AccountUsers \ {u} PROVE Balanced(v)'
  <2>1. Balanced(v)
    BY DEF EveryTransitionAnnounced, Balanced
  <2>2. Announcing(v, "online")' = Announcing(v, "online") /\ Announcing(v, "offline")' = Announcing(v, "offline")
    <3>1. v # u
      OBVIOUS
    <3> QED BY <3>1, OthersCount
  <2> QED BY <2>1, <2>2 DEF Balanced
<1> QED BY <1>1 DEF EveryTransitionAnnounced, Balanced

\* Every step keeps the notices balanced with the registry.
LEMMA NoticesStep ==
  ASSUME AccountsTypeInv, RegistryIsExact, EveryTransitionAnnounced, [AccountsNext]_accountVars
  PROVE  EveryTransitionAnnounced'
<1>t. /\ clients \in [AccountUsers -> SUBSET Connections]
      /\ notices \in [AccountUsers -> [on : Nat, off : Nat]]
  BY DEF AccountsTypeInv, AccountsTypeOK
<1>u. \A c \in Connections : connection[c].pc \notin {"new", "gone"} => UserOf(c) \in AccountUsers
  BY DEF AccountsTypeInv, RequestsHaveUsers
<1>n. \A u, p : Announcing(u, p) \in Nat
  BY AnnouncingIsFinite, Zenon
<1>b. \A u \in AccountUsers : Balanced(u)
  BY DEF EveryTransitionAnnounced, Balanced
<1>1. ASSUME NEW c \in Connections, AddClient(c) PROVE EveryTransitionAnnounced'
  <2>u. PICK u : u = UserOf(c)
    OBVIOUS
  <2>0. u \in AccountUsers /\ connection[c].pc = "attach" /\ notices' = notices
        /\ clients' = [clients EXCEPT ![u] = @ \cup {c}]
    BY <1>1, <1>u, <2>u DEF AddClient
  <2>1. PICK pc : pc = (IF clients[u] = {} THEN "online" ELSE "ready") /\ Becomes(c, pc, u, connection[c].row)
    BY <1>1, <2>u, ConnectionEffects
  <2>2. Announcing(u, "online")' = Announcing(u, "online") - One(connection[c].pc = "online") + One(pc = "online")
    BY <2>u, <2>1, OwnCount
  <2>3. Announcing(u, "offline")' = Announcing(u, "offline") - One(connection[c].pc = "offline") + One(pc = "offline")
    BY <2>u, <2>1, OwnCount
  <2>4. clients'[u] # {} /\ \A v \in AccountUsers \ {u} : notices'[v] = notices[v] /\ clients'[v] = clients[v]
    BY <1>t, <2>0
  <2>5. Balanced(u)'
    <3>1. CASE clients[u] = {}
      <4>1. Announcing(u, "online")' = Announcing(u, "online") + 1 /\ Announcing(u, "offline")' = Announcing(u, "offline")
        BY <1>n, <2>0, <2>1, <2>2, <2>3, <3>1 DEF One
      <4> QED BY <1>b, <1>n, <1>t, <2>0, <2>4, <3>1, <4>1 DEF Balanced
    <3>2. CASE clients[u] # {}
      <4>1. Announcing(u, "online")' = Announcing(u, "online") /\ Announcing(u, "offline")' = Announcing(u, "offline")
        BY <1>n, <2>0, <2>1, <2>2, <2>3, <3>2 DEF One
      <4> QED BY <1>b, <1>n, <1>t, <2>0, <2>4, <3>2, <4>1 DEF Balanced
    <3> QED BY <3>1, <3>2
  <2> QED BY <2>1, <2>4, <2>5, AnnouncingStep, <2>u
<1>2. ASSUME NEW c \in Connections, NotifyOnline(c) PROVE EveryTransitionAnnounced'
  <2>u. PICK u : u = UserOf(c)
    OBVIOUS
  <2>0. u \in AccountUsers /\ connection[c].pc = "online" /\ clients' = clients
        /\ notices' = [notices EXCEPT ![u].on = @ + 1]
    BY <1>2, <1>u, <2>u DEF NotifyOnline
  <2>1. Becomes(c, "ready", u, connection[c].row)
    BY <1>2, <2>u, ConnectionEffects
  <2>2. Announcing(u, "online")' = Announcing(u, "online") - One(connection[c].pc = "online") + One("ready" = "online")
    BY <2>u, <2>1, OwnCount
  <2>3. Announcing(u, "offline")' = Announcing(u, "offline") - One(connection[c].pc = "offline") + One("ready" = "offline")
    BY <2>u, <2>1, OwnCount
  <2>4. Announcing(u, "online")' = Announcing(u, "online") - 1 /\ Announcing(u, "offline")' = Announcing(u, "offline")
    BY <1>n, <2>0, <2>2, <2>3 DEF One
  <2>5. notices'[u].on = notices[u].on + 1 /\ notices'[u].off = notices[u].off
        /\ notices[u].on \in Nat /\ notices[u].off \in Nat
        /\ \A v \in AccountUsers \ {u} : notices'[v] = notices[v]
    BY <1>t, <2>0
  <2>6. Balanced(u)'
    BY <1>b, <1>n, <2>0, <2>4, <2>5 DEF Balanced
  <2> QED BY <2>0, <2>1, <2>5, <2>6, AnnouncingStep, <2>u
<1>3. ASSUME NEW c \in Connections, DetachClient(c) PROVE EveryTransitionAnnounced'
  <2>u. PICK u : u = UserOf(c)
    OBVIOUS
  <2>0. u \in AccountUsers /\ connection[c].pc = "ready" /\ notices' = notices
        /\ clients' = [clients EXCEPT ![u] = @ \ {c}]
    BY <1>3, <1>u, <2>u DEF DetachClient
  <2>1. PICK pc : pc = (IF clients[u] = {c} THEN "offline" ELSE "gone") /\ Becomes(c, pc, u, connection[c].row)
    BY <1>3, <2>u, ConnectionEffects
  <2>2. Announcing(u, "online")' = Announcing(u, "online") - One(connection[c].pc = "online") + One(pc = "online")
    BY <2>u, <2>1, OwnCount
  <2>3. Announcing(u, "offline")' = Announcing(u, "offline") - One(connection[c].pc = "offline") + One(pc = "offline")
    BY <2>u, <2>1, OwnCount
  <2>4. /\ c \in clients[u] /\ clients'[u] = clients[u] \ {c}
        /\ \A v \in AccountUsers \ {u} : notices'[v] = notices[v] /\ clients'[v] = clients[v]
    BY <1>t, <2>u, <2>0 DEF RegistryIsExact, Attached
  <2>5. Balanced(u)'
    <3>1. CASE clients[u] = {c}
      <4>1. Announcing(u, "online")' = Announcing(u, "online") /\ Announcing(u, "offline")' = Announcing(u, "offline") + 1
        BY <1>n, <2>0, <2>1, <2>2, <2>3, <3>1 DEF One
      <4>2. clients[u] # {} /\ clients'[u] = {}
        BY <2>4, <3>1
      <4> QED BY <1>b, <1>n, <1>t, <2>0, <4>1, <4>2 DEF Balanced
    <3>2. CASE clients[u] # {c}
      <4>1. Announcing(u, "online")' = Announcing(u, "online") /\ Announcing(u, "offline")' = Announcing(u, "offline")
        BY <1>n, <2>0, <2>1, <2>2, <2>3, <3>2 DEF One
      <4>2. clients[u] # {} /\ clients'[u] # {}
        BY <2>4, <3>2
      <4> QED BY <1>b, <1>n, <1>t, <2>0, <4>1, <4>2 DEF Balanced
    <3> QED BY <3>1, <3>2
  <2> QED BY <2>1, <2>4, <2>5, AnnouncingStep, <2>u
<1>4. ASSUME NEW c \in Connections, NotifyOffline(c) PROVE EveryTransitionAnnounced'
  <2>u. PICK u : u = UserOf(c)
    OBVIOUS
  <2>0. u \in AccountUsers /\ connection[c].pc = "offline" /\ clients' = clients
        /\ notices' = [notices EXCEPT ![u].off = @ + 1]
    BY <1>4, <1>u, <2>u DEF NotifyOffline
  <2>1. Becomes(c, "gone", u, connection[c].row)
    BY <1>4, <2>u, ConnectionEffects
  <2>2. Announcing(u, "online")' = Announcing(u, "online") - One(connection[c].pc = "online") + One("gone" = "online")
    BY <2>u, <2>1, OwnCount
  <2>3. Announcing(u, "offline")' = Announcing(u, "offline") - One(connection[c].pc = "offline") + One("gone" = "offline")
    BY <2>u, <2>1, OwnCount
  <2>4. Announcing(u, "online")' = Announcing(u, "online") /\ Announcing(u, "offline")' = Announcing(u, "offline") - 1
    BY <1>n, <2>0, <2>2, <2>3 DEF One
  <2>5. notices'[u].off = notices[u].off + 1 /\ notices'[u].on = notices[u].on
        /\ notices[u].on \in Nat /\ notices[u].off \in Nat
        /\ \A v \in AccountUsers \ {u} : notices'[v] = notices[v]
    BY <1>t, <2>0
  <2>6. Balanced(u)'
    BY <1>b, <1>n, <2>0, <2>4, <2>5 DEF Balanced
  <2> QED BY <2>0, <2>1, <2>5, <2>6, AnnouncingStep, <2>u
<1>5. ASSUME NEW c \in Connections, CreateOnAuth(c) \/ CloseUnauthenticated(c) \/ CommitRegister(c) \/ BeginEdit(c) \/ CommitEdit(c)
      PROVE  EveryTransitionAnnounced'
  <2>1. connection[c].pc \notin {"online", "offline"} /\ notices' = notices /\ clients' = clients
    BY <1>5 DEF CreateOnAuth, CloseUnauthenticated, CommitRegister, BeginEdit, CommitEdit
  <2>2. PICK pc \in {"attach", "gone", "new", "edit", "ready"} : \E u, entry : Becomes(c, pc, u, entry)
    BY <1>5, ConnectionEffects
  <2> QED BY <2>1, <2>2, SilentStep
<1>6. ASSUME NEW c \in Connections, NEW u \in AccountUsers, Auth(c, u) \/ BeginRegister(c, u) PROVE EveryTransitionAnnounced'
  <2>1. connection[c].pc \notin {"online", "offline"} /\ notices' = notices /\ clients' = clients
    BY <1>6 DEF Auth, BeginRegister
  <2>2. PICK pc \in {"attach", "create", "register"} : \E entry : Becomes(c, pc, u, entry)
    BY <1>6, ConnectionEffects
  <2> QED BY <2>1, <2>2, SilentStep
<1>7. ASSUME connection' = connection, notices' = notices, clients' = clients PROVE EveryTransitionAnnounced'
  <2>1. \A u, p : Announcing(u, p)' = Announcing(u, p)
    BY <1>7, NoneMoves
  <2> QED BY <1>7, <2>1 DEF EveryTransitionAnnounced
<1>8. ASSUME NEW a \in Admins,
             \/ AdminSetNickname(a) \/ AdminSetPassword(a) \/ AdminRevokeSessions(a)
             \/ \E u \in AccountUsers : AdminReadForNickname(a, u) \/ AdminReadForReset(a, u)
      PROVE  EveryTransitionAnnounced'
  BY <1>7, <1>8 DEF AdminSetNickname, AdminSetPassword, AdminRevokeSessions, AdminReadForNickname, AdminReadForReset
<1>9. CASE Restart
  <2>1. \A u : \A pc \in {"online", "offline"} : AnnouncingIn(u, pc)' = {}
    BY <1>9 DEF Restart, AnnouncingIn, FreshConnection, UserOf
  <2>2. \A u : \A pc \in {"online", "offline"} : Announcing(u, pc)' = 0
    BY <2>1, FS_EmptySet DEF Announcing, AnnouncingIn
  <2> QED BY <1>9, <2>2 DEF Restart, EveryTransitionAnnounced, NoNotice
<1>10. CASE UNCHANGED accountVars
  BY <1>7, <1>10 DEF accountVars
<1> QED BY <1>1, <1>2, <1>3, <1>4, <1>5, <1>6, <1>8, <1>9, <1>10 DEF AccountsNext, PumpStep

-----------------------------------------------------------------------------
(* The online column *)

\* The columns of the invariant of one account and of one edit.
Matches(u) == u \notin foreign => (account[u].online <=> clients[u] # {})
Keeps(c) == connection[c].pc = "edit" /\ UserOf(c) \notin foreign => connection[c].row.online

\* The invariant of the rows, account by account and edit by edit.
LEMMA RowsParts ==
  /\ RowsInv => (\A u \in AccountUsers : Matches(u)) /\ (\A c \in Connections : Keeps(c))
  /\ (\A u \in AccountUsers : Matches(u)') /\ (\A c \in Connections : Keeps(c)') => RowsInv'
  BY DEF RowsInv, OnlineMatchesDevices, EditsKeepOnline, Matches, Keeps

\* A step that writes no row: foreign grows, the registry of the others and
\* their edits stay.
LEMMA RowsKept ==
  ASSUME AccountsTypeInv, RowsInv, foreign \subseteq foreign',
         \A u \in AccountUsers \ foreign' : account'[u].online = account[u].online /\ clients'[u] = clients[u],
         \A c \in Connections : connection'[c].pc = "edit" => connection'[c] = connection[c]
  PROVE  RowsInv'
<1>1. ASSUME NEW u \in AccountUsers PROVE Matches(u)'
  BY RowsParts DEF Matches
<1>2. ASSUME NEW c \in Connections PROVE Keeps(c)'
  BY RowsParts DEF Keeps, UserOf
<1> QED BY <1>1, <1>2, RowsParts

\* SetUser by somebody else.
LEMMA ForeignWrite ==
  ASSUME AccountsTypeInv, RowsInv, NEW u \in AccountUsers, NEW entry, SetForeignUser(u, entry), clients' = clients,
         \A c \in Connections : connection'[c].pc = "edit" => connection'[c] = connection[c]
  PROVE  RowsInv'
<1>1. \A v \in AccountUsers \ {u} : account'[v] = account[v]
  BY DEF SetForeignUser, SetUser, AccountsTypeInv, AccountsTypeOK
<1>2. foreign' = foreign \cup {u}
  BY DEF SetForeignUser
<1> QED BY <1>1, <1>2, RowsKept

\* No step makes the online column and the devices disagree.
LEMMA RowsStep ==
  ASSUME AccountsTypeInv, RegistryIsExact, RowsInv, [AccountsNext]_accountVars
  PROVE  RowsInv'
<1>t. account \in [AccountUsers -> AccountRows] /\ clients \in [AccountUsers -> SUBSET Connections]
  BY DEF AccountsTypeInv, AccountsTypeOK
<1>u. \A c \in Connections : connection[c].pc \notin {"new", "gone"} => UserOf(c) \in AccountUsers
  BY DEF AccountsTypeInv, RequestsHaveUsers
<1>a. \A a \in Admins : admin[a].pc # "idle" => admin[a].user \in AccountUsers
  BY DEF AccountsTypeInv, RequestsHaveUsers
<1>r. \A c \in Connections : connection[c].pc \in {"online", "ready", "edit"} => c \in clients[UserOf(c)]
  BY <1>u DEF RegistryIsExact, Attached
<1>p. (\A u \in AccountUsers : Matches(u)) /\ (\A c \in Connections : Keeps(c))
  BY RowsParts
<1>1. ASSUME NEW c \in Connections, CreateOnAuth(c) PROVE RowsInv'
  <2>1. \A d \in Connections : connection'[d].pc = "edit" => connection'[d] = connection[d]
    BY <1>1, ConnectionEffects DEF Becomes
  <2> QED BY <1>1, <1>u, <2>1, ForeignWrite DEF CreateOnAuth
<1>2. ASSUME NEW c \in Connections, CommitRegister(c) PROVE RowsInv'
  <2>1. \A d \in Connections : connection'[d].pc = "edit" => connection'[d] = connection[d]
    BY <1>2, ConnectionEffects DEF Becomes
  <2> QED BY <1>2, <1>u, <2>1, ForeignWrite DEF CommitRegister
<1>3. ASSUME NEW c \in Connections, AddClient(c) PROVE RowsInv'
  <2>u. PICK u : u = UserOf(c)
    OBVIOUS
  <2>0. u \in AccountUsers /\ clients' = [clients EXCEPT ![u] = @ \cup {c}]
    BY <1>3, <1>u, <2>u DEF AddClient
  <2>1. \A d \in Connections : connection'[d].pc = "edit" => connection'[d] = connection[d]
    BY <1>3, ConnectionEffects DEF Becomes
  <2>2. clients'[u] # {} /\ \A v \in AccountUsers \ {u} : clients'[v] = clients[v]
    BY <1>t, <2>0
  <2>3. CASE clients[u] = {}
    <3>1. account'[u].online = TRUE /\ \A v \in AccountUsers \ {u} : account'[v] = account[v]
      <4>1. account' = [account EXCEPT ![u].online = TRUE]
        BY <1>3, <2>u, <2>3 DEF AddClient
      <4> QED BY <2>0, <4>1, OnlineWritten, TypeParts
    <3>2. foreign' = foreign \ {u}
      BY <1>3, <2>u, <2>3 DEF AddClient
    <3>3. ASSUME NEW v \in AccountUsers PROVE Matches(v)'
      <4>1. CASE v = u
        BY <2>2, <3>1, <4>1 DEF Matches
      <4>2. CASE v # u
        BY <1>p, <2>2, <3>1, <3>2, <4>2 DEF Matches
      <4> QED BY <4>1, <4>2
    <3>4. ASSUME NEW d \in Connections PROVE Keeps(d)'
      <4>1. connection[d].pc = "edit" => UserOf(d) # u
        BY <1>r, <2>3
      <4> QED BY <1>p, <2>1, <3>2, <4>1 DEF Keeps, UserOf
    <3> QED BY <3>3, <3>4, RowsParts
  <2>4. CASE clients[u] # {}
    <3>1. account' = account /\ foreign' = foreign
      BY <1>3, <2>u, <2>4 DEF AddClient
    <3>2. ASSUME NEW v \in AccountUsers PROVE Matches(v)'
      BY <1>p, <2>2, <2>4, <3>1 DEF Matches
    <3>3. ASSUME NEW d \in Connections PROVE Keeps(d)'
      BY <1>p, <2>1, <3>1 DEF Keeps, UserOf
    <3> QED BY <3>2, <3>3, RowsParts
  <2> QED BY <2>3, <2>4
<1>4. ASSUME NEW c \in Connections, DetachClient(c) PROVE RowsInv'
  <2>u. PICK u : u = UserOf(c)
    OBVIOUS
  <2>0. u \in AccountUsers /\ clients' = [clients EXCEPT ![u] = @ \ {c}] /\ connection[c].pc = "ready"
    BY <1>4, <1>u, <2>u DEF DetachClient
  <2>1. \A d \in Connections : connection'[d].pc = "edit" => connection'[d] = connection[d]
    BY <1>4, ConnectionEffects DEF Becomes
  <2>2. c \in clients[u] /\ clients'[u] = clients[u] \ {c} /\ \A v \in AccountUsers \ {u} : clients'[v] = clients[v]
    BY <1>t, <1>r, <2>0, <2>u
  <2>3. CASE clients[u] = {c}
    <3>1. account'[u].online = FALSE /\ \A v \in AccountUsers \ {u} : account'[v] = account[v]
      <4>1. account' = [account EXCEPT ![u].online = FALSE]
        BY <1>4, <2>u, <2>3 DEF DetachClient
      <4> QED BY <2>0, <4>1, OnlineWritten, TypeParts
    <3>2. foreign' = foreign \ {u} /\ clients'[u] = {}
      BY <1>4, <2>u, <2>2, <2>3 DEF DetachClient
    <3>3. ASSUME NEW v \in AccountUsers PROVE Matches(v)'
      <4>1. CASE v = u
        BY <3>1, <3>2, <4>1 DEF Matches
      <4>2. CASE v # u
        BY <1>p, <2>2, <3>1, <3>2, <4>2 DEF Matches
      <4> QED BY <4>1, <4>2
    <3>4. ASSUME NEW d \in Connections PROVE Keeps(d)'
      <4>1. connection[d].pc = "edit" => UserOf(d) # u
        BY <1>r, <2>0, <2>3
      <4> QED BY <1>p, <2>1, <3>2, <4>1 DEF Keeps, UserOf
    <3> QED BY <3>3, <3>4, RowsParts
  <2>4. CASE clients[u] # {c}
    <3>1. account' = account /\ foreign' = foreign /\ clients'[u] # {}
      BY <1>4, <2>u, <2>2, <2>4 DEF DetachClient
    <3>2. ASSUME NEW v \in AccountUsers PROVE Matches(v)'
      BY <1>p, <2>2, <3>1 DEF Matches
    <3>3. ASSUME NEW d \in Connections PROVE Keeps(d)'
      BY <1>p, <2>1, <3>1 DEF Keeps, UserOf
    <3> QED BY <3>2, <3>3, RowsParts
  <2> QED BY <2>3, <2>4
<1>5. ASSUME NEW c \in Connections, BeginEdit(c) PROVE RowsInv'
  <2>u. PICK u : u = UserOf(c)
    OBVIOUS
  <2>0. u \in AccountUsers /\ connection[c].pc = "ready" /\ account' = account /\ clients' = clients /\ foreign' = foreign
    BY <1>5, <1>u, <2>u DEF BeginEdit
  <2>1. PICK entry : entry = [account[u] EXCEPT !.nickname = edits[u] + 1] /\ Becomes(c, "edit", u, entry)
    BY <1>5, <2>u, ConnectionEffects
  <2>2. entry.online = account[u].online
    BY <1>t, <2>0, <2>1 DEF AccountRows
  <2>3. u \notin foreign => account[u].online
    BY <1>p, <1>r, <2>0, <2>u DEF Matches
  <2>4. ASSUME NEW d \in Connections PROVE Keeps(d)'
    <3>1. CASE d = c
      BY <2>0, <2>1, <2>2, <2>3, <3>1 DEF Becomes, Keeps, UserOf
    <3>2. CASE d # c
      BY <1>p, <2>0, <2>1, <3>2 DEF Becomes, Keeps, UserOf
    <3> QED BY <3>1, <3>2
  <2>5. \A v \in AccountUsers : Matches(v)'
    BY <1>p, <2>0 DEF Matches
  <2> QED BY <2>4, <2>5, RowsParts
<1>6. ASSUME NEW c \in Connections, CommitEdit(c) PROVE RowsInv'
  <2>u. PICK u : u = UserOf(c)
    OBVIOUS
  <2>0. u \in AccountUsers /\ connection[c].pc = "edit" /\ clients' = clients /\ foreign' = foreign
        /\ account' = [account EXCEPT ![u] = connection[c].row]
    BY <1>6, <1>u, <2>u DEF CommitEdit, SetUser
  <2>1. \A d \in Connections : connection'[d].pc = "edit" => connection'[d] = connection[d]
    BY <1>6, ConnectionEffects DEF Becomes
  <2>2. clients[u] # {} /\ (u \notin foreign => connection[c].row.online)
    BY <1>p, <1>r, <2>0, <2>u DEF Keeps
  <2>3. account'[u] = connection[c].row /\ \A v \in AccountUsers \ {u} : account'[v] = account[v]
    BY <1>t, <2>0
  <2>4. ASSUME NEW v \in AccountUsers PROVE Matches(v)'
    <3>1. CASE v = u
      BY <2>0, <2>2, <2>3, <3>1 DEF Matches
    <3>2. CASE v # u
      BY <1>p, <2>0, <2>3, <3>2 DEF Matches
    <3> QED BY <3>1, <3>2
  <2>5. ASSUME NEW d \in Connections PROVE Keeps(d)'
    BY <1>p, <2>0, <2>1 DEF Keeps, UserOf
  <2> QED BY <2>4, <2>5, RowsParts
<1>7. ASSUME NEW c \in Connections, NotifyOnline(c) \/ NotifyOffline(c) \/ CloseUnauthenticated(c) PROVE RowsInv'
  <2>1. \A d \in Connections : connection'[d].pc = "edit" => connection'[d] = connection[d]
    BY <1>7, ConnectionEffects DEF Becomes
  <2>2. account' = account /\ clients' = clients /\ foreign' = foreign
    BY <1>7 DEF NotifyOnline, NotifyOffline, CloseUnauthenticated
  <2> QED BY <2>1, <2>2, RowsKept
<1>8. ASSUME NEW c \in Connections, NEW u \in AccountUsers, Auth(c, u) \/ BeginRegister(c, u) PROVE RowsInv'
  <2>1. \A d \in Connections : connection'[d].pc = "edit" => connection'[d] = connection[d]
    BY <1>8, ConnectionEffects DEF Becomes
  <2>2. account' = account /\ clients' = clients /\ foreign' = foreign
    BY <1>8 DEF Auth, BeginRegister
  <2> QED BY <2>1, <2>2, RowsKept
<1>9. ASSUME NEW a \in Admins, NEW u \in AccountUsers, AdminReadForNickname(a, u) \/ AdminReadForReset(a, u) PROVE RowsInv'
  <2>1. account' = account /\ clients' = clients /\ foreign' = foreign /\ connection' = connection
    BY <1>9 DEF AdminReadForNickname, AdminReadForReset
  <2> QED BY <2>1, RowsKept
<1>10. ASSUME NEW a \in Admins, AdminSetNickname(a) \/ AdminSetPassword(a) PROVE RowsInv'
  <2>1. /\ SetForeignUser(admin[a].user, admin[a].row) /\ clients' = clients /\ connection' = connection
        /\ admin[a].user \in AccountUsers
    BY <1>10, <1>a DEF AdminSetNickname, AdminSetPassword
  <2> QED BY <2>1, ForeignWrite
<1>11. ASSUME NEW a \in Admins, AdminRevokeSessions(a) PROVE RowsInv'
  <2>1. clients' = clients /\ connection' = connection /\ admin[a].user \in AccountUsers
    BY <1>11, <1>a DEF AdminRevokeSessions
  <2>2. CASE UNCHANGED <<account, foreign>>
    BY <2>1, <2>2, RowsKept
  <2>3. CASE \E entry : SetForeignUser(admin[a].user, entry)
    BY <2>1, <2>3, ForeignWrite
  <2> QED BY <1>11, <2>2, <2>3 DEF AdminRevokeSessions
<1>12. CASE Restart
  <2>1. account' = account /\ foreign' = foreign \cup {u \in AccountUsers : clients[u] # {}}
        /\ clients' = [u \in AccountUsers |-> {}] /\ connection' = [c \in Connections |-> FreshConnection]
    BY <1>12 DEF Restart
  <2>2. ASSUME NEW u \in AccountUsers PROVE Matches(u)'
    BY <1>p, <2>1 DEF Matches
  <2>3. ASSUME NEW c \in Connections PROVE Keeps(c)'
    BY <2>1 DEF Keeps, FreshConnection
  <2> QED BY <2>2, <2>3, RowsParts
<1>13. CASE UNCHANGED accountVars
  BY <1>13, RowsKept DEF accountVars
<1> QED BY <1>1, <1>2, <1>3, <1>4, <1>5, <1>6, <1>7, <1>8, <1>9, <1>10, <1>11, <1>12, <1>13 DEF AccountsNext, PumpStep

-----------------------------------------------------------------------------
(* The theorem *)

\* The initial states satisfy the inductive invariant ...
LEMMA AccountsInitInv == AccountsInit => AccountsInv
<1> SUFFICES ASSUME AccountsInit PROVE AccountsInv
  OBVIOUS
<1>1. AccountsTypeInv
  BY InitTyped
<1>2. \A c \in Connections : connection[c].pc = "new"
  BY DEF AccountsInit, FreshConnection
<1>3. RegistryIsExact
  BY <1>2 DEF AccountsInit, RegistryIsExact, Attached
<1>4. EveryTransitionAnnounced
  <2>1. \A u : \A pc \in {"online", "offline"} : AnnouncingIn(u, pc) = {}
    BY <1>2 DEF AnnouncingIn
  <2>2. \A u : \A pc \in {"online", "offline"} : Announcing(u, pc) = 0
    BY <2>1, FS_EmptySet DEF Announcing, AnnouncingIn
  <2> QED BY <2>2 DEF AccountsInit, EveryTransitionAnnounced, NoNotice
<1>5. RowsInv
  BY <1>2 DEF AccountsInit, RowsInv, OnlineMatchesDevices, EditsKeepOnline, NoAccountRow
<1> QED BY <1>1, <1>3, <1>4, <1>5 DEF AccountsInv

\* ... and every step keeps it.
LEMMA AccountsInvStep == AccountsInv /\ [AccountsNext]_accountVars => AccountsInv'
  BY TypeStep, RegistryStep, NoticesStep, RowsStep DEF AccountsInv

\* addClient, removeClient and the writers of the users table: in every state
\* the registry holds exactly the attached connections, online and offline
\* notices balance, and the online column of an account that nobody else has
\* written says whether it has a device.
THEOREM PresenceStaysExact == AccountsSpec => []PresenceIsExact
<1>1. AccountsInv => PresenceIsExact
  BY DEF AccountsInv, PresenceIsExact, AccountsTypeInv, RowsInv
<1> QED BY <1>1, AccountsInitInv, AccountsInvStep, PTL DEF AccountsSpec

(*************************************************************************)
(* ConversationInbox                                                     *)
(*************************************************************************)

(* The inductive invariant *)

MailRows == [sender : Members, mentions : SUBSET Members, important : BOOLEAN, recalled : BOOLEAN]
DeviceStates == [step : {"idle", "upsert"}, user : Members \cup {Nobody}, newest : Nat]
Couriers == [left : SUBSET Members, user : Members \cup {Nobody}]

InboxTypeInv ==
    /\ belongs \subseteq Members
    /\ mail \in Seq(MailRows) /\ Len(mail) <= MaxMail
    /\ mark \in [Members -> Nat]
    /\ DOMAIN level = Members
    /\ device \in [Devices -> DeviceStates]
    /\ courier \in [1 .. MaxMail -> Couriers]

\* MarkConversationRead: a mark names a stored message, and so does one that
\* is about to be written.
MarksNameMail ==
    /\ \A u \in Members : mark[u] <= Len(mail)
    /\ \A d \in Devices : /\ device[d].step = "idle" => device[d].user = Nobody
                          /\ device[d].step = "upsert" => device[d].user \in Members
                          /\ device[d].newest <= Len(mail)

\* A member who never marked from two devices at once has at most one mark
\* under way, and it is no older than the one stored.
OneMarkAtATime ==
    \A u \in Members \ marksMet : \A d \in Devices :
        device[d].user = u => /\ mark[u] <= device[d].newest
                              /\ \A e \in Devices : device[e].user = u => e = d

\* notifyPush: whoever the goroutine of a message has still to reach is not the
\* sender, and was allowed if the present level admits the message; whoever
\* it has turned to was allowed.
CourierIsFair(m) ==
    /\ m > Len(mail) => courier[m].left = {} /\ courier[m].user = Nobody
    /\ m <= Len(mail) => \A u \in courier[m].left :
            u # mail[m].sender /\ (Admits(level[u], mail[m], u) => <<m, u>> \in allowed)
    /\ courier[m].user # Nobody => <<m, courier[m].user>> \in allowed
CouriersAreFair == \A m \in 1 .. MaxMail : CourierIsFair(m)

MarksInv == MarksNameMail /\ OneMarkAtATime
PushInv == CouriersAreFair /\ PushesAreWanted
InboxInv == InboxTypeInv /\ MarksInv /\ PushInv

-----------------------------------------------------------------------------
(* Types *)

\* The number of a message is a number.
LEMMA MailNumbers == MaxMail \in Nat /\ \A m \in 1 .. MaxMail : m \in Nat /\ m >= 1
<1>1. MaxMail \in Nat
  BY InboxAssumption
<1> QED BY <1>1

\* The message that send_message stores is a row of the table.
LEMMA PostedMailIsMail ==
  ASSUME InboxTypeInv, NEW u \in Members, NEW letter \in Letters, PostMessage(u, letter)
  PROVE  /\ mail' \in Seq(MailRows) /\ Len(mail') = Len(mail) + 1 /\ Len(mail') <= MaxMail
         /\ Len(mail) \in Nat
         /\ \A m \in 1 .. Len(mail) : mail'[m] = mail[m]
         /\ mail'[Len(mail) + 1].sender = u /\ mail'[Len(mail) + 1].mentions = letter.mentions
         /\ mail'[Len(mail) + 1].important = letter.important
<1> DEFINE r == [sender |-> u, mentions |-> letter.mentions, important |-> letter.important, recalled |-> FALSE]
<1>1. r \in MailRows
  BY InboxAssumption DEF MailRows
<1>2. mail' = Append(mail, r) /\ Len(mail) + 1 <= MaxMail /\ mail \in Seq(MailRows)
  BY DEF PostMessage, InboxTypeInv
<1>3. r.sender = u /\ r.mentions = letter.mentions /\ r.important = letter.important
  OBVIOUS
<1> HIDE DEF r
<1>4. /\ mail' \in Seq(MailRows) /\ Len(mail') = Len(mail) + 1 /\ Len(mail) \in Nat
      /\ \A m \in 1 .. Len(mail) : mail'[m] = mail[m]
      /\ mail'[Len(mail) + 1] = r
  BY <1>1, <1>2
<1> QED BY <1>2, <1>3, <1>4

\* A recall keeps everything of the message but its content.
LEMMA RecalledMailIsMail ==
  ASSUME InboxTypeInv, NEW m \in 1 .. MaxMail, RecallMail(m)
  PROVE  /\ mail' \in Seq(MailRows) /\ Len(mail') = Len(mail)
         /\ \A n \in 1 .. Len(mail) : /\ mail'[n].sender = mail[n].sender
                                      /\ mail'[n].mentions = mail[n].mentions
                                      /\ mail'[n].important = mail[n].important
<1>1. mail \in Seq(MailRows) /\ m \in 1 .. Len(mail)
  BY DEF InboxTypeInv, RecallMail
<1>2. PICK r : r = [mail[m] EXCEPT !.recalled = TRUE]
  OBVIOUS
<1>3. mail' = [mail EXCEPT ![m] = r]
  BY <1>2 DEF RecallMail
<1>4. mail[m] \in MailRows
  BY <1>1
<1>5. r \in MailRows /\ r.sender = mail[m].sender /\ r.mentions = mail[m].mentions /\ r.important = mail[m].important
  BY <1>2, <1>4 DEF MailRows
<1>6. mail' \in Seq(MailRows) /\ Len(mail') = Len(mail) /\ \A n \in 1 .. Len(mail) : mail'[n] = IF n = m THEN r ELSE mail[n]
  BY <1>1, <1>3, <1>5
<1> QED BY <1>5, <1>6

\* The goroutine has one recipient less to reach, and has turned to that one
\* only if the level admits the message.
LEMMA TurnEffect ==
  ASSUME InboxTypeInv, NEW m \in 1 .. MaxMail, NEW u \in Members, PushTurn(m, u)
  PROVE  \E r \in Couriers :
            /\ courier' = [courier EXCEPT ![m] = r]
            /\ r.left = courier[m].left \ {u}
            /\ r.user = Nobody \/ (r.user = u /\ WantsPush(u, mail[m], level[u]))
<1>1. courier[m] \in Couriers /\ courier[m].user = Nobody
  BY DEF InboxTypeInv, PushTurn
<1>2. PICK v : v = IF WantsPush(u, mail[m], level[u]) /\ u \in subscribed THEN u ELSE Nobody
  OBVIOUS
<1>3. PICK r : r = [left |-> courier[m].left \ {u}, user |-> v]
  OBVIOUS
<1>4. courier' = [courier EXCEPT ![m] = r]
  BY <1>2, <1>3 DEF PushTurn
<1>5. r \in Couriers /\ r.left = courier[m].left \ {u} /\ r.user = v
  BY <1>1, <1>2, <1>3 DEF Couriers
<1>6. v = Nobody \/ (v = u /\ WantsPush(u, mail[m], level[u]))
  BY <1>2, Zenon
<1> QED BY <1>4, <1>5, <1>6, Zenon

\* Every step keeps the types of the inbox.
LEMMA InboxTypeStep ==
  ASSUME InboxTypeInv, [InboxNext]_inboxVars
  PROVE  InboxTypeInv'
<1> USE DEF InboxTypeInv
<1>1. CASE UNCHANGED inboxVars
  BY <1>1 DEF inboxVars
<1>2. ASSUME NEW u \in Members, NEW letter \in Letters, PostMessage(u, letter)
      PROVE  InboxTypeInv'
  <2>1. mail' \in Seq(MailRows) /\ Len(mail') <= MaxMail
    BY <1>2, PostedMailIsMail
  <2>2. courier' \in [1 .. MaxMail -> Couriers]
    <3>1. PICK S : S = ConversationRecipients(u)
      OBVIOUS
    <3>2. S \subseteq Members
      BY <3>1 DEF ConversationRecipients
    <3>3. courier' = [courier EXCEPT ![Len(mail) + 1].left = S]
      BY <1>2, <3>1 DEF PostMessage
    <3> QED BY <3>2, <3>3, ZenonT(30) DEF Couriers
  <2> QED BY <1>2, <2>1, <2>2 DEF PostMessage
<1>3. ASSUME NEW m \in 1 .. MaxMail, RecallMail(m)
      PROVE  InboxTypeInv'
  BY <1>3, RecalledMailIsMail DEF RecallMail
<1>4. ASSUME NEW u \in Members, NEW m \in 1 .. MaxMail, PushTurn(m, u)
      PROVE  InboxTypeInv'
  <2>1. PICK r \in Couriers : courier' = [courier EXCEPT ![m] = r]
    BY <1>4, TurnEffect
  <2>3. courier' \in [1 .. MaxMail -> Couriers]
    BY <2>1
  <2> QED BY <1>4, <2>3 DEF PushTurn
<1>5. ASSUME NEW u \in Members, NEW m \in 1 .. MaxMail, PushPassedOver(m, u)
      PROVE  InboxTypeInv'
  BY <1>5 DEF PushPassedOver, Couriers
<1>6. ASSUME NEW m \in 1 .. MaxMail, PushDelivered(m) \/ PushFailed(m) \/ PushExpired(m)
      PROVE  InboxTypeInv'
  <2>1. courier' = [courier EXCEPT ![m].user = Nobody]
    BY <1>6 DEF PushDelivered, PushFailed, PushExpired
  <2>2. courier' \in [1 .. MaxMail -> Couriers]
    BY <2>1, SMTT(30) DEF Couriers
  <2> QED BY <1>6, <2>2 DEF PushDelivered, PushFailed, PushExpired
<1>7. ASSUME NEW u \in Members, RegisterPush(u) \/ UnregisterPush(u) \/ LeaveConversation(u)
      PROVE  InboxTypeInv'
  BY <1>7 DEF RegisterPush, UnregisterPush, LeaveConversation
<1>8. ASSUME NEW u \in Members, NEW asked \in PreferenceAsked, SetConversationPreferences(u, asked)
      PROVE  InboxTypeInv'
  BY <1>8 DEF SetConversationPreferences
<1>9. ASSUME NEW u \in Members, NEW d \in Devices, MarkReadSelect(d, u)
      PROVE  InboxTypeInv'
  <2>0. Len(mail) \in Nat
    OBVIOUS
  <2>1. [step |-> "upsert", user |-> u, newest |-> Len(mail)] \in DeviceStates
    BY <2>0 DEF DeviceStates
  <2>2. device' \in [Devices -> DeviceStates]
    BY <1>9, <2>1 DEF MarkReadSelect
  <2> QED BY <1>9, <2>2 DEF MarkReadSelect
<1>10. ASSUME NEW d \in Devices, MarkReadUpsert(d)
       PROVE  InboxTypeInv'
  <2>1. IdleDevice \in DeviceStates
    BY DEF IdleDevice, DeviceStates
  <2>2. device' \in [Devices -> DeviceStates]
    BY <1>10, <2>1 DEF MarkReadUpsert
  <2>3. device[d].newest \in Nat
    BY DEF DeviceStates
  <2>4. mark' \in [Members -> Nat]
    BY <1>10, <2>3 DEF MarkReadUpsert
  <2> QED BY <1>10, <2>2, <2>4 DEF MarkReadUpsert
<1>11. ASSUME NEW u \in Members, NEW m \in 1 .. MaxMail, NEW remove \in BOOLEAN, ReactCheck(u, m, remove)
       PROVE  InboxTypeInv'
  BY <1>11 DEF ReactCheck
<1>12. CASE ReactStore
  BY <1>12 DEF ReactStore
<1> HIDE DEF InboxTypeInv
<1> QED BY <1>1, <1>2, <1>3, <1>4, <1>5, <1>6, <1>7, <1>8, <1>9, <1>10, <1>11, <1>12 DEF InboxNext

-----------------------------------------------------------------------------
(* Read marks *)

\* No step takes a message away or changes whom it is from and to.
LEMMA MailIsKept ==
  ASSUME InboxTypeInv, [InboxNext]_inboxVars
  PROVE  /\ Len(mail) \in Nat /\ Len(mail') \in Nat /\ Len(mail) <= Len(mail')
         /\ \A m \in 1 .. Len(mail) : /\ mail'[m].sender = mail[m].sender
                                      /\ mail'[m].mentions = mail[m].mentions
                                      /\ mail'[m].important = mail[m].important
<1>0. Len(mail) \in Nat
  BY DEF InboxTypeInv
<1>1. ASSUME NEW u \in Members, NEW letter \in Letters, PostMessage(u, letter)
      PROVE  /\ Len(mail') \in Nat /\ Len(mail) <= Len(mail')
             /\ \A m \in 1 .. Len(mail) : mail'[m] = mail[m]
  BY <1>1, PostedMailIsMail
<1>2. CASE \E u \in Members, letter \in Letters : PostMessage(u, letter)
  BY <1>0, <1>1, <1>2
<1>3. ASSUME NEW m \in 1 .. MaxMail, RecallMail(m)
      PROVE  /\ Len(mail') = Len(mail)
             /\ \A n \in 1 .. Len(mail) : /\ mail'[n].sender = mail[n].sender
                                          /\ mail'[n].mentions = mail[n].mentions
                                          /\ mail'[n].important = mail[n].important
  BY <1>3, RecalledMailIsMail, Zenon
<1>4. CASE \E m \in 1 .. MaxMail : RecallMail(m)
  BY <1>0, <1>3, <1>4
<1>5. CASE mail' = mail
  BY <1>0, <1>5
<1>6. \/ \E u \in Members, letter \in Letters : PostMessage(u, letter)
      \/ \E m \in 1 .. MaxMail : RecallMail(m)
      \/ mail' = mail
  BY DEF InboxNext, inboxVars, PushTurn, PushPassedOver, PushDelivered, PushFailed, PushExpired, RegisterPush,
         UnregisterPush, LeaveConversation, SetConversationPreferences, MarkReadSelect, MarkReadUpsert,
         ReactCheck, ReactStore
<1> QED BY <1>2, <1>4, <1>5, <1>6

\* Only the two statements of MarkConversationRead touch the marks.
LEMMA WhoMarks ==
  ASSUME [InboxNext]_inboxVars
  PROVE  \/ \E d \in Devices, u \in Members : MarkReadSelect(d, u)
         \/ \E d \in Devices : MarkReadUpsert(d)
         \/ UNCHANGED <<mark, device, marksMet>>
  BY DEF InboxNext, inboxVars, PostMessage, PushTurn, PushPassedOver, PushDelivered, PushFailed, PushExpired,
         RegisterPush, UnregisterPush, LeaveConversation, SetConversationPreferences, RecallMail,
         ReactCheck, ReactStore

\* Every step keeps what is known of the marks.
LEMMA MarksStep ==
  ASSUME InboxTypeInv, MarksInv, [InboxNext]_inboxVars
  PROVE  MarksInv'
<1>0. Len(mail) \in Nat /\ Len(mail') \in Nat /\ Len(mail) <= Len(mail')
  BY MailIsKept, Zenon
<1>T. mark \in [Members -> Nat] /\ device \in [Devices -> DeviceStates] /\ \A d \in Devices : device[d].newest \in Nat
  BY DEF InboxTypeInv, DeviceStates
<1>E. Nobody \notin Members
  BY InboxAssumption, Zenon DEF Nobody
<1>N. \A v \in Members : mark[v] \in Nat
  BY <1>T
<1>1. CASE UNCHANGED <<mark, device, marksMet>>
  <2>1. mark' = mark /\ device' = device /\ marksMet' = marksMet
    BY <1>1
  <2>2. ASSUME NEW v \in Members
        PROVE  mark'[v] <= Len(mail')
    <3>1. mark[v] <= Len(mail) /\ mark[v] \in Nat
      BY <1>N DEF MarksInv, MarksNameMail
    <3> QED BY <1>0, <2>1, <3>1
  <2>3. ASSUME NEW e \in Devices
        PROVE  /\ device'[e].step = "idle" => device'[e].user = Nobody
               /\ device'[e].step = "upsert" => device'[e].user \in Members
               /\ device'[e].newest <= Len(mail')
    <3>1. device[e].newest <= Len(mail) /\ device[e].newest \in Nat
      BY <1>T DEF MarksInv, MarksNameMail
    <3>2. device'[e].newest <= Len(mail')
      BY <1>0, <2>1, <3>1
    <3>3. /\ device[e].step = "idle" => device[e].user = Nobody
          /\ device[e].step = "upsert" => device[e].user \in Members
      BY Zenon DEF MarksInv, MarksNameMail
    <3> QED BY <2>1, <3>2, <3>3
  <2>4. OneMarkAtATime'
    BY <2>1 DEF MarksInv, OneMarkAtATime
  <2> QED BY <2>2, <2>3, <2>4 DEF MarksInv, MarksNameMail
<1>2. ASSUME NEW d \in Devices, NEW u \in Members, MarkReadSelect(d, u)
      PROVE  MarksInv'
  <2>1. /\ device' = [device EXCEPT ![d] = [step |-> "upsert", user |-> u, newest |-> Len(mail)]]
        /\ mark' = mark /\ mail' = mail /\ device[d].user = Nobody
        /\ marksMet \subseteq marksMet'
        /\ (\E e \in Devices : device[e].user = u) => u \in marksMet'
    BY <1>2 DEF MarkReadSelect, MarksInv, MarksNameMail
  <2>2. /\ device'[d].step = "upsert" /\ device'[d].user = u /\ device'[d].newest = Len(mail)
        /\ \A e \in Devices : e # d => device'[e] = device[e]
    BY <1>T, <2>1
  <2>3. MarksNameMail'
    BY <1>0, <2>1, <2>2 DEF MarksInv, MarksNameMail
  <2>4. ASSUME NEW v \in Members, v \notin marksMet', NEW e \in Devices, device'[e].user = v
        PROVE  mark'[v] <= device'[e].newest /\ \A f \in Devices : device'[f].user = v => f = e
    <3>1. v \notin marksMet
      BY <2>1, <2>4
    <3>2. CASE v = u
      <4>1. \A f \in Devices : device[f].user # u
        BY <2>1, <2>4, <3>2
      <4>2. e = d
        BY <2>2, <2>4, <3>2, <4>1
      <4>3. mark[u] <= Len(mail)
        BY DEF MarksInv, MarksNameMail
      <4> QED BY <2>1, <2>2, <2>4, <3>2, <4>1, <4>2, <4>3
    <3>3. CASE v # u
      <4>1. e # d /\ device'[e] = device[e]
        BY <2>2, <2>4, <3>3
      <4>2. mark[v] <= device[e].newest /\ \A f \in Devices : device[f].user = v => f = e
        BY <2>4, <3>1, <4>1 DEF MarksInv, OneMarkAtATime
      <4> QED BY <2>1, <2>2, <3>3, <4>1, <4>2
    <3> QED BY <3>2, <3>3
  <2>5. OneMarkAtATime'
    BY <2>4 DEF OneMarkAtATime
  <2> QED BY <2>3, <2>5 DEF MarksInv
<1>3. ASSUME NEW d \in Devices, MarkReadUpsert(d)
      PROVE  MarksInv'
  <2>1. /\ device' = [device EXCEPT ![d] = IdleDevice] /\ mail' = mail /\ marksMet' = marksMet
        /\ mark' = [mark EXCEPT ![device[d].user] = device[d].newest]
        /\ device[d].user \in Members /\ device[d].newest <= Len(mail)
    BY <1>3 DEF MarkReadUpsert, MarksInv, MarksNameMail
  <2>2. /\ device'[d].step = "idle" /\ device'[d].user = Nobody /\ device'[d].newest = 0
        /\ \A e \in Devices : e # d => device'[e] = device[e]
    BY <1>T, <2>1 DEF IdleDevice
  <2>3. \A u \in Members : mark'[u] = IF u = device[d].user THEN device[d].newest ELSE mark[u]
    BY <1>T, <2>1
  <2>4. MarksNameMail'
    <3>1. \A u \in Members : mark'[u] <= Len(mail')
      BY <2>1, <2>3 DEF MarksInv, MarksNameMail
    <3>2. ASSUME NEW e \in Devices
          PROVE  /\ device'[e].step = "idle" => device'[e].user = Nobody
                 /\ device'[e].step = "upsert" => device'[e].user \in Members
                 /\ device'[e].newest <= Len(mail')
      <4>1. CASE e = d
        <5>1. 0 <= Len(mail)
          BY <1>0
        <5> QED BY <2>1, <2>2, <4>1, <5>1
      <4>2. CASE e # d
        <5>1. /\ device[e].step = "idle" => device[e].user = Nobody
              /\ device[e].step = "upsert" => device[e].user \in Members
              /\ device[e].newest <= Len(mail)
          BY Zenon DEF MarksInv, MarksNameMail
        <5> QED BY <2>1, <2>2, <4>2, <5>1
      <4> QED BY <4>1, <4>2
    <3> QED BY <3>1, <3>2 DEF MarksNameMail
  <2>5. ASSUME NEW v \in Members, v \notin marksMet', NEW e \in Devices, device'[e].user = v
        PROVE  mark'[v] <= device'[e].newest /\ \A f \in Devices : device'[f].user = v => f = e
    <3>1. e # d /\ device'[e] = device[e]
      BY <1>E, <2>2, <2>5
    <3>2. mark[v] <= device[e].newest /\ \A f \in Devices : device[f].user = v => f = e
      BY <2>1, <2>5, <3>1 DEF MarksInv, OneMarkAtATime
    <3>3. device[d].user # v
      BY <3>1, <3>2
    <3> QED BY <1>E, <2>2, <2>3, <3>1, <3>2, <3>3
  <2>6. OneMarkAtATime'
    BY <2>5 DEF OneMarkAtATime
  <2> QED BY <2>4, <2>6 DEF MarksInv
<1> QED BY <1>1, <1>2, <1>3, WhoMarks, Zenon

\* The mark of a member who marks from one device at a time never goes back.
LEMMA MarksGrow ==
  ASSUME InboxTypeInv, MarksInv, [InboxNext]_inboxVars, NEW u \in Members, u \notin marksMet'
  PROVE  mark[u] \in Nat /\ mark'[u] \in Nat /\ mark[u] <= mark'[u]
<1>T. mark \in [Members -> Nat] /\ device \in [Devices -> DeviceStates] /\ \A d \in Devices : device[d].newest \in Nat
  BY DEF InboxTypeInv, DeviceStates
<1>1. CASE mark' = mark
  BY <1>1, <1>T
<1>2. ASSUME NEW d \in Devices, MarkReadUpsert(d)
      PROVE  mark[u] <= mark'[u] /\ mark'[u] \in Nat
  <2>1. /\ mark' = [mark EXCEPT ![device[d].user] = device[d].newest] /\ marksMet' = marksMet
    BY <1>2 DEF MarkReadUpsert
  <2>2. CASE device[d].user = u
    <3>1. mark[u] <= device[d].newest
      BY <2>1, <2>2 DEF MarksInv, OneMarkAtATime
    <3> QED BY <1>T, <2>1, <2>2, <3>1
  <2>3. CASE device[d].user # u
    BY <1>T, <2>1, <2>3
  <2> QED BY <2>2, <2>3
<1>3. ASSUME NEW d \in Devices, NEW v \in Members, MarkReadSelect(d, v)
      PROVE  mark' = mark
  BY <1>3 DEF MarkReadSelect
<1> QED BY <1>1, <1>2, <1>3, <1>T, WhoMarks

-----------------------------------------------------------------------------
(* Push notifications *)

\* wantsPush admits no more than the documentation of the levels.
LEMMA WantedIsAdmitted ==
  ASSUME NEW u, NEW letter, NEW lv, WantsPush(u, letter, lv)
  PROVE  Admits(lv, letter, u)
<1>1. CASE lv = "muted"
  BY <1>1 DEF WantsPush, ConversationNotificationLevel
<1>2. CASE lv = "mentions_only"
  BY <1>2 DEF WantsPush, ConversationNotificationLevel, Admits, MessageMentionsUser
<1>3. CASE lv # "muted" /\ lv # "mentions_only"
  BY <1>3 DEF Admits
<1> QED BY <1>1, <1>2, <1>3

\* Whether a level admits a message depends on whom it mentions and on
\* whether it is an announcement.
LEMMA AdmitsByContent ==
  ASSUME NEW letter, NEW other, NEW lv, NEW u,
         other.mentions = letter.mentions, other.important = letter.important
  PROVE  Admits(lv, other, u) <=> Admits(lv, letter, u)
  BY DEF Admits

\* A courier that is not about the step stays fair when the levels stay and
\* nothing that was allowed is taken back.
LEMMA CourierStaysFair ==
  ASSUME InboxTypeInv, [InboxNext]_inboxVars, NEW m \in 1 .. MaxMail, CourierIsFair(m),
         level' = level, allowed \subseteq allowed', Len(mail') = Len(mail) \/ m <= Len(mail),
         courier'[m].left \subseteq courier[m].left,
         courier'[m].user \in {Nobody, courier[m].user}
  PROVE  CourierIsFair(m)'
<1>0. /\ Len(mail) \in Nat /\ Len(mail') \in Nat /\ Len(mail) <= Len(mail')
      /\ m <= Len(mail) => /\ mail'[m].sender = mail[m].sender
                           /\ mail'[m].mentions = mail[m].mentions
                           /\ mail'[m].important = mail[m].important
  <2>1. m \in Nat /\ m >= 1 /\ Len(mail) \in Nat
    BY MailNumbers, MailIsKept
  <2>2. m <= Len(mail) => m \in 1 .. Len(mail)
    BY <2>1
  <2> QED BY <2>2, MailIsKept
<1>N. m \in Nat
  BY MailNumbers
<1>1. m > Len(mail') => courier'[m].left = {} /\ courier'[m].user = Nobody
  BY <1>0, <1>N DEF CourierIsFair
<1>2. ASSUME m <= Len(mail'), NEW u \in courier'[m].left
      PROVE  u # mail'[m].sender /\ (Admits(level'[u], mail'[m], u) => <<m, u>> \in allowed')
  <2>1. m <= Len(mail)
    BY <1>0, <1>2, <1>N DEF CourierIsFair
  <2>2. Admits(level[u], mail'[m], u) <=> Admits(level[u], mail[m], u)
    BY <1>0, <2>1, AdmitsByContent
  <2>3. u # mail[m].sender /\ (Admits(level[u], mail[m], u) => <<m, u>> \in allowed)
    BY <1>2, <2>1 DEF CourierIsFair
  <2> QED BY <1>0, <2>1, <2>2, <2>3, Zenon
<1>3. courier'[m].user # Nobody => <<m, courier'[m].user>> \in allowed'
  BY DEF CourierIsFair
<1>4. \A u \in courier'[m].left : m <= Len(mail') => u # mail'[m].sender /\ (Admits(level'[u], mail'[m], u) => <<m, u>> \in allowed')
  BY <1>2, Zenon
<1> QED BY <1>1, <1>3, <1>4, Zenon DEF CourierIsFair

\* Every step keeps what is known of the couriers and of what they pushed.
LEMMA PushStep ==
  ASSUME InboxTypeInv, PushInv, [InboxNext]_inboxVars
  PROVE  PushInv'
<1>0. /\ Len(mail) \in Nat /\ Len(mail') \in Nat /\ Len(mail) <= Len(mail')
      /\ \A m \in 1 .. Len(mail) : /\ mail'[m].sender = mail[m].sender
                                   /\ mail'[m].mentions = mail[m].mentions
                                   /\ mail'[m].important = mail[m].important
  BY MailIsKept, Zenon
<1>T. courier \in [1 .. MaxMail -> Couriers] /\ Len(mail) <= MaxMail
  BY DEF InboxTypeInv
<1>M. MaxMail \in Nat /\ \A m \in 1 .. MaxMail : m \in Nat /\ m >= 1
  BY MailNumbers
<1>F. (\A m \in 1 .. MaxMail : CourierIsFair(m)) /\ pushed \subseteq allowed
  BY DEF PushInv, CouriersAreFair, PushesAreWanted
<1>S. \A m \in 1 .. MaxMail : m > Len(mail) => courier[m].left = {} /\ courier[m].user = Nobody
  BY <1>F, Zenon DEF CourierIsFair
<1>G. ASSUME \A m \in 1 .. MaxMail : CourierIsFair(m)', pushed' \subseteq allowed'
      PROVE  PushInv'
  BY <1>G DEF PushInv, CouriersAreFair, PushesAreWanted
<1>1. CASE UNCHANGED <<courier, level, allowed, pushed>> /\ Len(mail') = Len(mail)
  <2>1. courier' = courier /\ level' = level /\ allowed' = allowed /\ pushed' = pushed
    BY <1>1
  <2>2. \A m \in 1 .. MaxMail : CourierIsFair(m)'
    BY <1>1, <2>1, <1>F, CourierStaysFair
  <2> QED BY <1>F, <1>G, <2>1, <2>2
<1>2. ASSUME NEW u \in Members, NEW letter \in Letters, PostMessage(u, letter)
      PROVE  PushInv'
  <2>1. PICK k : k = Len(mail) + 1
    OBVIOUS
  <2>2. PICK S : S = ConversationRecipients(u)
    OBVIOUS
  <2>3. /\ k \in 1 .. MaxMail /\ Len(mail') = k /\ level' = level /\ pushed' = pushed
        /\ allowed' = allowed \cup {<<k, v>> : v \in {v \in S : Admits(level[v], letter, v)}}
        /\ courier' = [courier EXCEPT ![k].left = S]
    <3>1. Len(mail') = k /\ k <= MaxMail
      BY <1>2, <2>1, PostedMailIsMail
    <3>2. k \in 1 .. MaxMail
      BY <1>0, <1>M, <2>1, <3>1
    <3> QED BY <1>2, <2>1, <2>2, <3>1, <3>2, Zenon DEF PostMessage
  <2>4. mail'[k].sender = u /\ mail'[k].mentions = letter.mentions /\ mail'[k].important = letter.important
    BY <1>2, <2>1, PostedMailIsMail
  <2>5. u \notin S
    BY <2>2 DEF ConversationRecipients
  <2>6. ASSUME NEW m \in 1 .. MaxMail, m # k
        PROVE  CourierIsFair(m)'
    <3>1. courier'[m] = courier[m]
      BY <1>T, <2>3, <2>6
    <3>2. CASE m <= Len(mail)
      BY <1>F, <2>3, <3>1, <3>2, CourierStaysFair
    <3>3. CASE m > Len(mail)
      <4>1. courier'[m].left = {} /\ courier'[m].user = Nobody /\ m > Len(mail')
        BY <1>0, <1>S, <1>M, <2>1, <2>3, <2>6, <3>1, <3>3
      <4> QED BY <1>0, <1>M, <2>3, <4>1 DEF CourierIsFair
    <3> QED BY <1>0, <1>M, <3>2, <3>3
  <2>7. CourierIsFair(k)'
    <3>1. courier[k].user = Nobody
      BY <1>0, <1>S, <1>M, <2>1, <2>3
    <3>2. courier'[k].left = S /\ courier'[k].user = Nobody
      BY <1>T, <2>3, <3>1 DEF Couriers
    <3>3. ASSUME NEW v \in S
          PROVE  v # mail'[k].sender /\ (Admits(level'[v], mail'[k], v) => <<k, v>> \in allowed')
      <4>1. Admits(level[v], mail'[k], v) <=> Admits(level[v], letter, v)
        BY <2>4, AdmitsByContent
      <4> QED BY <2>3, <2>4, <2>5, <4>1, Zenon
    <3>4. ~ (k > Len(mail'))
      BY <1>0, <2>3
    <3> QED BY <3>2, <3>3, <3>4, Zenon DEF CourierIsFair
  <2>8. pushed' \subseteq allowed'
    BY <1>F, <2>3
  <2>9. \A m \in 1 .. MaxMail : CourierIsFair(m)'
    BY <2>6, <2>7
  <2> QED BY <1>G, <2>8, <2>9
<1>3. ASSUME NEW u \in Members, NEW m \in 1 .. MaxMail, PushTurn(m, u)
      PROVE  PushInv'
  <2>1. PICK r \in Couriers :
            /\ courier' = [courier EXCEPT ![m] = r]
            /\ r.left = courier[m].left \ {u}
            /\ r.user = Nobody \/ (r.user = u /\ WantsPush(u, mail[m], level[u]))
    BY <1>3, TurnEffect
  <2>2. level' = level /\ allowed' = allowed /\ pushed' = pushed /\ mail' = mail /\ u \in courier[m].left
    BY <1>3 DEF PushTurn
  <2>3. ASSUME NEW n \in 1 .. MaxMail, n # m
        PROVE  CourierIsFair(n)'
    <3>1. courier'[n] = courier[n]
      BY <1>T, <2>1, <2>3
    <3> QED BY <1>F, <2>2, <3>1, CourierStaysFair
  <2>4. CourierIsFair(m)'
    <3>1. courier'[m] = r
      BY <1>T, <2>1
    <3>2. CASE r.user = Nobody
      BY <1>F, <2>1, <2>2, <3>1, <3>2, CourierStaysFair
    <3>3. CASE r.user = u /\ WantsPush(u, mail[m], level[u])
      <4>1. m <= Len(mail) /\ ~ (m > Len(mail))
        BY <1>0, <1>S, <1>M, <2>2
      <4>2. Admits(level[u], mail[m], u)
        BY <3>3, WantedIsAdmitted
      <4>3. <<m, u>> \in allowed
        BY <1>F, <2>2, <4>1, <4>2 DEF CourierIsFair
      <4>4. \A v \in r.left : v # mail[m].sender /\ (Admits(level[v], mail[m], v) => <<m, v>> \in allowed)
        BY <1>F, <2>1, <4>1 DEF CourierIsFair
      <4> QED BY <2>2, <3>1, <3>3, <4>1, <4>3, <4>4, Zenon DEF CourierIsFair
    <3> QED BY <2>1, <3>2, <3>3
  <2>5. \A n \in 1 .. MaxMail : CourierIsFair(n)'
    BY <2>3, <2>4
  <2> QED BY <1>F, <1>G, <2>2, <2>5
<1>4. ASSUME NEW u \in Members, NEW m \in 1 .. MaxMail, PushPassedOver(m, u)
      PROVE  PushInv'
  <2>1. /\ courier' = [courier EXCEPT ![m].left = courier[m].left \ {u}]
        /\ level' = level /\ allowed' = allowed /\ pushed' = pushed /\ mail' = mail
    BY <1>4 DEF PushPassedOver
  <2>2. \A n \in 1 .. MaxMail : courier'[n].left \subseteq courier[n].left /\ courier'[n].user = courier[n].user
    BY <1>T, <2>1 DEF Couriers
  <2>3. \A n \in 1 .. MaxMail : CourierIsFair(n)'
    BY <1>F, <2>1, <2>2, CourierStaysFair
  <2> QED BY <1>F, <1>G, <2>1, <2>3
<1>5. ASSUME NEW m \in 1 .. MaxMail, PushDelivered(m) \/ PushFailed(m) \/ PushExpired(m)
      PROVE  PushInv'
  <2>1. /\ courier' = [courier EXCEPT ![m].user = Nobody]
        /\ level' = level /\ allowed' = allowed /\ mail' = mail /\ courier[m].user # Nobody
        /\ pushed' \subseteq pushed \cup {<<m, courier[m].user>>}
    BY <1>5 DEF PushDelivered, PushFailed, PushExpired
  <2>2. \A n \in 1 .. MaxMail : courier'[n].left = courier[n].left /\ courier'[n].user \in {Nobody, courier[n].user}
    BY <1>T, <2>1 DEF Couriers
  <2>3. \A n \in 1 .. MaxMail : CourierIsFair(n)'
    BY <1>F, <2>1, <2>2, CourierStaysFair
  <2>4. <<m, courier[m].user>> \in allowed
    BY <1>F, <2>1 DEF CourierIsFair
  <2> QED BY <1>F, <1>G, <2>1, <2>3, <2>4
<1>6. ASSUME NEW u \in Members, NEW asked \in PreferenceAsked, SetConversationPreferences(u, asked)
      PROVE  PushInv'
  <2>1. PICK lv : lv = EffectiveLevel(asked[1], asked[2])
    OBVIOUS
  <2>2. /\ level' = [level EXCEPT ![u] = lv] /\ mail' = mail /\ courier' = courier /\ pushed' = pushed
        /\ allowed' = allowed \cup
             {<<m, u>> : m \in {n \in 1 .. Len(mail) : mail[n].sender # u /\ Admits(lv, mail[n], u)}}
    BY <1>6, <2>1 DEF SetConversationPreferences
  <2>3. ASSUME NEW m \in 1 .. MaxMail
        PROVE  CourierIsFair(m)'
    <3>1. ASSUME m <= Len(mail), NEW v \in courier[m].left
          PROVE  v # mail[m].sender /\ (Admits(level'[v], mail[m], v) => <<m, v>> \in allowed')
      <4>1. v # mail[m].sender /\ (Admits(level[v], mail[m], v) => <<m, v>> \in allowed)
        BY <1>F, <3>1 DEF CourierIsFair
      <4>2. CASE v = u
        <5>1. level'[v] = lv
          BY <2>2, <4>2 DEF InboxTypeInv
        <5>2. m \in 1 .. Len(mail)
          BY <1>0, <1>M, <3>1
        <5> QED BY <2>2, <4>1, <4>2, <5>1, <5>2, Zenon
      <4>3. CASE v # u
        <5>1. v \in Members
          BY <1>T DEF Couriers
        <5>2. level'[v] = level[v]
          BY <2>2, <4>3, <5>1 DEF InboxTypeInv
        <5> QED BY <2>2, <4>1, <5>2, Zenon
      <4> QED BY <4>2, <4>3
    <3>2. allowed \subseteq allowed'
      BY <2>2
    <3>3. /\ m > Len(mail) => courier[m].left = {} /\ courier[m].user = Nobody
          /\ courier[m].user # Nobody => <<m, courier[m].user>> \in allowed'
      BY <1>F, <3>2 DEF CourierIsFair
    <3>4. mail' = mail /\ courier' = courier
      BY <2>2
    <3> QED BY <3>1, <3>3, <3>4, Zenon DEF CourierIsFair
  <2> QED BY <1>F, <1>G, <2>2, <2>3
<1>7. ASSUME NEW m \in 1 .. MaxMail, RecallMail(m)
      PROVE  Len(mail') = Len(mail) /\ UNCHANGED <<courier, level, allowed, pushed>>
  BY <1>7, RecalledMailIsMail DEF RecallMail
<1>8. \/ UNCHANGED <<courier, level, allowed, pushed>> /\ Len(mail') = Len(mail)
      \/ \E u \in Members, letter \in Letters : PostMessage(u, letter)
      \/ \E u \in Members, m \in 1 .. MaxMail : PushTurn(m, u) \/ PushPassedOver(m, u)
      \/ \E m \in 1 .. MaxMail : PushDelivered(m) \/ PushFailed(m) \/ PushExpired(m) \/ RecallMail(m)
      \/ \E u \in Members, asked \in PreferenceAsked : SetConversationPreferences(u, asked)
  BY DEF InboxNext, inboxVars, RegisterPush, UnregisterPush, LeaveConversation, MarkReadSelect, MarkReadUpsert,
         ReactCheck, ReactStore
<1> QED BY <1>1, <1>2, <1>3, <1>4, <1>5, <1>6, <1>7, <1>8, Zenon

-----------------------------------------------------------------------------
(* The theorem *)

\* The initial states satisfy the inductive invariant ...
LEMMA InboxStarts == InboxInit => InboxInv
<1> SUFFICES ASSUME InboxInit PROVE InboxInv
  OBVIOUS
<1>0. MaxMail \in Nat /\ \A m \in 1 .. MaxMail : m \in Nat /\ m >= 1
  BY MailNumbers
<1>M. mail = <<>> /\ Len(mail) = 0
  BY DEF InboxInit
<1>1. InboxTypeInv
  <2>1. IdleDevice \in DeviceStates /\ Sleeping \in Couriers
    BY DEF IdleDevice, DeviceStates, Sleeping, Couriers
  <2>2. mail \in Seq(MailRows) /\ Len(mail) <= MaxMail
    BY <1>0, <1>M
  <2> QED BY <2>1, <2>2 DEF InboxInit, InboxTypeInv
<1>2. MarksInv
  <2>1. \A d \in Devices : device[d].step = "idle" /\ device[d].user = Nobody /\ device[d].newest = 0
    BY DEF InboxInit, IdleDevice
  <2>2. \A u \in Members : mark[u] = 0
    BY DEF InboxInit
  <2>3. MarksNameMail
    BY <1>M, <2>1, <2>2 DEF MarksNameMail
  <2>4. Nobody \notin Members
    BY InboxAssumption, Zenon DEF Nobody
  <2>5. OneMarkAtATime
    BY <2>1, <2>4, Zenon DEF OneMarkAtATime
  <2> QED BY <2>3, <2>5 DEF MarksInv
<1>3. PushInv
  <2>1. \A m \in 1 .. MaxMail : courier[m].left = {} /\ courier[m].user = Nobody
    BY DEF InboxInit, Sleeping
  <2>2. \A m \in 1 .. MaxMail : CourierIsFair(m)
    BY <2>1 DEF CourierIsFair
  <2>3. PushesAreWanted
    BY DEF InboxInit, PushesAreWanted
  <2> QED BY <2>2, <2>3 DEF PushInv, CouriersAreFair
<1> QED BY <1>1, <1>2, <1>3 DEF InboxInv

\* ... and every step keeps it.
LEMMA InboxSteps == InboxInv /\ [InboxNext]_inboxVars => InboxInv'
  BY InboxTypeStep, MarksStep, PushStep, Zenon DEF InboxInv

\* What a member has read is not unread again, unless the marks of two devices
\* met: the set of unread messages only shrinks while no message arrives.
LEMMA UnreadShrinks ==
  ASSUME InboxInv, [InboxNext]_inboxVars, NEW u \in Members, u \notin marksMet', UnreadCount(u)' > UnreadCount(u)
  PROVE  Len(mail') > Len(mail)
<1>0. /\ Len(mail) \in Nat /\ Len(mail') \in Nat /\ Len(mail) <= Len(mail')
      /\ \A m \in 1 .. Len(mail) : mail'[m].sender = mail[m].sender
  BY MailIsKept DEF InboxInv
<1>1. mark[u] \in Nat /\ mark'[u] \in Nat /\ mark[u] <= mark'[u]
  BY MarksGrow DEF InboxInv
<1>2. SUFFICES ASSUME Len(mail') = Len(mail) PROVE FALSE
  BY <1>0
<1>3. PICK S : S = {m \in 1 .. Len(mail) : mail[m].sender # u /\ m > mark[u]}
  OBVIOUS
<1>4. PICK T : T = {m \in 1 .. Len(mail') : mail'[m].sender # u /\ m > mark'[u]}
  OBVIOUS
<1>5. T \subseteq S
  BY <1>0, <1>1, <1>2, <1>3, <1>4
<1>6. IsFiniteSet(S)
  <2>1. IsFiniteSet(1 .. Len(mail))
    BY <1>0, FS_Interval
  <2> QED BY <1>3, <2>1, FS_Subset
<1>7. Cardinality(S) \in Nat /\ Cardinality(T) \in Nat /\ Cardinality(T) <= Cardinality(S)
  BY <1>5, <1>6, FS_Subset, FS_CardinalityType
<1>8. UnreadCount(u) = Cardinality(S) /\ UnreadCount(u)' = Cardinality(T)
  BY <1>3, <1>4 DEF UnreadCount
<1> QED BY <1>7, <1>8

\* A message somebody has read stays read, with the same exception.
LEMMA ReadStaysRead ==
  ASSUME InboxInv, [InboxNext]_inboxVars, NEW m \in 1 .. Len(mail), marksMet' = {}, belongs' = belongs,
         MessageStatus(m) = "read"
  PROVE  MessageStatus(m)' = "read"
<1>0. Len(mail) \in Nat /\ mail'[m].sender = mail[m].sender
  BY MailIsKept DEF InboxInv
<1>1. PICK S : S = {u \in belongs \ {mail[m].sender} : mark[u] # 0 /\ mark[u] >= m}
  OBVIOUS
<1>2. PICK T : T = {u \in belongs' \ {mail'[m].sender} : mark'[u] # 0 /\ mark'[u] >= m}
  OBVIOUS
<1>3. belongs \subseteq Members
  BY DEF InboxInv, InboxTypeInv
<1>4. \A u \in Members : mark[u] \in Nat /\ mark'[u] \in Nat /\ mark[u] <= mark'[u]
  BY MarksGrow DEF InboxInv
<1>5. S \subseteq T
  BY <1>0, <1>1, <1>2, <1>3, <1>4
<1>6. IsFiniteSet(S) /\ IsFiniteSet(T)
  <2>1. S \subseteq Members /\ T \subseteq Members
    BY <1>1, <1>2, <1>3
  <2> QED BY <2>1, InboxAssumption, FS_Subset
<1>7. Cardinality(S) \in Nat /\ Cardinality(T) \in Nat /\ Cardinality(S) <= Cardinality(T)
  BY <1>5, <1>6, FS_Subset, FS_CardinalityType
<1>8. ReadCount(m) = Cardinality(S) /\ ReadCount(m)' = Cardinality(T)
  BY <1>1, <1>2 DEF ReadCount, ConversationRecipients, HasReadMessage
<1>9. Cardinality(S) > 0
  BY <1>7, <1>8 DEF MessageStatus
<1> QED BY <1>7, <1>8, <1>9 DEF MessageStatus

\* A recalled message gets no new reaction.
LEMMA RecalledStaysQuiet ==
  ASSUME [InboxNext]_inboxVars, NEW m \in 1 .. Len(mail), mail[m].recalled, NEW r \in liked', r[1] = m
  PROVE  r \in liked
<1>1. CASE liked' = liked
  BY <1>1
<1>2. CASE ReactStore
  <2>1. CASE mail[reaction.message].recalled
    BY <1>2, <2>1 DEF ReactStore
  <2>2. CASE ~ mail[reaction.message].recalled
    <3>1. reaction.message # m
      BY <2>2
    <3>2. r \in liked \cup {<<reaction.message, reaction.user>>}
      BY <1>2, <2>2 DEF ReactStore, Reacted
    <3>3. r # <<reaction.message, reaction.user>>
      BY <3>1
    <3> QED BY <3>2, <3>3
  <2> QED BY <2>1, <2>2
<1>3. ReactStore \/ liked' = liked
  BY DEF InboxNext, inboxVars, PostMessage, PushTurn, PushPassedOver, PushDelivered, PushFailed, PushExpired,
         RegisterPush, UnregisterPush, LeaveConversation, SetConversationPreferences, RecallMail,
         ReactCheck, MarkReadSelect, MarkReadUpsert
<1> QED BY <1>1, <1>2, <1>3

\* What a member sees of the conversation, for any number of members, devices
\* and messages: the unread count of handleGetConversations grows only by a
\* new message and the status of handleGetMessages stays "read", unless the two
\* statements of MarkConversationRead met those of another device of the
\* member; a recalled message gets no new reaction; and no notification goes
\* out against a level that held since the message was stored.
THEOREM InboxStaysFaithful == InboxSpec => InboxIsFaithful
<1>1. InboxInv /\ [InboxNext]_inboxVars =>
        [\A u \in Members \ marksMet' : UnreadCount(u)' > UnreadCount(u) => Len(mail') > Len(mail)]_inboxVars
  BY UnreadShrinks
<1>2. InboxInv /\ [InboxNext]_inboxVars =>
        [\A m \in 1 .. Len(mail) :
           marksMet' = {} /\ belongs' = belongs /\ MessageStatus(m) = "read" => MessageStatus(m)' = "read"]_inboxVars
  BY ReadStaysRead
<1>3. InboxInv /\ [InboxNext]_inboxVars =>
        [\A m \in 1 .. Len(mail) : mail[m].recalled =>
           {r \in liked' : r[1] = m} \subseteq {r \in liked : r[1] = m}]_inboxVars
  BY RecalledStaysQuiet, Zenon
<1>4. InboxInv => PushesAreWanted
  BY DEF InboxInv, PushInv
<1> QED BY <1>1, <1>2, <1>3, <1>4, InboxStarts, InboxSteps, PTL
        DEF InboxSpec, InboxIsFaithful, UnreadGrowsByMail, StatusStaysRead, RecalledGetsNoReaction

(*************************************************************************)
(* GroupBoard                                                            *)
(*************************************************************************)

(* The inductive invariant *)

BoardRows == [name : GroupNames, text : BoardTexts \cup {NoText}, muteAll : BOOLEAN]
BoardWork == [step : BoardSteps, notice : Nat, row : BoardRows, value : BoardRows,
              field : {"none", "name", "text"}, alone : BOOLEAN]

BoardTypeInv ==
    /\ row \in BoardRows
    /\ board \subseteq Notices
    /\ manager \in [BoardPumps -> BoardWork]
    /\ posts \in 0 .. MaxPosts /\ boardRequests \in 0 .. MaxBoardRequests
    /\ wanted \in [name : GroupNames, muteAll : BOOLEAN]
    /\ mixed \in BOOLEAN /\ aligned \in BOOLEAN
    /\ \A p \in BoardPumps : manager[p].step = "update" => manager[p].field # "none"

\* A new announcement gets a number no other one has.
NumbersAreUnique ==
    /\ \A a \in board : a.id <= posts
    /\ \A a, b \in board : a.id = b.id => a = b

BusyOn(p) == manager[p].step # "idle"

\* While a request is alone nobody else is running, and the text that
\* syncLegacyGroupAnnouncement is about to write is that of the board.
AloneInv ==
    /\ \A p, q \in BoardPumps : BusyOn(p) /\ manager[p].alone /\ BusyOn(q) => p = q
    /\ \A p \in BoardPumps : manager[p].alone /\ manager[p].step = "sync_write" => manager[p].row.text = FirstText

\* Once the text was written undisturbed it is that of the board, except while
\* a lone request that changed the board has still to write it; update_group
\* and group_mute_all hold a copy of the row with the same text.
AlignedAt(p) ==
    /\ manager[p].step \in {"publish", "project"} => row.text = FirstText
    /\ manager[p].step \in {"update", "project", "mute"} => manager[p].row.text = FirstText
AlignedInv ==
    aligned => /\ BoardQuiet => row.text = FirstText
               /\ \A p \in BoardPumps : BusyOn(p) => manager[p].alone /\ AlignedAt(p)

\* As long as requests did not overlap the row, and every copy of it, has the
\* name and the mute state confirmed last; update_group is ahead of what it
\* confirms by one step.
Confirmed(r) == r.name = wanted.name /\ r.muteAll = wanted.muteAll
SettingsAt(p) ==
    /\ manager[p].step # "project" => Confirmed(row)
    /\ manager[p].step \in {"sync_board", "sync_write", "update", "project", "mute"} => Confirmed(manager[p].row)
    /\ manager[p].step = "project" =>
         /\ row.muteAll = wanted.muteAll
         /\ row.name = IF manager[p].field = "name" THEN manager[p].value.name ELSE wanted.name
MixedInv ==
    ~ mixed => /\ BoardQuiet => Confirmed(row)
               /\ \A p \in BoardPumps : BusyOn(p) => manager[p].alone /\ SettingsAt(p)

BoardInv == BoardTypeInv /\ NumbersAreUnique /\ AloneInv /\ AlignedInv /\ MixedInv

-----------------------------------------------------------------------------
(* The operators *)

\* The bounds are numbers.
LEMMA BoardBounds == MaxPosts \in Nat /\ MaxBoardRequests \in Nat
  BY BoardAssumption

\* The row of a request that has read nothing is a row ...
LEMMA UnreadIsARow == Unread \in BoardRows /\ Unread.name \in GroupNames /\ Unread.text = NoText
<1>1. (CHOOSE n \in GroupNames : TRUE) \in GroupNames
  BY BoardAssumption
<1> QED BY <1>1 DEF Unread, BoardRows

\* ... and its record is one of a goroutine at rest.
LEMMA RestingIsWork == Resting \in BoardWork /\ Resting.step = "idle"
  BY UnreadIsARow DEF Resting, BoardWork, BoardSteps

\* Among announcements there is one that was changed last.
LEMMA LatestExists ==
  ASSUME NEW S \in SUBSET Notices, S # {}
  PROVE  \E a \in S : \A b \in S : a.at >= b.at
<1>1. PICK N : N = MaxPosts + MaxBoardRequests
  OBVIOUS
<1>2. N \in Nat /\ \A a \in S : a.at \in 0 .. N
  BY <1>1, BoardBounds DEF Notices
<1>3. PICK T : T = {N - a.at : a \in S}
  OBVIOUS
<1>4. T \subseteq Nat /\ T # {}
  BY <1>2, <1>3
<1>5. PICK x \in T : \A y \in T : ~ (<<y, x>> \in OpToRel(<, Nat))
  BY <1>4, WFMin, NatLessThanWellFounded
<1>6. \A y \in T : ~ (y < x)
  BY <1>4, <1>5 DEF OpToRel
<1>7. PICK a \in S : x = N - a.at
  BY <1>3
<1>8. ASSUME NEW b \in S PROVE a.at >= b.at
  <2>1. N - b.at \in T
    BY <1>3
  <2>2. ~ (N - b.at < N - a.at)
    BY <1>6, <1>7, <2>1
  <2> QED BY <1>2, <2>2
<1> QED BY <1>8

\* GetGroupAnnouncements has a first announcement, so its text is a text.
LEMMA FirstTextIsAText ==
  ASSUME board \subseteq Notices
  PROVE  FirstText \in BoardTexts \cup {NoText}
<1>1. CASE board = {}
  BY <1>1 DEF FirstText
<1>2. CASE board # {}
  <2>1. \E a \in board : \A b \in board : ListedFirst(a, b)
    <3>1. CASE \E a \in board : a.pinned
      <4>1. PICK S : S = {a \in board : a.pinned}
        OBVIOUS
      <4>2. PICK a \in S : \A b \in S : a.at >= b.at
        BY <3>1, <4>1, LatestExists
      <4> QED BY <4>1, <4>2 DEF ListedFirst, Notices
    <3>2. CASE ~ \E a \in board : a.pinned
      <4>1. PICK a \in board : \A b \in board : a.at >= b.at
        BY <1>2, LatestExists
      <4> QED BY <3>2, <4>1 DEF ListedFirst, Notices
    <3> QED BY <3>1, <3>2
  <2>2. (CHOOSE a \in board : \A b \in board : ListedFirst(a, b)) \in board
    BY <2>1
  <2> QED BY <1>2, <2>2 DEF FirstText, Notices
<1> QED BY <1>1, <1>2

\* It depends on the board alone.
LEMMA FirstTextKept == ASSUME board' = board PROVE FirstText' = FirstText
  BY DEF FirstText

-----------------------------------------------------------------------------
(* What a request does when it starts *)

\* What the start of a request leaves in its own record and in the others.
LEMMA BeginEffect ==
  ASSUME BoardTypeInv, NEW p \in BoardPumps, NEW state \in BoardWork, state.step # "idle", Begins(p, state)
  PROVE  /\ manager' \in [BoardPumps -> BoardWork]
         /\ manager'[p].step = state.step /\ manager'[p].row = state.row /\ manager'[p].alone = BoardQuiet
         /\ manager'[p].field = state.field
         /\ \A q \in BoardPumps : q # p => /\ manager'[q].step = manager[q].step /\ manager'[q].alone = FALSE
                                         /\ manager'[q].field = manager[q].field
         /\ ~ BoardQuiet' /\ BoardQuiet \in BOOLEAN
         /\ boardRequests' \in 0 .. MaxBoardRequests
         /\ boardRequests \in Nat /\ boardRequests + 1 <= MaxBoardRequests
<1>0. BoardQuiet \in BOOLEAN
  BY DEF BoardQuiet
<1>1. PICK s : s = [state EXCEPT !.alone = BoardQuiet]
  OBVIOUS
<1>2. s \in BoardWork /\ s.step = state.step /\ s.row = state.row /\ s.field = state.field /\ s.alone = BoardQuiet
  BY <1>0, <1>1 DEF BoardWork
<1>3. manager' = [q \in BoardPumps |-> IF q = p THEN s ELSE [manager[q] EXCEPT !.alone = FALSE]]
  BY <1>1 DEF Begins
<1>4. ASSUME NEW q \in BoardPumps
      PROVE  /\ [manager[q] EXCEPT !.alone = FALSE] \in BoardWork
             /\ [manager[q] EXCEPT !.alone = FALSE].step = manager[q].step
             /\ [manager[q] EXCEPT !.alone = FALSE].alone = FALSE
             /\ [manager[q] EXCEPT !.alone = FALSE].field = manager[q].field
  <2>1. manager[q] \in BoardWork
    BY DEF BoardTypeInv
  <2> QED BY <2>1 DEF BoardWork
<1>5. manager' \in [BoardPumps -> BoardWork]
  BY <1>2, <1>3, <1>4
<1>6. manager'[p] = s
  BY <1>3
<1>7. \A q \in BoardPumps : q # p => /\ manager'[q].step = manager[q].step /\ manager'[q].alone = FALSE
                                   /\ manager'[q].field = manager[q].field
  BY <1>3, <1>4
<1>8. ~ BoardQuiet'
  BY <1>2, <1>6 DEF BoardQuiet
<1>9. boardRequests \in Nat /\ boardRequests + 1 <= MaxBoardRequests /\ boardRequests' \in 0 .. MaxBoardRequests
  BY BoardBounds DEF Begins, BoardTypeInv
<1> QED BY <1>0, <1>2, <1>5, <1>6, <1>7, <1>8, <1>9

\* The records that requests start with.
LEMMA StartingWork ==
  ASSUME BoardTypeInv
  PROVE  /\ \A n \in Nat, st \in {"read_own", "sync_group"} :
              /\ [Resting EXCEPT !.step = st, !.notice = n] \in BoardWork
              /\ [Resting EXCEPT !.step = st, !.notice = n].step = st
         /\ \A f \in {"name", "text"}, v \in BoardRows :
              /\ [Resting EXCEPT !.step = "update", !.field = f, !.row = row, !.value = v] \in BoardWork
              /\ [Resting EXCEPT !.step = "update", !.field = f, !.row = row, !.value = v].step = "update"
              /\ [Resting EXCEPT !.step = "update", !.field = f, !.row = row, !.value = v].row = row
              /\ [Resting EXCEPT !.step = "update", !.field = f, !.row = row, !.value = v].field = f
         /\ \A v \in BoardRows :
              /\ [Resting EXCEPT !.step = "mute", !.row = row, !.value = v] \in BoardWork
              /\ [Resting EXCEPT !.step = "mute", !.row = row, !.value = v].step = "mute"
              /\ [Resting EXCEPT !.step = "mute", !.row = row, !.value = v].row = row
<1>1. Resting \in BoardWork /\ row \in BoardRows
  BY RestingIsWork DEF BoardTypeInv
<1> QED BY <1>1 DEF BoardWork, BoardSteps

\* A step with which a request starts, as far as the invariants see it.
StartsOn(p) ==
    /\ manager' \in [BoardPumps -> BoardWork]
    /\ manager'[p].step \in {"read_own", "sync_group", "update", "mute"}
    /\ manager'[p].step \in {"update", "mute"} => manager'[p].row = row /\ board' = board
    /\ manager'[p].alone = BoardQuiet
    /\ manager'[p].step = "update" => manager'[p].field # "none"
    /\ \A q \in BoardPumps : q # p => /\ manager'[q].step = manager[q].step /\ manager'[q].alone = FALSE
                                    /\ manager'[q].field = manager[q].field
    /\ ~ BoardQuiet' /\ BoardQuiet \in BOOLEAN
    /\ mixed' = (mixed \/ ~ BoardQuiet) /\ aligned' = (aligned /\ BoardQuiet)
    /\ row' = row /\ wanted' = wanted
    /\ boardRequests' \in 0 .. MaxBoardRequests /\ posts' \in 0 .. MaxPosts
    /\ board' \subseteq Notices
    /\ NumbersAreUnique'

\* The time stamp of a change is within the bounds.
LEMMA StampIsATime ==
  ASSUME BoardTypeInv, boardRequests + 1 <= MaxBoardRequests
  PROVE  Stamp \in 0 .. MaxPosts + MaxBoardRequests
  BY BoardBounds DEF Stamp, BoardTypeInv

\* Every request of the clients begins with StartsOn.
LEMMA RequestStarts ==
  ASSUME BoardTypeInv, NumbersAreUnique, NEW p \in BoardPumps, BoardRequest(p)
  PROVE  StartsOn(p)
<1>0. posts \in Nat /\ posts <= MaxPosts /\ board \subseteq Notices
  BY BoardBounds DEF BoardTypeInv
<1>1. ASSUME NEW content \in BoardTexts, NEW pinned \in BOOLEAN, CreateAnnouncement(p, content, pinned)
      PROVE  StartsOn(p)
  <2>0. PICK n \in Nat : n = posts + 1
    BY <1>0
  <2>1. PICK s : s = [Resting EXCEPT !.step = "read_own", !.notice = n]
    OBVIOUS
  <2>2. s \in BoardWork /\ s.step = "read_own"
    BY <2>0, <2>1, StartingWork
  <2>3. Begins(p, s) /\ posts' = posts + 1 /\ posts < MaxPosts /\ row' = row /\ wanted' = wanted
    BY <1>1, <2>0, <2>1 DEF CreateAnnouncement
  <2>4. PICK a : a = [id |-> posts + 1, content |-> content, pinned |-> pinned, at |-> Stamp]
    OBVIOUS
  <2>5. board' = board \cup {a}
    BY <1>1, <2>4 DEF CreateAnnouncement
  <2>6. posts' \in 0 .. MaxPosts /\ posts' \in Nat
    BY <1>0, <2>3, BoardBounds
  <2>7. boardRequests + 1 <= MaxBoardRequests
    BY <2>2, <2>3, BeginEffect
  <2>8. Stamp \in 0 .. MaxPosts + MaxBoardRequests
    BY <2>7, StampIsATime
  <2>9. a \in Notices /\ a.id = posts + 1
    <3>1. posts + 1 \in 0 .. MaxPosts
      BY <2>3, <2>6
    <3> QED BY <2>4, <2>8, <3>1 DEF Notices
  <2>10. NumbersAreUnique'
    <3>1. \A b \in board : b.id <= posts /\ b.id \in Nat
      BY <1>0 DEF NumbersAreUnique, Notices
    <3>2. \A b \in board' : b.id <= posts'
      BY <1>0, <2>3, <2>5, <2>9, <3>1
    <3>3. \A b, c \in board' : b.id = c.id => b = c
      BY <1>0, <2>5, <2>9, <3>1 DEF NumbersAreUnique
    <3> QED BY <3>2, <3>3 DEF NumbersAreUnique
  <2>11. mixed' = (mixed \/ ~ BoardQuiet) /\ aligned' = (aligned /\ BoardQuiet)
    BY <2>3, Zenon DEF Begins
  <2> QED BY <1>0, <2>2, <2>3, <2>5, <2>6, <2>9, <2>10, <2>11, BeginEffect DEF StartsOn
<1>2. ASSUME NEW content \in BoardTexts, NEW pinned \in BOOLEAN, NEW a \in board,
             EditAnnouncement(p, a, content, pinned)
      PROVE  StartsOn(p)
  <2>0. a \in Notices /\ a.id \in Nat
    BY <1>0, BoardBounds DEF Notices
  <2>1. PICK s : s = [Resting EXCEPT !.step = "read_own", !.notice = a.id]
    OBVIOUS
  <2>2. s \in BoardWork /\ s.step = "read_own"
    BY <2>0, <2>1, StartingWork
  <2>3. Begins(p, s) /\ posts' = posts /\ row' = row /\ wanted' = wanted
    BY <1>2, <2>1 DEF EditAnnouncement
  <2>4. PICK b : b = [a EXCEPT !.content = content, !.pinned = pinned, !.at = Stamp]
    OBVIOUS
  <2>5. board' = (board \ {a}) \cup {b}
    BY <1>2, <2>4 DEF EditAnnouncement
  <2>7. boardRequests + 1 <= MaxBoardRequests
    BY <2>2, <2>3, BeginEffect
  <2>8. Stamp \in 0 .. MaxPosts + MaxBoardRequests
    BY <2>7, StampIsATime
  <2>9. b \in Notices /\ b.id = a.id
    BY <2>0, <2>4, <2>8 DEF Notices
  <2>10. NumbersAreUnique'
    <3>1. \A c \in board' : c.id <= posts'
      BY <2>3, <2>5, <2>9 DEF NumbersAreUnique
    <3>2. \A c, d \in board' : c.id = d.id => c = d
      BY <2>5, <2>9 DEF NumbersAreUnique
    <3> QED BY <3>1, <3>2 DEF NumbersAreUnique
  <2>11. mixed' = (mixed \/ ~ BoardQuiet) /\ aligned' = (aligned /\ BoardQuiet)
    BY <2>3, Zenon DEF Begins
  <2>12. posts' \in 0 .. MaxPosts
    BY <2>3 DEF BoardTypeInv
  <2> QED BY <1>0, <2>2, <2>3, <2>5, <2>9, <2>10, <2>11, <2>12, BeginEffect DEF StartsOn
<1>3. ASSUME NEW a \in board, DropAnnouncement(p, a)
      PROVE  StartsOn(p)
  <2>0. a.id \in Nat
    BY <1>0, BoardBounds DEF Notices
  <2>1. PICK s : s = [Resting EXCEPT !.step = "sync_group", !.notice = a.id]
    OBVIOUS
  <2>2. s \in BoardWork /\ s.step = "sync_group"
    BY <2>0, <2>1, StartingWork
  <2>3. Begins(p, s) /\ posts' = posts /\ row' = row /\ wanted' = wanted /\ board' = board \ {a}
    BY <1>3, <2>1 DEF DropAnnouncement
  <2>4. NumbersAreUnique'
    BY <2>3 DEF NumbersAreUnique
  <2>5. mixed' = (mixed \/ ~ BoardQuiet) /\ aligned' = (aligned /\ BoardQuiet)
    BY <2>3, Zenon DEF Begins
  <2>6. posts' \in 0 .. MaxPosts /\ board' \subseteq Notices
    BY <2>3 DEF BoardTypeInv
  <2> QED BY <2>2, <2>3, <2>4, <2>5, <2>6, BeginEffect DEF StartsOn
<1>4. ASSUME NEW s \in BoardWork, s.step \in {"update", "mute"}, s.row = row, Begins(p, s),
             s.step = "update" => s.field # "none",
             UNCHANGED <<row, board, posts, wanted>>
      PROVE  StartsOn(p)
  <2>1. row' = row /\ board' = board /\ posts' = posts /\ wanted' = wanted
    BY <1>4
  <2>2. NumbersAreUnique'
    BY <2>1 DEF NumbersAreUnique
  <2>3. mixed' = (mixed \/ ~ BoardQuiet) /\ aligned' = (aligned /\ BoardQuiet)
    BY <1>4, Zenon DEF Begins
  <2>4. posts' \in 0 .. MaxPosts /\ board' \subseteq Notices
    BY <2>1 DEF BoardTypeInv
  <2>5. s.step # "idle"
    BY <1>4
  <2> QED BY <1>4, <2>1, <2>2, <2>3, <2>4, <2>5, BeginEffect DEF StartsOn
<1>5. ASSUME NEW f \in {"name", "text"}, NEW v \in BoardRows, BeginUpdateGroup(p, f, v)
      PROVE  StartsOn(p)
  <2>1. PICK s : s = [Resting EXCEPT !.step = "update", !.field = f, !.row = row, !.value = v]
    OBVIOUS
  <2>2. s \in BoardWork /\ s.step = "update" /\ s.row = row /\ s.field # "none"
    BY <2>1, StartingWork
  <2>3. Begins(p, s) /\ UNCHANGED <<row, board, posts, wanted>>
    BY <1>5, <2>1 DEF BeginUpdateGroup
  <2> QED BY <1>4, <2>2, <2>3
<1>6. ASSUME NEW on \in BOOLEAN, BeginMuteAll(p, on)
      PROVE  StartsOn(p)
  <2>0. PICK v : v = [Unread EXCEPT !.muteAll = on]
    OBVIOUS
  <2>1. v \in BoardRows
    BY <2>0, UnreadIsARow DEF BoardRows
  <2>2. PICK s : s = [Resting EXCEPT !.step = "mute", !.row = row, !.value = v]
    OBVIOUS
  <2>3. s \in BoardWork /\ s.step = "mute" /\ s.row = row
    BY <2>1, <2>2, StartingWork
  <2>4. Begins(p, s) /\ UNCHANGED <<row, board, posts, wanted>>
    BY <1>6, <2>0, <2>2 DEF BeginMuteAll
  <2> QED BY <1>4, <2>3, <2>4
<1>7. /\ \A name \in GroupNames : [Unread EXCEPT !.name = name] \in BoardRows
      /\ \A text \in BoardTexts \cup {NoText} : [Unread EXCEPT !.text = text] \in BoardRows
  BY UnreadIsARow DEF BoardRows
<1> QED BY <1>1, <1>2, <1>3, <1>5, <1>6, <1>7 DEF BoardRequest

-----------------------------------------------------------------------------
(* What a running request does *)

OwnStep(p) ==
    \/ MarkOwnRead(p) \/ SyncReadGroup(p) \/ SyncReadBoard(p) \/ SyncWrite(p) \/ SyncFails(p) \/ Publish(p)
    \/ CommitUpdateGroup(p) \/ ConfirmUpdateGroup(p) \/ UndoUpdateGroup(p) \/ CommitMuteAll(p)

KeepsRow == row' = row /\ wanted' = wanted /\ aligned' = aligned

\* The request moves from step to step; what it has read stays with it.
Moves(m, n, from, to) == m.step = from /\ n.step = to /\ n.alone = m.alone /\ n.field = m.field /\ n.value = m.value

\* The steps of a request, as far as the invariants see them.
OwnMove(m, n) ==
    \/ Moves(m, n, "read_own", "sync_group") /\ n.row = m.row /\ KeepsRow
    \/ Moves(m, n, "sync_group", "sync_board") /\ n.row = row /\ KeepsRow
    \/ /\ Moves(m, n, "sync_board", "sync_write") /\ KeepsRow
       /\ n.row.name = m.row.name /\ n.row.muteAll = m.row.muteAll /\ n.row.text = FirstText
    \/ Moves(m, n, "sync_write", "publish") /\ row' = m.row /\ wanted' = wanted /\ aligned' = (aligned \/ m.alone)
    \/ /\ \E from \in {"sync_group", "sync_board", "sync_write"} : Moves(m, n, from, "publish")
       /\ row' = row /\ wanted' = wanted /\ ~ aligned'
    \/ m.step = "publish" /\ n.step = "idle" /\ KeepsRow
    \/ /\ Moves(m, n, "update", "project") /\ n.row = m.row /\ wanted' = wanted
       /\ row'.muteAll = m.row.muteAll
       /\ row'.name = IF m.field = "name" THEN m.value.name ELSE m.row.name
       /\ m.field = "name" => row'.text = m.row.text
       /\ aligned' = (aligned /\ m.field # "text")
    \/ /\ m.step = "project" /\ n.step = "idle" /\ row' = row /\ aligned' = aligned
       /\ wanted'.name = IF m.field = "name" THEN m.value.name ELSE wanted.name
       /\ wanted'.muteAll = wanted.muteAll
    \/ m.step = "project" /\ n.step = "idle" /\ row' = m.row /\ wanted' = wanted /\ aligned' = aligned
    \/ /\ m.step = "mute" /\ n.step = "idle" /\ aligned' = aligned
       /\ row'.name = m.row.name /\ row'.text = m.row.text /\ wanted'.name = wanted.name
       /\ row'.muteAll = wanted'.muteAll

MovesOn(p) ==
    /\ manager' \in [BoardPumps -> BoardWork]
    /\ \A q \in BoardPumps : q # p => manager'[q] = manager[q]
    /\ OwnMove(manager[p], manager'[p])
    /\ manager[p].step # "idle"
    /\ board' = board /\ posts' = posts /\ boardRequests' = boardRequests /\ mixed' = mixed
    /\ row' \in BoardRows /\ wanted' \in [name : GroupNames, muteAll : BOOLEAN] /\ aligned' \in BOOLEAN

\* One record of the table changes.
LEMMA OneStepsOn ==
  ASSUME BoardTypeInv, NEW p \in BoardPumps, NEW n \in BoardWork, manager' = [manager EXCEPT ![p] = n]
  PROVE  /\ manager' \in [BoardPumps -> BoardWork] /\ manager'[p] = n
         /\ \A q \in BoardPumps : q # p => manager'[q] = manager[q]
  BY DEF BoardTypeInv

\* The step of a record changes, and with it the copy of the row.
LEMMA NextStep ==
  ASSUME NEW m \in BoardWork, NEW st \in BoardSteps, NEW r \in BoardRows
  PROVE  /\ [m EXCEPT !.step = st] \in BoardWork /\ Moves(m, [m EXCEPT !.step = st], m.step, st)
         /\ [m EXCEPT !.step = st].row = m.row
         /\ [m EXCEPT !.step = st, !.row = r] \in BoardWork /\ Moves(m, [m EXCEPT !.step = st, !.row = r], m.step, st)
         /\ [m EXCEPT !.step = st, !.row = r].row = r
<1>1. /\ [m EXCEPT !.step = st] \in BoardWork
      /\ [m EXCEPT !.step = st].row = m.row
      /\ [m EXCEPT !.step = st, !.row = r] \in BoardWork
      /\ [m EXCEPT !.step = st, !.row = r].row = r
  BY DEF BoardWork
<1>2. Moves(m, [m EXCEPT !.step = st], m.step, st)
  BY DEF Moves, BoardWork
<1>3. Moves(m, [m EXCEPT !.step = st, !.row = r], m.step, st)
  BY DEF Moves, BoardWork
<1> QED BY <1>1, <1>2, <1>3

\* Every further step of a handler is one of the moves OwnMove lists.
LEMMA RequestMoves ==
  ASSUME BoardTypeInv, NEW p \in BoardPumps, OwnStep(p)
  PROVE  MovesOn(p)
<1>0. PICK m \in BoardWork : m = manager[p]
  BY DEF BoardTypeInv
<1>T. /\ row \in BoardRows /\ m.row \in BoardRows /\ m.value \in BoardRows /\ m.alone \in BOOLEAN /\ aligned \in BOOLEAN
      /\ wanted \in [name : GroupNames, muteAll : BOOLEAN] /\ m.field \in {"none", "name", "text"}
  BY <1>0 DEF BoardTypeInv, BoardWork
<1>S. ASSUME NEW n \in BoardWork, manager' = [manager EXCEPT ![p] = n], OwnMove(m, n), m.step # "idle",
             UNCHANGED <<board, posts, boardRequests, mixed>>,
             row' \in BoardRows, wanted' \in [name : GroupNames, muteAll : BOOLEAN], aligned' \in BOOLEAN
      PROVE  MovesOn(p)
  <2>1. /\ manager' \in [BoardPumps -> BoardWork] /\ manager'[p] = n
        /\ \A q \in BoardPumps : q # p => manager'[q] = manager[q]
    BY <1>S, OneStepsOn
  <2>2. OwnMove(manager[p], manager'[p])
    BY <1>0, <1>S, <2>1
  <2> QED BY <1>0, <1>S, <2>1, <2>2 DEF MovesOn
<1>R. Resting \in BoardWork /\ Resting.step = "idle"
  BY RestingIsWork
<1>1. CASE MarkOwnRead(p)
  <2>1. PICK n : n = [m EXCEPT !.step = "sync_group"]
    OBVIOUS
  <2>2. n \in BoardWork /\ Moves(m, n, m.step, "sync_group") /\ n.row = m.row
    BY <2>1, <1>T, NextStep DEF BoardSteps
  <2>3. manager' = [manager EXCEPT ![p] = n] /\ m.step = "read_own" /\ KeepsRow /\ UNCHANGED <<board, posts, boardRequests, mixed>>
    BY <1>0, <1>1, <2>1 DEF MarkOwnRead, Continues, KeepsRow
  <2>4. OwnMove(m, n)
    BY <2>2, <2>3 DEF OwnMove
  <2> QED BY <1>S, <1>T, <2>2, <2>3, <2>4 DEF KeepsRow
<1>2. CASE SyncReadGroup(p)
  <2>1. PICK n : n = [m EXCEPT !.step = "sync_board", !.row = row]
    OBVIOUS
  <2>2. n \in BoardWork /\ Moves(m, n, m.step, "sync_board") /\ n.row = row
    BY <2>1, <1>T, NextStep DEF BoardSteps
  <2>3. manager' = [manager EXCEPT ![p] = n] /\ m.step = "sync_group" /\ KeepsRow /\ UNCHANGED <<board, posts, boardRequests, mixed>>
    BY <1>0, <1>2, <2>1 DEF SyncReadGroup, KeepsRow
  <2>4. OwnMove(m, n)
    BY <2>2, <2>3 DEF OwnMove
  <2> QED BY <1>S, <1>T, <2>2, <2>3, <2>4 DEF KeepsRow
<1>3. CASE SyncReadBoard(p)
  <2>0. PICK r : r = [m.row EXCEPT !.text = FirstText]
    OBVIOUS
  <2>1. r \in BoardRows /\ r.name = m.row.name /\ r.muteAll = m.row.muteAll /\ r.text = FirstText
    <3>1. FirstText \in BoardTexts \cup {NoText}
      BY FirstTextIsAText DEF BoardTypeInv
    <3> QED BY <1>T, <2>0, <3>1 DEF BoardRows
  <2>2. PICK n : n = [m EXCEPT !.step = "sync_write", !.row = r]
    OBVIOUS
  <2>3. n \in BoardWork /\ Moves(m, n, m.step, "sync_write") /\ n.row = r
    BY <2>1, <2>2, NextStep, ZenonT(30) DEF BoardSteps
  <2>4. manager' = [manager EXCEPT ![p] = n] /\ m.step = "sync_board" /\ KeepsRow /\ UNCHANGED <<board, posts, boardRequests, mixed>>
    BY <1>0, <1>3, <2>0, <2>2 DEF SyncReadBoard, KeepsRow
  <2>5. OwnMove(m, n)
    BY <2>1, <2>3, <2>4 DEF OwnMove
  <2> QED BY <1>S, <1>T, <2>3, <2>4, <2>5 DEF KeepsRow
<1>4. CASE SyncWrite(p)
  <2>1. PICK n : n = [m EXCEPT !.step = "publish"]
    OBVIOUS
  <2>2. n \in BoardWork /\ Moves(m, n, m.step, "publish")
    BY <2>1, <1>T, NextStep DEF BoardSteps
  <2>3. /\ manager' = [manager EXCEPT ![p] = n] /\ m.step = "sync_write" /\ UNCHANGED <<board, posts, boardRequests, mixed>>
        /\ row' = m.row /\ wanted' = wanted /\ aligned' = (aligned \/ m.alone)
    BY <1>0, <1>4, <2>1 DEF SyncWrite, SyncedRow, Continues
  <2>4. OwnMove(m, n)
    BY <2>2, <2>3 DEF OwnMove
  <2> QED BY <1>S, <1>T, <2>2, <2>3, <2>4
<1>5. CASE SyncFails(p)
  <2>1. PICK n : n = [m EXCEPT !.step = "publish"]
    OBVIOUS
  <2>2. n \in BoardWork /\ Moves(m, n, m.step, "publish")
    BY <2>1, <1>T, NextStep DEF BoardSteps
  <2>3. /\ manager' = [manager EXCEPT ![p] = n] /\ m.step \in {"sync_group", "sync_board", "sync_write"}
        /\ UNCHANGED <<board, posts, boardRequests, mixed>>
        /\ row' = row /\ wanted' = wanted /\ aligned' = FALSE
    BY <1>0, <1>5, <2>1 DEF SyncFails, Continues
  <2>4. OwnMove(m, n)
    BY <2>2, <2>3 DEF OwnMove
  <2> QED BY <1>S, <1>T, <2>2, <2>3, <2>4
<1>6. CASE Publish(p)
  <2>1. /\ manager' = [manager EXCEPT ![p] = Resting] /\ m.step = "publish" /\ KeepsRow
        /\ UNCHANGED <<board, posts, boardRequests, mixed>>
    BY <1>0, <1>6 DEF Publish, Finishes, KeepsRow
  <2>2. OwnMove(m, Resting)
    BY <1>R, <2>1 DEF OwnMove
  <2> QED BY <1>R, <1>S, <1>T, <2>1, <2>2 DEF KeepsRow
<1>7. CASE CommitUpdateGroup(p)
  <2>1. PICK n : n = [m EXCEPT !.step = "project"]
    OBVIOUS
  <2>2. n \in BoardWork /\ Moves(m, n, m.step, "project") /\ n.row = m.row
    BY <2>1, <1>T, NextStep DEF BoardSteps
  <2>3. /\ manager' = [manager EXCEPT ![p] = n] /\ m.step = "update" /\ UNCHANGED <<board, posts, boardRequests, mixed>>
        /\ row' = UpdatedRow(m.row, m.field, m.value) /\ wanted' = wanted /\ aligned' = (aligned /\ m.field # "text")
    BY <1>0, <1>7, <2>1 DEF CommitUpdateGroup, Continues
  <2>4. /\ row' \in BoardRows /\ row'.muteAll = m.row.muteAll
        /\ row'.name = IF m.field = "name" THEN m.value.name ELSE m.row.name
    BY <1>T, <2>3 DEF UpdatedRow, BoardRows
  <2>5. m.field = "name" => row'.text = m.row.text
    BY <1>T, <2>3 DEF UpdatedRow, BoardRows
  <2>6. OwnMove(m, n)
    BY <2>2, <2>3, <2>4, <2>5 DEF OwnMove
  <2> QED BY <1>S, <1>T, <2>2, <2>3, <2>4, <2>6
<1>8. CASE ConfirmUpdateGroup(p)
  <2>1. /\ manager' = [manager EXCEPT ![p] = Resting] /\ m.step = "project" /\ row' = row /\ aligned' = aligned
        /\ UNCHANGED <<board, posts, boardRequests, mixed>>
        /\ wanted' = IF m.field = "name" THEN [wanted EXCEPT !.name = m.value.name] ELSE wanted
    BY <1>0, <1>8 DEF ConfirmUpdateGroup, Finishes
  <2>2. /\ wanted' \in [name : GroupNames, muteAll : BOOLEAN] /\ wanted'.muteAll = wanted.muteAll
        /\ wanted'.name = IF m.field = "name" THEN m.value.name ELSE wanted.name
    BY <1>T, <2>1 DEF BoardRows
  <2>3. OwnMove(m, Resting)
    BY <1>R, <2>1, <2>2 DEF OwnMove
  <2> QED BY <1>R, <1>S, <1>T, <2>1, <2>2, <2>3
<1>9. CASE UndoUpdateGroup(p)
  <2>1. /\ manager' = [manager EXCEPT ![p] = Resting] /\ m.step = "project" /\ row' = m.row /\ wanted' = wanted
        /\ aligned' = aligned /\ UNCHANGED <<board, posts, boardRequests, mixed>>
    BY <1>0, <1>9 DEF UndoUpdateGroup, Finishes
  <2>2. OwnMove(m, Resting)
    BY <1>R, <2>1 DEF OwnMove
  <2> QED BY <1>R, <1>S, <1>T, <2>1, <2>2
<1>10. CASE CommitMuteAll(p)
  <2>1. /\ manager' = [manager EXCEPT ![p] = Resting] /\ m.step = "mute" /\ aligned' = aligned
        /\ row' = [m.row EXCEPT !.muteAll = m.value.muteAll] /\ wanted' = [wanted EXCEPT !.muteAll = m.value.muteAll]
        /\ UNCHANGED <<board, posts, boardRequests, mixed>>
    BY <1>0, <1>10 DEF CommitMuteAll, Finishes
  <2>2. /\ wanted' \in [name : GroupNames, muteAll : BOOLEAN] /\ wanted'.name = wanted.name
        /\ row' \in BoardRows /\ row'.name = m.row.name /\ row'.text = m.row.text
        /\ row'.muteAll = wanted'.muteAll
    BY <1>T, <2>1 DEF BoardRows
  <2>3. OwnMove(m, Resting)
    BY <1>R, <2>1, <2>2 DEF OwnMove
  <2> QED BY <1>R, <1>S, <1>T, <2>1, <2>2, <2>3
<1> QED BY <1>1, <1>2, <1>3, <1>4, <1>5, <1>6, <1>7, <1>8, <1>9, <1>10 DEF OwnStep

-----------------------------------------------------------------------------
(* The steps of everybody *)

\* A restart: every request is cut off, and a text without an announcement
\* becomes one.
LEMMA RestartEffect ==
  ASSUME BoardTypeInv, NumbersAreUnique, RestartServer
  PROVE  /\ manager' \in [BoardPumps -> BoardWork] /\ \A p \in BoardPumps : manager'[p].step = "idle"
         /\ board' \subseteq Notices /\ NumbersAreUnique'
         /\ row.text = FirstText => board' = board
         /\ row' = row /\ wanted' = wanted /\ posts' = posts /\ boardRequests' = boardRequests
         /\ mixed' = (mixed \/ ~ BoardQuiet) /\ aligned' = (aligned /\ BoardQuiet)
<1>1. /\ manager' = [p \in BoardPumps |-> Resting] /\ board' = BoardAfterStart
      /\ row' = row /\ wanted' = wanted /\ posts' = posts /\ boardRequests' = boardRequests
      /\ mixed' = (mixed \/ ~ BoardQuiet) /\ aligned' = (aligned /\ BoardQuiet)
  BY Zenon DEF RestartServer
<1>2. manager' \in [BoardPumps -> BoardWork] /\ \A p \in BoardPumps : manager'[p].step = "idle"
  BY <1>1, RestingIsWork
<1>3. row.text \in BoardTexts \cup {NoText} /\ board \subseteq Notices /\ posts \in Nat
  BY BoardBounds DEF BoardTypeInv, BoardRows
<1>4. CASE row.text # NoText /\ board = {}
  <2>1. board' = {Seeded}
    BY <1>1, <1>4 DEF BoardAfterStart
  <2>2. Seeded \in Notices /\ Seeded.id = 0
    <3>1. 0 \in 0 .. MaxPosts /\ 0 \in 0 .. MaxPosts + MaxBoardRequests
      BY BoardBounds
    <3> QED BY <1>3, <1>4, <3>1 DEF Seeded, Notices
  <2>3. NumbersAreUnique'
    BY <1>1, <1>3, <2>1, <2>2 DEF NumbersAreUnique
  <2>4. row.text # FirstText
    BY <1>4 DEF FirstText
  <2> QED BY <1>1, <1>2, <2>1, <2>2, <2>3, <2>4
<1>5. CASE ~ (row.text # NoText /\ board = {})
  <2>1. board' = board
    BY <1>1, <1>5 DEF BoardAfterStart
  <2>2. NumbersAreUnique'
    BY <1>1, <2>1 DEF NumbersAreUnique
  <2> QED BY <1>1, <1>2, <1>3, <2>1, <2>2
<1> QED BY <1>4, <1>5

\* A step is the start of a request, a step of one, a restart, or none of
\* what the invariants are about.
KeepsBoard == UNCHANGED <<row, board, manager, posts, wanted, mixed, aligned>>
LEMMA BoardStepCases ==
  ASSUME [BoardNext]_boardVars
  PROVE  \/ \E p \in BoardPumps : BoardRequest(p) \/ OwnStep(p)
         \/ RestartServer
         \/ \E u \in BoardReaders, a \in board : MarkAnnouncementRead(u, a)
         \/ UNCHANGED boardVars
  BY DEF BoardNext, OwnStep

\* Reads of announcements leave everything else of the board alone.
LEMMA ReadsKeepBoard ==
  ASSUME BoardTypeInv,
         (\E u \in BoardReaders, a \in board : MarkAnnouncementRead(u, a)) \/ UNCHANGED boardVars
  PROVE  KeepsBoard /\ boardRequests' \in 0 .. MaxBoardRequests
<1>1. CASE UNCHANGED boardVars
  BY <1>1 DEF KeepsBoard, boardVars, BoardTypeInv
<1>2. CASE \E u \in BoardReaders, a \in board : MarkAnnouncementRead(u, a)
  BY <1>2, BoardBounds DEF KeepsBoard, MarkAnnouncementRead, BoardTypeInv
<1> QED BY <1>1, <1>2

\* Every step keeps the types of the board and the numbers unique.
LEMMA BoardTypeStep ==
  ASSUME BoardTypeInv, NumbersAreUnique, [BoardNext]_boardVars
  PROVE  BoardTypeInv' /\ NumbersAreUnique'
<1>1. ASSUME NEW p \in BoardPumps, BoardRequest(p)
      PROVE  BoardTypeInv' /\ NumbersAreUnique'
  <2>1. StartsOn(p)
    BY <1>1, RequestStarts
  <2>2. mixed' \in BOOLEAN /\ aligned' \in BOOLEAN /\ NumbersAreUnique'
    BY <2>1, Zenon DEF StartsOn
  <2>3. \A q \in BoardPumps : manager'[q].step = "update" => manager'[q].field # "none"
    BY <2>1 DEF StartsOn, BoardTypeInv
  <2> QED BY <2>1, <2>2, <2>3 DEF StartsOn, BoardTypeInv
<1>2. ASSUME NEW p \in BoardPumps, OwnStep(p)
      PROVE  BoardTypeInv' /\ NumbersAreUnique'
  <2>1. MovesOn(p)
    BY <1>2, RequestMoves
  <2>2. NumbersAreUnique'
    BY <2>1 DEF MovesOn, NumbersAreUnique
  <2>3. manager'[p].step # "update"
    BY <2>1 DEF MovesOn, OwnMove, Moves
  <2>4. \A q \in BoardPumps : manager'[q].step = "update" => manager'[q].field # "none"
    BY <2>1, <2>3 DEF MovesOn, BoardTypeInv
  <2> QED BY <2>1, <2>2, <2>4 DEF MovesOn, BoardTypeInv
<1>3. CASE RestartServer
  <2>1. mixed' \in BOOLEAN /\ aligned' \in BOOLEAN
    BY <1>3, Zenon DEF RestartServer
  <2> QED BY <1>3, <2>1, RestartEffect DEF BoardTypeInv
<1>4. CASE (\E u \in BoardReaders, a \in board : MarkAnnouncementRead(u, a)) \/ UNCHANGED boardVars
  BY <1>4, ReadsKeepBoard DEF KeepsBoard, BoardTypeInv, NumbersAreUnique
<1> QED BY <1>1, <1>2, <1>3, <1>4, BoardStepCases

\* Every step keeps a request that is alone alone, or takes the mark away.
LEMMA AloneStep ==
  ASSUME BoardTypeInv, NumbersAreUnique, AloneInv, [BoardNext]_boardVars
  PROVE  AloneInv'
<1>1. ASSUME NEW p \in BoardPumps, BoardRequest(p)
      PROVE  AloneInv'
  <2>1. StartsOn(p)
    BY <1>1, RequestStarts
  <2>2. BoardQuiet => \A q \in BoardPumps : manager[q].step = "idle"
    BY DEF BoardQuiet
  <2>3. ASSUME NEW q \in BoardPumps, NEW r \in BoardPumps,
               manager'[q].step # "idle", manager'[q].alone, manager'[r].step # "idle"
        PROVE  q = r
    <3>1. q = p /\ BoardQuiet
      BY <2>1, <2>3 DEF StartsOn
    <3> QED BY <2>1, <2>2, <2>3, <3>1 DEF StartsOn
  <2>4. ASSUME NEW q \in BoardPumps, manager'[q].alone, manager'[q].step = "sync_write"
        PROVE  FALSE
    BY <2>1, <2>4 DEF StartsOn
  <2> QED BY <2>3, <2>4, Zenon DEF AloneInv, BusyOn
<1>2. ASSUME NEW p \in BoardPumps, OwnStep(p)
      PROVE  AloneInv'
  <2>1. MovesOn(p)
    BY <1>2, RequestMoves
  <2>2. FirstText' = FirstText
    BY <2>1, FirstTextKept DEF MovesOn
  <2>3. \A q \in BoardPumps : manager'[q].step # "idle" => manager[q].step # "idle" /\ manager'[q].alone = manager[q].alone
    BY <2>1 DEF MovesOn, OwnMove, Moves
  <2>4. ASSUME NEW q \in BoardPumps, NEW r \in BoardPumps,
               manager'[q].step # "idle", manager'[q].alone, manager'[r].step # "idle"
        PROVE  q = r
    BY <2>3, <2>4 DEF AloneInv, BusyOn
  <2>5. ASSUME NEW q \in BoardPumps, manager'[q].alone, manager'[q].step = "sync_write"
        PROVE  manager'[q].row.text = FirstText'
    <3>1. CASE q = p
      BY <2>1, <2>2, <2>5, <3>1 DEF MovesOn, OwnMove, Moves
    <3>2. CASE q # p
      BY <2>1, <2>2, <2>5, <3>2 DEF MovesOn, AloneInv
    <3> QED BY <3>1, <3>2
  <2> QED BY <2>4, <2>5, Zenon DEF AloneInv, BusyOn
<1>3. CASE RestartServer
  <2>1. \A p \in BoardPumps : manager'[p].step = "idle"
    BY <1>3, RestartEffect
  <2> QED BY <2>1 DEF AloneInv, BusyOn
<1>4. CASE (\E u \in BoardReaders, a \in board : MarkAnnouncementRead(u, a)) \/ UNCHANGED boardVars
  <2>1. manager' = manager /\ board' = board
    BY <1>4, ReadsKeepBoard DEF KeepsBoard
  <2>2. FirstText' = FirstText
    BY <2>1, FirstTextKept
  <2> QED BY <2>1, <2>2 DEF AloneInv, BusyOn
<1> QED BY <1>1, <1>2, <1>3, <1>4, BoardStepCases

\* Every step keeps the text of the row that of the board, as far as aligned says.
LEMMA AlignedStep ==
  ASSUME BoardTypeInv, NumbersAreUnique, AloneInv, AlignedInv, [BoardNext]_boardVars
  PROVE  AlignedInv'
<1>0. SUFFICES ASSUME aligned'
               PROVE  /\ BoardQuiet' => row'.text = FirstText'
                      /\ \A p \in BoardPumps : BusyOn(p)' => manager'[p].alone /\ AlignedAt(p)'
  BY DEF AlignedInv
<1>1. ASSUME NEW p \in BoardPumps, BoardRequest(p)
      PROVE  /\ BoardQuiet' => row'.text = FirstText'
             /\ \A q \in BoardPumps : BusyOn(q)' => manager'[q].alone /\ AlignedAt(q)'
  <2>1. StartsOn(p)
    BY <1>1, RequestStarts
  <2>2. aligned /\ BoardQuiet
    BY <1>0, <2>1 DEF StartsOn
  <2>3. row.text = FirstText /\ \A q \in BoardPumps : q # p => ~ BusyOn(q)'
    BY <2>1, <2>2 DEF AlignedInv, StartsOn, BoardQuiet, BusyOn
  <2>4. manager'[p].alone
    BY <2>1, <2>2 DEF StartsOn
  <2>5. AlignedAt(p)'
    <3>1. manager'[p].step \notin {"publish", "project"}
      BY <2>1 DEF StartsOn
    <3>2. ASSUME manager'[p].step \in {"update", "project", "mute"}
          PROVE  manager'[p].row.text = FirstText'
      <4>1. manager'[p].row = row /\ board' = board
        BY <2>1, <3>2 DEF StartsOn
      <4> QED BY <2>3, <4>1, FirstTextKept
    <3> QED BY <3>1, <3>2 DEF AlignedAt
  <2>6. ~ BoardQuiet'
    BY <2>1 DEF StartsOn
  <2> QED BY <2>3, <2>4, <2>5, <2>6
<1>2. ASSUME NEW p \in BoardPumps, OwnStep(p)
      PROVE  /\ BoardQuiet' => row'.text = FirstText'
             /\ \A q \in BoardPumps : BusyOn(q)' => manager'[q].alone /\ AlignedAt(q)'
  <2>1. MovesOn(p)
    BY <1>2, RequestMoves
  <2>2. FirstText' = FirstText
    BY <2>1, FirstTextKept DEF MovesOn
  <2>3. aligned => manager[p].alone /\ AlignedAt(p)
    BY <2>1 DEF MovesOn, AlignedInv, BusyOn
  <2>4. aligned \/ (manager[p].alone /\ manager[p].step = "sync_write" /\ manager'[p].step = "publish")
    BY <1>0, <2>1 DEF MovesOn, OwnMove, KeepsRow, Moves
  <2>5. manager[p].alone
    BY <2>3, <2>4
  <2>6. \A q \in BoardPumps : q # p => ~ BusyOn(q)'
    <3>1. \A q \in BoardPumps : q # p => ~ BusyOn(q)
      BY <2>1, <2>5 DEF AloneInv, MovesOn, BusyOn
    <3> QED BY <2>1, <3>1 DEF MovesOn, BusyOn
  <2>7. manager'[p].step # "idle" => manager'[p].alone
    BY <2>1, <2>5 DEF MovesOn, OwnMove, Moves
  <2>8. manager[p].step = "sync_write" => manager[p].row.text = FirstText
    BY <2>5 DEF AloneInv
  <2>9. /\ manager[p].step \in {"publish", "project"} => row.text = FirstText
        /\ manager[p].step \in {"update", "project", "mute"} => manager[p].row.text = FirstText
    BY <2>3, <2>4 DEF AlignedAt
  <2>10. manager[p].step = "update" => manager[p].field \in {"name", "text"}
    BY DEF BoardTypeInv, BoardWork
  <2>11. /\ manager'[p].step \in {"publish", "project"} => row'.text = FirstText
         /\ manager'[p].step \in {"update", "project", "mute"} => manager'[p].row.text = FirstText
         /\ manager'[p].step = "idle" => row'.text = FirstText
    BY <1>0, <2>1, <2>8, <2>9, <2>10 DEF MovesOn, OwnMove, KeepsRow, Moves
  <2>12. AlignedAt(p)'
    BY <2>2, <2>11 DEF AlignedAt
  <2>13. BoardQuiet' => manager'[p].step = "idle"
    BY DEF BoardQuiet
  <2> QED BY <2>2, <2>6, <2>7, <2>11, <2>12, <2>13 DEF BusyOn
<1>3. ASSUME RestartServer
      PROVE  /\ BoardQuiet' => row'.text = FirstText'
             /\ \A q \in BoardPumps : BusyOn(q)' => manager'[q].alone /\ AlignedAt(q)'
  <2>1. aligned /\ BoardQuiet
    BY <1>0, <1>3, RestartEffect
  <2>2. row.text = FirstText
    BY <2>1 DEF AlignedInv
  <2>3. row' = row /\ board' = board /\ \A q \in BoardPumps : ~ BusyOn(q)'
    BY <1>3, <2>2, RestartEffect DEF BusyOn
  <2> QED BY <2>2, <2>3, FirstTextKept
<1>4. ASSUME (\E u \in BoardReaders, a \in board : MarkAnnouncementRead(u, a)) \/ UNCHANGED boardVars
      PROVE  /\ BoardQuiet' => row'.text = FirstText'
             /\ \A q \in BoardPumps : BusyOn(q)' => manager'[q].alone /\ AlignedAt(q)'
  <2>1. manager' = manager /\ board' = board /\ row' = row /\ aligned' = aligned
    BY <1>4, ReadsKeepBoard DEF KeepsBoard
  <2>2. FirstText' = FirstText
    BY <2>1, FirstTextKept
  <2> QED BY <1>0, <2>1, <2>2 DEF AlignedInv, AlignedAt, BusyOn, BoardQuiet
<1> QED BY <1>1, <1>2, <1>3, <1>4, BoardStepCases

\* Every step keeps the settings of the row, as far as mixed says.
LEMMA MixedStep ==
  ASSUME BoardTypeInv, NumbersAreUnique, AloneInv, MixedInv, [BoardNext]_boardVars
  PROVE  MixedInv'
<1>0. SUFFICES ASSUME ~ mixed'
               PROVE  /\ BoardQuiet' => Confirmed(row)'
                      /\ \A p \in BoardPumps : BusyOn(p)' => manager'[p].alone /\ SettingsAt(p)'
  BY DEF MixedInv
<1>1. ASSUME NEW p \in BoardPumps, BoardRequest(p)
      PROVE  /\ BoardQuiet' => Confirmed(row)'
             /\ \A q \in BoardPumps : BusyOn(q)' => manager'[q].alone /\ SettingsAt(q)'
  <2>1. StartsOn(p)
    BY <1>1, RequestStarts
  <2>2. ~ mixed /\ BoardQuiet
    BY <1>0, <2>1 DEF StartsOn
  <2>3. Confirmed(row) /\ \A q \in BoardPumps : q # p => ~ BusyOn(q)'
    BY <2>1, <2>2 DEF MixedInv, StartsOn, BoardQuiet, BusyOn
  <2>4. Confirmed(row)' /\ ~ BoardQuiet' /\ manager'[p].alone
    BY <2>1, <2>2, <2>3 DEF StartsOn, Confirmed
  <2>5. SettingsAt(p)'
    <3>1. manager'[p].step \notin {"project", "sync_board", "sync_write"}
      BY <2>1 DEF StartsOn
    <3>2. manager'[p].step \in {"update", "mute"} => Confirmed(manager[p].row)'
      BY <2>1, <2>3 DEF StartsOn, Confirmed
    <3> QED BY <2>4, <3>1, <3>2 DEF SettingsAt
  <2> QED BY <2>3, <2>4, <2>5
<1>2. ASSUME NEW p \in BoardPumps, OwnStep(p)
      PROVE  /\ BoardQuiet' => Confirmed(row)'
             /\ \A q \in BoardPumps : BusyOn(q)' => manager'[q].alone /\ SettingsAt(q)'
  <2>1. MovesOn(p)
    BY <1>2, RequestMoves
  <2>2. manager[p].alone /\ SettingsAt(p)
    BY <1>0, <2>1 DEF MovesOn, MixedInv, BusyOn
  <2>3. \A q \in BoardPumps : q # p => ~ BusyOn(q)'
    <3>1. \A q \in BoardPumps : q # p => ~ BusyOn(q)
      BY <2>1, <2>2 DEF AloneInv, MovesOn, BusyOn
    <3> QED BY <2>1, <3>1 DEF MovesOn, BusyOn
  <2>4. manager'[p].step # "idle" => manager'[p].alone
    BY <2>1, <2>2 DEF MovesOn, OwnMove, Moves
  <2>5. PICK m : m = manager[p]
    OBVIOUS
  <2>6. PICK n : n = manager'[p]
    OBVIOUS
  <2>7. /\ m.step # "project" => row.name = wanted.name /\ row.muteAll = wanted.muteAll
        /\ m.step \in {"sync_board", "sync_write", "update", "project", "mute"} =>
             m.row.name = wanted.name /\ m.row.muteAll = wanted.muteAll
        /\ m.step = "project" => /\ row.muteAll = wanted.muteAll
                                 /\ row.name = IF m.field = "name" THEN m.value.name ELSE wanted.name
    BY <2>2, <2>5 DEF SettingsAt, Confirmed
  <2>8. OwnMove(m, n)
    BY <2>1, <2>5, <2>6 DEF MovesOn
  <2>9. /\ n.step # "project" => row'.name = wanted'.name /\ row'.muteAll = wanted'.muteAll
        /\ n.step \in {"sync_board", "sync_write", "update", "project", "mute"} =>
             n.row.name = wanted'.name /\ n.row.muteAll = wanted'.muteAll
        /\ n.step = "project" => /\ row'.muteAll = wanted'.muteAll
                                 /\ row'.name = IF n.field = "name" THEN n.value.name ELSE wanted'.name
    BY <2>7, <2>8 DEF OwnMove, KeepsRow, Moves
  <2>10. SettingsAt(p)'
    BY <2>6, <2>9 DEF SettingsAt, Confirmed
  <2>11. BoardQuiet' => Confirmed(row)'
    BY <2>6, <2>9 DEF BoardQuiet, Confirmed
  <2> QED BY <2>3, <2>4, <2>10, <2>11 DEF BusyOn
<1>3. ASSUME RestartServer
      PROVE  /\ BoardQuiet' => Confirmed(row)'
             /\ \A q \in BoardPumps : BusyOn(q)' => manager'[q].alone /\ SettingsAt(q)'
  <2>1. ~ mixed /\ BoardQuiet
    BY <1>0, <1>3, RestartEffect
  <2>2. Confirmed(row)
    BY <2>1 DEF MixedInv
  <2>3. row' = row /\ wanted' = wanted /\ \A q \in BoardPumps : ~ BusyOn(q)'
    BY <1>3, RestartEffect DEF BusyOn
  <2> QED BY <2>2, <2>3 DEF Confirmed
<1>4. ASSUME (\E u \in BoardReaders, a \in board : MarkAnnouncementRead(u, a)) \/ UNCHANGED boardVars
      PROVE  /\ BoardQuiet' => Confirmed(row)'
             /\ \A q \in BoardPumps : BusyOn(q)' => manager'[q].alone /\ SettingsAt(q)'
  <2>1. manager' = manager /\ wanted' = wanted /\ row' = row /\ mixed' = mixed
    BY <1>4, ReadsKeepBoard DEF KeepsBoard
  <2> QED BY <1>0, <2>1 DEF MixedInv, SettingsAt, Confirmed, BusyOn, BoardQuiet
<1> QED BY <1>1, <1>2, <1>3, <1>4, BoardStepCases

-----------------------------------------------------------------------------
(* The theorem *)

\* The initial states satisfy the inductive invariant ...
LEMMA BoardStarts == BoardInit => BoardInv
<1> SUFFICES ASSUME BoardInit PROVE BoardInv
  OBVIOUS
<1>1. /\ row = Unread /\ board = {} /\ manager = [p \in BoardPumps |-> Resting] /\ posts = 0 /\ boardRequests = 0
      /\ wanted = [name |-> Unread.name, muteAll |-> FALSE] /\ mixed = FALSE /\ aligned = TRUE
  BY DEF BoardInit
<1>2. Unread \in BoardRows /\ Unread.name \in GroupNames /\ Unread.text = NoText /\ Unread.muteAll = FALSE
  BY UnreadIsARow DEF Unread
<1>3. \A p \in BoardPumps : manager[p] = Resting /\ manager[p].step = "idle"
  BY <1>1, RestingIsWork
<1>4. BoardTypeInv
  <2>1. posts \in 0 .. MaxPosts /\ boardRequests \in 0 .. MaxBoardRequests
    BY <1>1, BoardBounds
  <2>2. manager \in [BoardPumps -> BoardWork]
    BY <1>1, RestingIsWork
  <2>3. wanted \in [name : GroupNames, muteAll : BOOLEAN]
    BY <1>1, <1>2
  <2> QED BY <1>1, <1>2, <1>3, <2>1, <2>2, <2>3 DEF BoardTypeInv
<1>5. NumbersAreUnique
  BY <1>1 DEF NumbersAreUnique
<1>6. AloneInv
  BY <1>3 DEF AloneInv, BusyOn
<1>7. AlignedInv
  BY <1>1, <1>2, <1>3 DEF AlignedInv, BusyOn, FirstText
<1>8. MixedInv
  BY <1>1, <1>2, <1>3 DEF MixedInv, BusyOn, Confirmed
<1> QED BY <1>4, <1>5, <1>6, <1>7, <1>8 DEF BoardInv

\* ... and every step keeps it.
LEMMA BoardInvSteps == BoardInv /\ [BoardNext]_boardVars => BoardInv'
  BY BoardTypeStep, AloneStep, AlignedStep, MixedStep, Zenon DEF BoardInv

\* Only a restart counts as one, and it keeps the board of a state in which the
\* text is that of the board.
LEMMA RestartKeeps ==
  BoardInv /\ [BoardNext]_boardVars => [starts' # starts /\ aligned /\ BoardQuiet => board' = board]_boardVars
<1> SUFFICES ASSUME BoardInv, [BoardNext]_boardVars, starts' # starts, aligned, BoardQuiet
             PROVE  board' = board
  OBVIOUS
<1>1. row.text = FirstText
  BY DEF BoardInv, AlignedInv
<1>2. RestartServer
  BY DEF BoardNext, BoardRequest, boardVars, CreateAnnouncement, EditAnnouncement, DropAnnouncement,
         BeginUpdateGroup, BeginMuteAll, MarkOwnRead, SyncReadGroup, SyncReadBoard, SyncWrite, SyncFails, Publish,
         CommitUpdateGroup, ConfirmUpdateGroup, UndoUpdateGroup, CommitMuteAll, MarkAnnouncementRead
<1> QED BY <1>1, <1>2, RestartEffect DEF BoardInv

\* The announcements of a group, for any number of managers, texts and
\* restarts: their numbers are unique, the old announcement column is the text
\* of the first one once syncLegacyGroupAnnouncement wrote it undisturbed, the
\* row has the name and the mute state confirmed last while requests did not
\* overlap, and a restart in between brings no deleted announcement back.
THEOREM BoardStaysKept == BoardSpec => BoardIsKept
<1>1. BoardInv => BoardTypeOK /\ TextFollowsBoard /\ SettingsKept
  <2> SUFFICES ASSUME BoardInv PROVE BoardTypeOK /\ TextFollowsBoard /\ SettingsKept
    OBVIOUS
  <2>1. BoardTypeOK
    BY DEF BoardInv, BoardTypeInv, NumbersAreUnique, BoardTypeOK, BoardRows, BoardWork
  <2>2. TextFollowsBoard
    BY DEF BoardInv, AlignedInv, TextFollowsBoard
  <2>3. SettingsKept
    BY DEF BoardInv, MixedInv, SettingsKept, Confirmed
  <2> QED BY <2>1, <2>2, <2>3
<1> QED BY <1>1, BoardStarts, BoardInvSteps, RestartKeeps, PTL DEF BoardSpec, BoardIsKept, RestartKeepsBoard

(*************************************************************************)
(* DynamicInteraction                                                    *)
(*************************************************************************)

-----------------------------------------------------------------------------
(* Sequences of events *)

EventRows == [id : CardEventIds, actor : CardActors, option : {i.option : i \in CardInputs},
              value : {i.value : i \in CardInputs}, action : {i.action : i \in CardInputs},
              item : {i.item : i \in CardInputs}, completed : {i.completed : i \in CardInputs}, at : Nat]

\* InsertAt keeps what stands before the place and moves the rest by one.
LEMMA InsertAtProperties ==
  ASSUME NEW S, NEW s \in Seq(S), NEW e \in S, NEW k \in 1 .. Len(s) + 1
  PROVE  /\ InsertAt(s, k, e) \in Seq(S) /\ Len(InsertAt(s, k, e)) = Len(s) + 1
         /\ \A i \in 1 .. Len(s) + 1 : InsertAt(s, k, e)[i] = IF i < k THEN s[i] ELSE IF i = k THEN e ELSE s[i - 1]
<1>0. Len(s) \in Nat
  OBVIOUS
<1>1. PICK t : t = SubSeq(s, 1, k - 1)
  OBVIOUS
<1>2. PICK u : u = SubSeq(s, k, Len(s))
  OBVIOUS
<1>3. t \in Seq(S) /\ Len(t) = k - 1 /\ \A i \in 1 .. k - 1 : t[i] = s[i]
  BY <1>0, <1>1
<1>4. u \in Seq(S) /\ Len(u) = Len(s) - k + 1 /\ \A i \in 1 .. Len(s) - k + 1 : u[i] = s[k + i - 1]
  BY <1>0, <1>2
<1>5. PICK v : v = t \o <<e>>
  OBVIOUS
<1>6. v \in Seq(S) /\ Len(v) = k /\ v[k] = e /\ \A i \in 1 .. k - 1 : v[i] = s[i]
  BY <1>0, <1>3, <1>5
<1>7. PICK w : w = v \o u
  OBVIOUS
<1>8. w \in Seq(S) /\ Len(w) = Len(s) + 1
  BY <1>0, <1>4, <1>6, <1>7
<1>9. ASSUME NEW i \in 1 .. Len(s) + 1
      PROVE  w[i] = IF i < k THEN s[i] ELSE IF i = k THEN e ELSE s[i - 1]
  <2>1. CASE i <= k
    BY <1>0, <1>4, <1>6, <1>7, <2>1
  <2>2. CASE i > k
    <3>1. w[i] = u[i - k]
      BY <1>0, <1>4, <1>6, <1>7, <2>2
    <3>2. i - k \in 1 .. Len(s) - k + 1
      BY <1>0, <2>2
    <3>3. u[i - k] = s[k + (i - k) - 1]
      BY <1>4, <3>2
    <3> QED BY <1>0, <2>2, <3>1, <3>3
  <2> QED BY <1>0, <2>1, <2>2
<1>10. w = InsertAt(s, k, e)
  BY <1>1, <1>2, <1>5, <1>7 DEF InsertAt
<1> QED BY <1>8, <1>9, <1>10

\* A stable sort puts the new event in one place.
LEMMA SortedWithProperties ==
  ASSUME NEW s \in Seq(EventRows), NEW e \in EventRows
  PROVE  /\ SortedWith(s, e) \in Seq(EventRows) /\ Len(SortedWith(s, e)) = Len(s) + 1
         /\ \E k \in 1 .. Len(s) + 1 : \A i \in 1 .. Len(s) + 1 :
              SortedWith(s, e)[i] = IF i < k THEN s[i] ELSE IF i = k THEN e ELSE s[i - 1]
<1>0. Len(s) \in Nat /\ DOMAIN s = 1 .. Len(s)
  OBVIOUS
<1>1. PICK T : T = {i \in DOMAIN s : ~ EventBefore(e, s[i])}
  OBVIOUS
<1>2. IsFiniteSet(1 .. Len(s)) /\ Cardinality(1 .. Len(s)) = Len(s)
  BY <1>0, FS_Interval
<1>3. T \subseteq 1 .. Len(s)
  BY <1>0, <1>1
<1>4. Cardinality(T) \in Nat /\ Cardinality(T) <= Len(s)
  BY <1>2, <1>3, FS_Subset, FS_CardinalityType
<1>5. PICK k : k = 1 + Cardinality(T)
  OBVIOUS
<1>6. k \in 1 .. Len(s) + 1
  BY <1>0, <1>4, <1>5
<1>7. SortedWith(s, e) = InsertAt(s, k, e)
  BY <1>1, <1>5 DEF SortedWith
<1>8. /\ InsertAt(s, k, e) \in Seq(EventRows) /\ Len(InsertAt(s, k, e)) = Len(s) + 1
      /\ \A i \in 1 .. Len(s) + 1 : InsertAt(s, k, e)[i] = IF i < k THEN s[i] ELSE IF i = k THEN e ELSE s[i - 1]
  BY <1>6, InsertAtProperties
<1> QED BY <1>6, <1>7, <1>8, Zenon

\* As long as the limit is not reached all events are loaded.
LEMMA AllLoaded ==
  ASSUME stored \in Seq(EventRows), Len(stored) < EventLimit
  PROVE  LoadedEvents = stored
<1>1. LoadedEvents = SubSeq(stored, 1, Len(stored))
  BY DEF LoadedEvents
<1> QED BY <1>1, SubSeqFull

-----------------------------------------------------------------------------
(* The states along the events *)

\* A set of numbers that is not empty has a least one.
LEMMA LeastNumber ==
  ASSUME NEW T \in SUBSET Nat, T # {}
  PROVE  \E x \in T : \A y \in T : x <= y
<1>1. PICK x \in T : \A y \in T : ~ (<<y, x>> \in OpToRel(<, Nat))
  BY WFMin, NatLessThanWellFounded
<1>2. \A y \in T : ~ (y < x)
  BY <1>1 DEF OpToRel
<1>3. \A y \in T : x <= y
  BY <1>2
<1> QED BY <1>3

\* f gives the state after each of the first n events.
PathTo(f, c, events, n) ==
    f = [m \in 0 .. n |-> IF m = 0 THEN InitialState(c) ELSE StepState(c, f[m - 1], InteractionValue(events[m]))]

\* One event more has a state of its own.
LEMMA PathGrows ==
  ASSUME NEW c, NEW events, NEW n \in Nat, NEW f, PathTo(f, c, events, n)
  PROVE  \E g : PathTo(g, c, events, n + 1)
<1>1. PICK last : last = StepState(c, f[n], InteractionValue(events[n + 1]))
  OBVIOUS
<1>2. PICK g : g = [m \in 0 .. n + 1 |-> IF m = n + 1 THEN last ELSE f[m]]
  OBVIOUS
<1>3. PICK h : h = [m \in 0 .. n + 1 |-> IF m = 0 THEN InitialState(c) ELSE StepState(c, g[m - 1], InteractionValue(events[m]))]
  OBVIOUS
<1>4. f[0] = InitialState(c) /\ \A m \in 1 .. n : f[m] = StepState(c, f[m - 1], InteractionValue(events[m]))
  <2>1. \A m \in 0 .. n : f[m] = IF m = 0 THEN InitialState(c) ELSE StepState(c, f[m - 1], InteractionValue(events[m]))
    BY DEF PathTo
  <2> QED BY <2>1
<1>5. \A m \in 0 .. n : g[m] = f[m]
  BY <1>2
<1>6. g[n + 1] = last
  BY <1>2
<1>7. h[0] = InitialState(c) /\ \A m \in 1 .. n + 1 : h[m] = StepState(c, g[m - 1], InteractionValue(events[m]))
  BY <1>3
<1>8. ASSUME NEW m \in 0 .. n + 1 PROVE g[m] = h[m]
  <2>1. CASE m = 0
    BY <1>4, <1>5, <1>7, <2>1
  <2>2. CASE m \in 1 .. n
    <3>1. m - 1 \in 0 .. n /\ m \in 0 .. n /\ m \in 1 .. n + 1
      BY <2>2
    <3>2. g[m - 1] = f[m - 1] /\ g[m] = f[m]
      BY <1>5, <3>1
    <3>3. f[m] = StepState(c, f[m - 1], InteractionValue(events[m]))
      BY <1>4, <2>2
    <3>4. h[m] = StepState(c, g[m - 1], InteractionValue(events[m]))
      BY <1>7, <3>1
    <3> QED BY <3>2, <3>3, <3>4
  <2>3. CASE m = n + 1
    <3>1. m - 1 = n /\ n \in 0 .. n /\ m \in 1 .. n + 1
      BY <2>3
    <3>2. h[m] = StepState(c, g[m - 1], InteractionValue(events[m]))
      BY <1>7, <3>1
    <3>3. h[m] = StepState(c, f[n], InteractionValue(events[n + 1]))
      BY <1>5, <2>3, <3>1, <3>2
    <3> QED BY <1>1, <1>6, <2>3, <3>3
  <2> QED BY <2>1, <2>2, <2>3
<1>9. g = h
  <2>1. g = [m \in 0 .. n + 1 |-> g[m]]
    BY <1>2
  <2>2. h = [m \in 0 .. n + 1 |-> h[m]]
    BY <1>3
  <2> QED BY <1>8, <2>1, <2>2, Zenon
<1>10. PathTo(g, c, events, n + 1)
  BY <1>3, <1>9 DEF PathTo
<1> QED BY <1>10

\* reduceStateMachine's loop has a state after every number of events.
LEMMA PathExists ==
  ASSUME NEW c, NEW events, NEW n \in Nat
  PROVE  \E f : PathTo(f, c, events, n)
<1>1. PICK T : T = {m \in Nat : ~ \E f : PathTo(f, c, events, m)}
  OBVIOUS
<1>2. SUFFICES ASSUME n \in T PROVE FALSE
  BY <1>1
<1>3. PICK x \in T : \A y \in T : x <= y
  <2>1. T \in SUBSET Nat /\ T # {}
    BY <1>1, <1>2
  <2> QED BY <2>1, LeastNumber
<1>4. x \in Nat /\ ~ \E f : PathTo(f, c, events, x)
  BY <1>1
<1>5. x # 0
  <2>1. PICK f : f = [m \in 0 .. 0 |-> InitialState(c)]
    OBVIOUS
  <2>2. [m \in 0 .. 0 |-> IF m = 0 THEN InitialState(c) ELSE StepState(c, f[m - 1], InteractionValue(events[m]))]
         = [m \in 0 .. 0 |-> InitialState(c)]
    OBVIOUS
  <2>3. PathTo(f, c, events, 0)
    BY <2>1, <2>2 DEF PathTo
  <2> QED BY <1>4, <2>3
<1>6. PICK y \in Nat : x = y + 1
  BY <1>4, <1>5
<1>7. y \notin T
  BY <1>3, <1>6
<1>8. \E f : PathTo(f, c, events, y)
  BY <1>1, <1>7
<1>9. \E g : PathTo(g, c, events, y + 1)
  BY <1>8, PathGrows
<1> QED BY <1>4, <1>6, <1>9

\* StatesAlong begins with the initial state and takes each event in turn.
LEMMA StatesFollow ==
  ASSUME NEW c, NEW events, Len(events) \in Nat
  PROVE  /\ StatesAlong(c, events)[0] = InitialState(c)
         /\ \A n \in 1 .. Len(events) :
              StatesAlong(c, events)[n] = StepState(c, StatesAlong(c, events)[n - 1], InteractionValue(events[n]))
<1>1. \E f : PathTo(f, c, events, Len(events))
  BY PathExists
<1>2. StatesAlong(c, events) = CHOOSE f : PathTo(f, c, events, Len(events))
  BY Zenon DEF StatesAlong, PathTo
<1>3. PathTo(StatesAlong(c, events), c, events, Len(events))
  BY <1>1, <1>2, Zenon
<1>4. PICK s : s = StatesAlong(c, events)
  OBVIOUS
<1>5. \A n \in 0 .. Len(events) : s[n] = IF n = 0 THEN InitialState(c) ELSE StepState(c, s[n - 1], InteractionValue(events[n]))
  BY <1>3, <1>4 DEF PathTo
<1>6. s[0] = InitialState(c) /\ \A n \in 1 .. Len(events) : s[n] = StepState(c, s[n - 1], InteractionValue(events[n]))
  BY <1>5
<1> QED BY <1>4, <1>6

\* An event without a value, and the refusal of an event.
Absent(x) == x = ""

\* s is a run of the state machine over the values v, from place i to place j.
Run(c, s, v, i, j) == \A n \in i + 1 .. j : s[n] = StepState(c, s[n - 1], v[n])
NoneBetween(v, i, j) == \A k \in i + 1 .. j : Absent(v[k])

\* A refusal stays, an absent value changes nothing, and a value that is not
\* refused is the next state, by a transition.
LEMMA StepTaken ==
  ASSUME NEW c, NEW state, NEW v, NEW next, next = StepState(c, state, v)
  PROVE  /\ Absent(state) => Absent(next)
         /\ Absent(v) => next = state
         /\ ~ Absent(state) /\ ~ Absent(v) /\ ~ Absent(next) => next = v
         /\ ~ Absent(state) /\ ~ Absent(v) /\ ~ Absent(next) /\ c.transitions # {} => <<state, v>> \in c.transitions
<1>1. /\ Absent(state) => Absent(StepState(c, state, v))
      /\ Absent(v) => StepState(c, state, v) = state
      /\ ~ Absent(state) /\ ~ Absent(v) /\ ~ Absent(StepState(c, state, v)) => StepState(c, state, v) = v
      /\ ~ Absent(state) /\ ~ Absent(v) /\ ~ Absent(StepState(c, state, v)) /\ c.transitions # {}
           => <<state, v>> \in c.transitions
  BY Zenon DEF StepState, Absent
<1> QED BY <1>1, Zenon

\* The refusal stays, so events that lead somewhere lead somewhere all along.
LEMMA NoRefusalAlong ==
  ASSUME NEW c, NEW N \in Nat, NEW s, NEW v, ~ Absent(s[N]), Run(c, s, v, 0, N)
  PROVE  \A n \in 0 .. N : ~ Absent(s[n])
<1>1. PICK T : T = {m \in 0 .. N : Absent(s[N - m])}
  OBVIOUS
<1>2. SUFFICES ASSUME T # {} PROVE FALSE
  <2>1. SUFFICES ASSUME NEW n \in 0 .. N, Absent(s[n]) PROVE FALSE
    OBVIOUS
  <2>2. N - n \in 0 .. N /\ N - (N - n) = n
    OBVIOUS
  <2>3. N - n \in T
    BY <1>1, <2>1, <2>2
  <2> QED BY <1>2, <2>3
<1>3. PICK x \in T : \A y \in T : x <= y
  <2>1. T \in SUBSET Nat
    BY <1>1
  <2> QED BY <1>2, <2>1, LeastNumber
<1>4. x \in 0 .. N /\ Absent(s[N - x])
  BY <1>1
<1>5. x # 0
  BY <1>4
<1>6. PICK m \in 1 .. N : m - 1 = N - x /\ m = N - (x - 1)
  <2>1. N - x + 1 \in 1 .. N /\ (N - x + 1) - 1 = N - x /\ N - x + 1 = N - (x - 1)
    BY <1>4, <1>5
  <2> QED BY <2>1
<1>7. ~ Absent(s[m])
  <2>1. x - 1 \in 0 .. N /\ ~ (x <= x - 1)
    BY <1>4, <1>5
  <2> QED BY <1>1, <1>3, <1>6, <2>1
<1>8. s[m] = StepState(c, s[m - 1], v[m])
  BY DEF Run
<1>9. Absent(s[m - 1])
  BY <1>4, <1>6
<1>10. Absent(s[m])
  BY ONLY <1>8, <1>9, StepTaken
<1> QED BY <1>7, <1>10

\* Between two values the state stays the first of them.
LEMMA StateWaits ==
  ASSUME NEW c, NEW s, NEW v, NEW i \in Nat, NEW j \in Nat, i < j, NEW u, s[i] = u,
         Run(c, s, v, i, j - 1), NoneBetween(v, i, j - 1)
  PROVE  s[j - 1] = u
<1>1. PICK T : T = {m \in i .. j - 1 : s[m] # u}
  OBVIOUS
<1>2. SUFFICES ASSUME T # {} PROVE FALSE
  BY <1>1
<1>3. PICK x \in T : \A y \in T : x <= y
  <2>1. T \in SUBSET Nat
    BY <1>1
  <2> QED BY <1>2, <2>1, LeastNumber
<1>4. x \in i .. j - 1 /\ s[x] # u
  BY <1>1
<1>5. x # i
  BY <1>4
<1>6. x \in i + 1 .. j - 1 /\ x - 1 \in i .. j - 1 /\ ~ (x <= x - 1)
  BY <1>4, <1>5
<1>7. s[x - 1] = u
  BY <1>1, <1>3, <1>6
<1>8. s[x] = StepState(c, s[x - 1], v[x]) /\ Absent(v[x])
  BY <1>6 DEF Run, NoneBetween
<1>9. s[x] = s[x - 1]
  BY ONLY <1>8, StepTaken, Zenon
<1> QED BY <1>4, <1>7, <1>9

\* The events of a state machine that is not refused follow its transitions.
LEMMA PathFollowsTransitions ==
  ASSUME NEW c, NEW N \in Nat, NEW s, NEW v, ~ Absent(s[N]), v[0] = s[0], c.transitions # {},
         Run(c, s, v, 0, N),
         NEW j \in 1 .. N, NEW i \in 0 .. j - 1, ~ Absent(v[i]), ~ Absent(v[j]),
         NoneBetween(v, i, j - 1)
  PROVE  <<v[i], v[j]>> \in c.transitions
<1>1. \A n \in 0 .. N : ~ Absent(s[n])
  BY NoRefusalAlong
<1>2. i \in Nat /\ j \in Nat /\ i < j /\ i \in 0 .. N /\ j - 1 \in 0 .. N /\ j \in 0 .. N
  OBVIOUS
<1>3. s[i] = v[i]
  <2>1. CASE i = 0
    BY <2>1
  <2>2. CASE i # 0
    <3>1. i \in 1 .. N /\ i - 1 \in 0 .. N
      BY <1>2, <2>2
    <3>2. s[i] = StepState(c, s[i - 1], v[i]) /\ ~ Absent(s[i]) /\ ~ Absent(s[i - 1])
      BY <1>1, <1>2, <3>1 DEF Run
    <3>3. ~ Absent(v[i])
      OBVIOUS
    <3>4. \A state, value, next :
            next = StepState(c, state, value) /\ ~ Absent(state) /\ ~ Absent(value) /\ ~ Absent(next) => next = value
      BY ONLY StepTaken, Zenon
    <3> QED BY ONLY <3>2, <3>3, <3>4, Zenon
  <2> QED BY <2>1, <2>2
<1>4. s[j - 1] = v[i]
  <2>1. \A n \in i + 1 .. j - 1 : n \in 1 .. N
    BY <1>2
  <2>2. Run(c, s, v, i, j - 1)
    BY <2>1 DEF Run
  <2> QED BY <1>2, <1>3, <2>2, StateWaits
<1>5. s[j] = StepState(c, s[j - 1], v[j]) /\ ~ Absent(s[j]) /\ ~ Absent(s[j - 1])
  BY <1>1, <1>2 DEF Run
<1>6. ~ Absent(v[j]) /\ c.transitions # {}
  OBVIOUS
<1> QED BY ONLY <1>4, <1>5, <1>6, StepTaken

\* What reduceStateMachine accepts can be replayed.
ReplayInv == WithinLimit /\ Reducer(card) = "state_machine" => ~ Absent(StateReached(card, stored))

ValueAt(i) == IF i = 0 THEN InitialState(card) ELSE InteractionValue(stored[i])

LEMMA ReplayMeans ==
  ASSUME Len(stored) \in Nat, ReplayInv
  PROVE  HistoryReplays
<1>1. PICK v : v = [i \in 0 .. Len(stored) |-> ValueAt(i)]
  OBVIOUS
<1>2. PICK s : s = StatesAlong(card, stored)
  OBVIOUS
<1>3. \A n \in 0 .. Len(stored) : v[n] = ValueAt(n)
  BY <1>1
<1>4. s[0] = v[0] /\ \A n \in 1 .. Len(stored) : s[n] = StepState(card, s[n - 1], v[n])
  <2>1. /\ s[0] = InitialState(card)
        /\ \A n \in 1 .. Len(stored) : s[n] = StepState(card, s[n - 1], InteractionValue(stored[n]))
    BY <1>2, StatesFollow
  <2>2. v[0] = InitialState(card) /\ \A n \in 1 .. Len(stored) : v[n] = InteractionValue(stored[n])
    BY <1>3 DEF ValueAt
  <2> QED BY <2>1, <2>2
<1> SUFFICES ASSUME WithinLimit, Reducer(card) = "state_machine", card.transitions # {},
                    NEW j \in 1 .. Len(stored), NEW i \in 0 .. j - 1, ~ Absent(ValueAt(i)), ~ Absent(ValueAt(j)),
                    \A k \in i + 1 .. j - 1 : Absent(ValueAt(k))
             PROVE  <<ValueAt(i), ValueAt(j)>> \in card.transitions
  BY Zenon DEF HistoryReplays, ValueAt, Absent
<1>5. ~ Absent(s[Len(stored)])
  BY <1>2 DEF ReplayInv, StateReached
<1>6. v[i] = ValueAt(i) /\ v[j] = ValueAt(j) /\ \A k \in i + 1 .. j - 1 : v[k] = ValueAt(k)
  BY <1>3
<1>7. ~ Absent(v[i]) /\ ~ Absent(v[j]) /\ \A k \in i + 1 .. j - 1 : Absent(v[k])
  BY <1>6
<1>8. Run(card, s, v, 0, Len(stored)) /\ NoneBetween(v, i, j - 1)
  BY <1>4, <1>7 DEF Run, NoneBetween
<1>9. <<v[i], v[j]>> \in card.transitions
  BY <1>4, <1>5, <1>7, <1>8, PathFollowsTransitions
<1> QED BY <1>6, <1>9

-----------------------------------------------------------------------------
(* The inductive invariant *)

CardTypeInv ==
    /\ stored \in Seq(EventRows)
    /\ cardTime \in Nat
    /\ card \in Cards /\ ConfigAccepted(card)

\* Before the first event the card shows nothing that was reduced.
NothingYet == stored = <<>> => shown = Unreduced

CardInv == CardTypeInv /\ NothingYet /\ ShownFollowsEvents /\ AnswersAreFinal /\ StepsAddUp /\ ReplayInv

EventOfInput(a, id, input) ==
    [id |-> id, actor |-> a, option |-> input.option, value |-> input.value,
     action |-> input.action, item |-> input.item, completed |-> input.completed, at |-> cardTime]

\* handleDynamicEvent stores the event in its place.
LEMMA EventIsStored ==
  ASSUME CardTypeInv, NEW a \in CardActors, NEW id \in CardEventIds, NEW input \in CardInputs,
         HandleDynamicEvent(a, id, input)
  PROVE  /\ EventOfInput(a, id, input) \in EventRows /\ EventOfInput(a, id, input).actor = a
         /\ stored' = SortedWith(stored, EventOfInput(a, id, input))
         /\ stored' \in Seq(EventRows) /\ Len(stored') = Len(stored) + 1 /\ Len(stored) \in Nat
         /\ stored' # <<>>
<1>1. EventOfInput(a, id, input) \in EventRows /\ EventOfInput(a, id, input).actor = a
  BY DEF EventOfInput, EventRows, CardTypeInv
<1>2. stored' = SortedWith(stored, EventOfInput(a, id, input))
  BY DEF HandleDynamicEvent, EventOfInput
<1>3. stored \in Seq(EventRows)
  BY DEF CardTypeInv
<1>4. stored' \in Seq(EventRows) /\ Len(stored') = Len(stored) + 1
  BY <1>1, <1>2, <1>3, SortedWithProperties
<1>5. Len(stored) \in Nat
  BY <1>3
<1>6. stored' # <<>>
  BY <1>4, <1>5
<1> QED BY <1>1, <1>2, <1>4, <1>5, <1>6

\* The other steps leave the card and its events alone.
LEMMA CardStepCases ==
  ASSUME [CardNext]_cardVars
  PROVE  \/ \E a \in CardActors, id \in CardEventIds, input \in CardInputs : HandleDynamicEvent(a, id, input)
         \/ /\ card' = card /\ stored' = stored /\ shown' = shown /\ sizeSeen' = sizeSeen /\ progress' = progress
            /\ cardTime' \in {cardTime, cardTime + 1}
  BY DEF CardNext, cardVars, GroupSizeChanges, CardTimePasses

\* Every step keeps the types of the card and of its events.
LEMMA CardTypeStep ==
  ASSUME CardTypeInv, NothingYet, [CardNext]_cardVars
  PROVE  CardTypeInv' /\ NothingYet'
<1>1. ASSUME NEW a \in CardActors, NEW id \in CardEventIds, NEW input \in CardInputs,
             HandleDynamicEvent(a, id, input)
      PROVE  CardTypeInv' /\ NothingYet'
  <2>1. stored' \in Seq(EventRows) /\ stored' # <<>>
    BY <1>1, EventIsStored
  <2>2. card' = card /\ cardTime' = cardTime
    BY <1>1 DEF HandleDynamicEvent
  <2> QED BY <2>1, <2>2 DEF CardTypeInv, NothingYet
<1>2. ASSUME card' = card, stored' = stored, shown' = shown, cardTime' \in {cardTime, cardTime + 1}
      PROVE  CardTypeInv' /\ NothingYet'
  <2>1. cardTime' \in Nat
    BY <1>2 DEF CardTypeInv
  <2> QED BY <1>2, <2>1 DEF CardTypeInv, NothingYet
<1> QED BY <1>1, <1>2, CardStepCases

-----------------------------------------------------------------------------
(* The state shown on the card *)

\* handleDynamicEvent stores an event with what the events make of the card.
LEMMA ShownStep ==
  ASSUME CardTypeInv, ShownFollowsEvents, [CardNext]_cardVars
  PROVE  ShownFollowsEvents'
<1>1. ASSUME NEW a \in CardActors, NEW id \in CardEventIds, NEW input \in CardInputs,
             HandleDynamicEvent(a, id, input)
      PROVE  ShownFollowsEvents'
  <2>1. SUFFICES ASSUME WithinLimit', Reducer(card') # "none"
                 PROVE  shown' = Reduce(card', stored', sizeSeen')
    BY DEF ShownFollowsEvents
  <2>2. PICK e : e = EventOfInput(a, id, input)
    OBVIOUS
  <2>3. stored' = SortedWith(stored, e) /\ Len(stored') = Len(stored) + 1 /\ Len(stored) \in Nat
    BY <1>1, <2>2, EventIsStored
  <2>4. Len(stored) < EventLimit
    BY <2>1, <2>3, CardAssumption DEF WithinLimit
  <2>5. LoadedEvents = stored
    BY <2>4, AllLoaded DEF CardTypeInv
  <2>6. /\ card' = card /\ sizeSeen' = groupSize
        /\ shown' = IF Reducer(card) = "none" THEN shown ELSE Reduce(card, EventsWithCandidate(e), groupSize)
    BY <1>1, <2>2 DEF HandleDynamicEvent, EventOfInput
  <2>7. EventsWithCandidate(e) = stored'
    BY <2>3, <2>5 DEF EventsWithCandidate
  <2> QED BY <2>1, <2>6, <2>7
<1>2. ASSUME card' = card, stored' = stored, shown' = shown, sizeSeen' = sizeSeen
      PROVE  ShownFollowsEvents'
  BY <1>2 DEF ShownFollowsEvents, WithinLimit
<1> QED BY <1>1, <1>2, CardStepCases

\* handleDynamicEvent refuses an event that the state machine cannot take, at
\* the place it sorts in.
LEMMA ReplayStep ==
  ASSUME CardTypeInv, ReplayInv, [CardNext]_cardVars
  PROVE  ReplayInv'
<1>1. ASSUME NEW a \in CardActors, NEW id \in CardEventIds, NEW input \in CardInputs,
             HandleDynamicEvent(a, id, input)
      PROVE  ReplayInv'
  <2>1. SUFFICES ASSUME WithinLimit', Reducer(card') = "state_machine"
                 PROVE  ~ Absent(StateReached(card', stored'))
    BY DEF ReplayInv, Absent
  <2>2. PICK e : e = EventOfInput(a, id, input)
    OBVIOUS
  <2>3. stored' = SortedWith(stored, e) /\ Len(stored') = Len(stored) + 1 /\ Len(stored) \in Nat
    BY <1>1, <2>2, EventIsStored
  <2>4. Len(stored) < EventLimit
    BY <2>1, <2>3, CardAssumption DEF WithinLimit
  <2>5. LoadedEvents = stored
    BY <2>4, AllLoaded DEF CardTypeInv
  <2>6. card' = card /\ ~ ReductionFails(card, EventsWithCandidate(e))
    BY <1>1, <2>2 DEF HandleDynamicEvent, EventOfInput
  <2>7. EventsWithCandidate(e) = stored'
    BY <2>3, <2>5 DEF EventsWithCandidate
  <2>8. ~ ReductionFails(card', stored')
    BY <2>6, <2>7
  <2> QED BY <2>1, <2>8, Zenon DEF ReductionFails, Absent
<1>2. ASSUME card' = card, stored' = stored
      PROVE  ReplayInv'
  BY <1>2, Zenon DEF ReplayInv, WithinLimit
<1> QED BY <1>1, <1>2, CardStepCases

-----------------------------------------------------------------------------
(* Answers that cannot be changed *)

\* An answer that was final stays the only one of its actor.
LEMMA FinalStep ==
  ASSUME CardTypeInv, AnswersAreFinal, [CardNext]_cardVars
  PROVE  AnswersAreFinal'
<1>1. ASSUME NEW a \in CardActors, NEW id \in CardEventIds, NEW input \in CardInputs,
             HandleDynamicEvent(a, id, input)
      PROVE  AnswersAreFinal'
  <2>0. card' = card
    BY <1>1 DEF HandleDynamicEvent
  <2>1. SUFFICES ASSUME WithinLimit', Configured(card), Response(card) = "once", ~ card.allowChange,
                        NEW i \in DOMAIN stored', NEW j \in DOMAIN stored', stored'[i].actor = stored'[j].actor
                 PROVE  i = j
    BY <2>0 DEF AnswersAreFinal
  <2>2. PICK e : e = EventOfInput(a, id, input)
    OBVIOUS
  <2>3. /\ e \in EventRows /\ e.actor = a /\ stored' = SortedWith(stored, e)
        /\ stored' \in Seq(EventRows) /\ Len(stored') = Len(stored) + 1 /\ Len(stored) \in Nat
    BY <1>1, <2>2, EventIsStored
  <2>4. Len(stored) < EventLimit /\ WithinLimit
    BY <2>1, <2>3, CardAssumption DEF WithinLimit
  <2>5. stored \in Seq(EventRows) /\ DOMAIN stored = 1 .. Len(stored)
    BY DEF CardTypeInv
  <2>6. LoadedEvents = stored
    BY <2>4, <2>5, AllLoaded
  <2>7. PICK T : T = {n \in DOMAIN stored : stored[n].actor = a}
    OBVIOUS
  <2>8. ChangeAllowed(card, Cardinality(T))
    <3>1. PolicyAdmits(card, stored, a)
      BY <1>1, <2>6 DEF HandleDynamicEvent
    <3> QED BY <2>1, <2>7, <3>1 DEF PolicyAdmits
  <2>9. ~ (Cardinality(T) > 0)
    BY <2>1, <2>8 DEF ChangeAllowed
  <2>10. T = {}
    <3>0. IsFiniteSet(1 .. Len(stored)) /\ T \subseteq 1 .. Len(stored)
      BY <2>3, <2>5, <2>7, FS_Interval
    <3>1. IsFiniteSet(T)
      BY <3>0, FS_Subset, Zenon
    <3> QED BY <2>9, <3>1, FS_EmptySet, FS_CardinalityType
  <2>11. \A n \in 1 .. Len(stored) : stored[n].actor # a
    BY <2>5, <2>7, <2>10
  <2>12. \A n, m \in 1 .. Len(stored) : stored[n].actor = stored[m].actor => n = m
    BY <2>1, <2>4, <2>5 DEF AnswersAreFinal
  <2>13. PICK k \in 1 .. Len(stored) + 1 : \A n \in 1 .. Len(stored) + 1 :
           stored'[n] = IF n < k THEN stored[n] ELSE IF n = k THEN e ELSE stored[n - 1]
    <3>1. \E k \in 1 .. Len(stored) + 1 : \A n \in 1 .. Len(stored) + 1 :
            SortedWith(stored, e)[n] = IF n < k THEN stored[n] ELSE IF n = k THEN e ELSE stored[n - 1]
      BY <2>3, <2>5, SortedWithProperties, Zenon
    <3>2. stored' = SortedWith(stored, e)
      BY <2>3
    <3> QED BY <3>1, <3>2, Zenon
  <2>14. i \in 1 .. Len(stored) + 1 /\ j \in 1 .. Len(stored) + 1
    BY <2>3
  <2>15. /\ stored'[i] = IF i < k THEN stored[i] ELSE IF i = k THEN e ELSE stored[i - 1]
         /\ stored'[j] = IF j < k THEN stored[j] ELSE IF j = k THEN e ELSE stored[j - 1]
    BY <2>13, <2>14
  <2>16. \A n \in 1 .. Len(stored) + 1 : /\ n < k => n \in 1 .. Len(stored)
                                         /\ n > k => n - 1 \in 1 .. Len(stored)
    BY <2>3
  <2>17. CASE i = k
    BY <2>1, <2>3, <2>11, <2>14, <2>15, <2>16, <2>17
  <2>18. CASE j = k
    BY <2>1, <2>3, <2>11, <2>14, <2>15, <2>16, <2>18
  <2>19. CASE i # k /\ j # k
    <3>1. i < k /\ j < k => i = j
      BY <2>1, <2>12, <2>14, <2>15, <2>16
    <3>2. i > k /\ j > k => i = j
      BY <2>1, <2>3, <2>12, <2>14, <2>15, <2>16
    <3>3. i < k /\ j > k => FALSE
      BY <2>1, <2>3, <2>12, <2>14, <2>15, <2>16
    <3>4. i > k /\ j < k => FALSE
      BY <2>1, <2>3, <2>12, <2>14, <2>15, <2>16
    <3> QED BY <2>3, <2>14, <2>19, <3>1, <3>2, <3>3, <3>4
  <2> QED BY <2>17, <2>18, <2>19
<1>2. ASSUME card' = card, stored' = stored
      PROVE  AnswersAreFinal'
  BY <1>2 DEF AnswersAreFinal, WithinLimit
<1> QED BY <1>1, <1>2, CardStepCases

-----------------------------------------------------------------------------
(* Approvals *)

Positive(events) == {i \in LatestByActor(events) : IsPositive(InteractionValue(events[i]))}
Negative(events) == {i \in LatestByActor(events) : IsNegative(InteractionValue(events[i]))}

\* What reduceApprovalQuorum says of a card that is approved.
LEMMA ApprovedMeans ==
  ASSUME NEW c, NEW events, NEW size, Reducer(c) = "approval_quorum", ~ c.closeOnResponse,
         Reduce(c, events, size).status = "approved"
  PROVE  /\ c.quorum > 0 /\ c.quorum \in Int => Cardinality(Positive(events)) >= c.quorum
         /\ c.veto => ~ (Cardinality(Negative(events)) > 0)
<1>1. PICK total : Reduce(c, events, size) = ReduceApprovalQuorum(c, events, total)
  BY DEF Reduce
<1>2. PICK latest : latest = LatestByActor(events)
  OBVIOUS
<1>3. PICK approved : approved = Cardinality({i \in latest : IsPositive(InteractionValue(events[i]))})
  OBVIOUS
<1>4. PICK rejected : rejected = Cardinality({i \in latest : IsNegative(InteractionValue(events[i]))})
  OBVIOUS
<1>5. PICK quorum : quorum = IF c.quorum <= 0 THEN NormalizedTotal(total, Cardinality(latest)) ELSE c.quorum
  OBVIOUS
<1>6. ReduceApprovalQuorum(c, events, total).status =
         IF c.veto /\ rejected > 0 THEN "rejected" ELSE IF approved >= quorum THEN "approved" ELSE "pending"
  BY <1>2, <1>3, <1>4, <1>5 DEF ReduceApprovalQuorum, Reduction
<1>7. ~ (c.veto /\ rejected > 0) /\ approved >= quorum
  BY <1>1, <1>6
<1>8. approved = Cardinality(Positive(events)) /\ rejected = Cardinality(Negative(events))
  BY <1>2, <1>3, <1>4 DEF Positive, Negative
<1>9. c.quorum > 0 /\ c.quorum \in Int => quorum = c.quorum
  BY <1>5
<1> QED BY <1>7, <1>8, <1>9

\* Every approval that was counted is the last word of somebody else.
LEMMA ApprovalsAreOfDifferentActors ==
  ASSUME NEW events \in Seq(EventRows), NEW Yes \in SUBSET CardActors,
         \A i \in Positive(events) : events[i].actor \in Yes
  PROVE  Cardinality(Positive(events)) \in Nat /\ Cardinality(Yes) \in Nat
         /\ Cardinality(Positive(events)) <= Cardinality(Yes)
<1>0. IsFiniteSet(Yes)
  BY CardAssumption, FS_Subset, Zenon
<1>1. PICK f : f = [i \in Positive(events) |-> events[i].actor]
  OBVIOUS
<1>2. f \in [Positive(events) -> Yes]
  BY <1>1
<1>3. ASSUME NEW i \in Positive(events), NEW j \in Positive(events), f[i] = f[j]
      PROVE  i = j
  <2>1. events[i].actor = events[j].actor /\ i \in LatestByActor(events) /\ j \in LatestByActor(events)
    BY <1>1, <1>3 DEF Positive
  <2>2. i \in DOMAIN events /\ j \in DOMAIN events /\ i <= j /\ j <= i
    BY <2>1 DEF LatestByActor
  <2>3. DOMAIN events = 1 .. Len(events) /\ Len(events) \in Nat
    OBVIOUS
  <2> QED BY <2>2, <2>3
<1>4. f \in Injection(Positive(events), Yes)
  BY <1>2, <1>3, Fun_IsInj
<1>5. IsFiniteSet(Positive(events)) /\ Cardinality(Positive(events)) <= Cardinality(Yes)
  BY <1>0, <1>4, FS_Injection
<1> QED BY <1>0, <1>5, FS_CardinalityType

\* A card whose state follows its events is approved by those people.
LEMMA ApprovalEarned ==
  ASSUME CardTypeInv, NothingYet, ShownFollowsEvents
  PROVE  ApprovalIsEarned
<1>1. PICK LastPlace : LastPlace = [a \in CardActors |->
           {j \in DOMAIN stored : stored[j].actor = a /\ \A k \in DOMAIN stored : stored[k].actor = a => k <= j}]
  OBVIOUS
<1>2. PICK Yes : Yes = {a \in CardActors : \E v \in {InteractionValue(stored[i]) : i \in LastPlace[a]} : IsPositive(v)}
  OBVIOUS
<1>3. SUFFICES ASSUME WithinLimit, Reducer(card) = "approval_quorum", ~ card.closeOnResponse, shown.status = "approved"
               PROVE  /\ card.quorum > 0 => Cardinality(Yes) >= card.quorum
                      /\ card.veto => \A a \in CardActors :
                           \A v \in {InteractionValue(stored[i]) : i \in LastPlace[a]} : ~ IsNegative(v)
  BY <1>1, <1>2 DEF ApprovalIsEarned
<1>4. stored # <<>>
  <2>1. Unreduced.status # "approved"
    BY DEF Unreduced, Reduction
  <2> QED BY <1>3, <2>1 DEF NothingYet
<1>5. shown = Reduce(card, stored, sizeSeen)
  <2>1. Reducer(card) # "none"
    BY <1>3
  <2> QED BY <1>3, <1>4, <2>1 DEF ShownFollowsEvents
<1>6. card.quorum \in Int
  BY CardAssumption DEF CardTypeInv
<1>7. /\ card.quorum > 0 => Cardinality(Positive(stored)) >= card.quorum
      /\ card.veto => ~ (Cardinality(Negative(stored)) > 0)
  BY <1>3, <1>5, <1>6, ApprovedMeans
<1>8. stored \in Seq(EventRows) /\ DOMAIN stored = 1 .. Len(stored) /\ Len(stored) \in Nat
  BY DEF CardTypeInv
<1>9. \A a \in CardActors : \A i \in LastPlace[a] : i \in LatestByActor(stored)
  BY <1>1 DEF LatestByActor
<1>10. card.quorum > 0 => Cardinality(Yes) >= card.quorum
  <2>1. ASSUME NEW i \in Positive(stored)
        PROVE  stored[i].actor \in Yes
    <3>1. i \in DOMAIN stored /\ \A j \in DOMAIN stored : stored[j].actor = stored[i].actor => j <= i
      BY DEF Positive, LatestByActor
    <3>2. stored[i].actor \in CardActors
      <4>1. stored[i] \in EventRows
        BY <1>8, <3>1
      <4> QED BY <4>1 DEF EventRows
    <3>3. i \in LastPlace[stored[i].actor]
      BY <1>1, <3>1, <3>2
    <3>4. IsPositive(InteractionValue(stored[i]))
      BY DEF Positive
    <3> QED BY <1>2, <3>2, <3>3, <3>4, Zenon
  <2>2. Yes \subseteq CardActors
    BY <1>2
  <2>3. /\ Cardinality(Positive(stored)) \in Nat /\ Cardinality(Yes) \in Nat
        /\ Cardinality(Positive(stored)) <= Cardinality(Yes)
    BY <1>8, <2>1, <2>2, ApprovalsAreOfDifferentActors
  <2> QED BY <1>6, <1>7, <2>3
<1>11. ASSUME card.veto, NEW a \in CardActors, NEW i \in LastPlace[a], IsNegative(InteractionValue(stored[i]))
       PROVE  FALSE
  <2>1. i \in Negative(stored)
    BY <1>9, <1>11 DEF Negative
  <2>2. Negative(stored) \subseteq 1 .. Len(stored)
    BY <1>8 DEF Negative, LatestByActor
  <2>3. IsFiniteSet(Negative(stored))
    <3>1. IsFiniteSet(1 .. Len(stored))
      BY <1>8, FS_Interval
    <3> QED BY <2>2, <3>1, FS_Subset, Zenon
  <2>4. Cardinality(Negative(stored)) \in Nat /\ Cardinality(Negative(stored)) # 0
    BY <2>1, <2>3, FS_EmptySet, FS_CardinalityType
  <2> QED BY <1>7, <1>11, <2>4
<1> QED BY <1>10, <1>11, Zenon

\* What handleGetDynamicInteractions shows of others needs the card's leave.
LEMMA DetailsPrivate == ASSUME CardTypeInv PROVE DetailsStayPrivate
<1> SUFFICES ASSUME NEW viewer \in CardActors, NEW i \in VisibleEvents(viewer)
             PROVE  stored[i].actor = viewer \/ DetailAllowed(viewer)
  BY DEF DetailsStayPrivate
<1>1. Visibility(card) \in {"public_aggregate", "public_detail", "admin_detail", "actor_only", "anonymous_aggregate"}
  BY Zenon DEF CardTypeInv, ConfigAccepted
<1>2. /\ Visibility(card) \notin {"public_aggregate", "anonymous_aggregate"}
      /\ Visibility(card) = "actor_only" => stored[i].actor = viewer
      /\ Visibility(card) = "admin_detail" => DetailAllowed(viewer)
  BY DEF VisibleEvents
<1>3. Visibility(card) = "public_detail" => DetailAllowed(viewer)
  BY DEF DetailAllowed
<1> QED BY <1>1, <1>2, <1>3

-----------------------------------------------------------------------------
(* Buttons that count the steps of a whole *)

\* No more than the parts of a whole come to no more than the whole.
LEMMA PartsOfAWhole ==
  ASSUME NEW p \in Nat \ {0}, NEW n \in Nat, n <= p
  PROVE  (Whole \div p) \in Nat /\ n * (Whole \div p) \in Nat /\ n * (Whole \div p) <= Whole
<1>1. PICK q : q = Whole \div p
  OBVIOUS
<1>2. q \in Nat /\ p * q <= Whole
  BY <1>1, Z3 DEF Whole
<1>3. n * q <= p * q /\ n * q \in Nat /\ p * q \in Nat
  BY <1>2, Z3
<1>4. n * q <= Whole
  BY <1>2, <1>3 DEF Whole
<1> QED BY <1>1, <1>2, <1>3, <1>4

\* A button that adds one part of a whole and names no number of its own.
StepButton(b) == /\ b.parts > 0 /\ b.absolute = NoNumber /\ b.delta = NoNumber
                 /\ (StatusAction(b) /\ b.statusNode /\ b.value = NoNumber)

\* One press adds one part, as long as the sum is no more than the whole.
LEMMA OnePress ==
  ASSUME NEW b, b.parts \in Nat, StepButton(b), NEW current \in Nat, current + OneStep(b) <= Whole
  PROVE  ProgressAfter(b, current) = current + OneStep(b)
<1>1. b.action # "set_progress" /\ b.action # "increment_progress"
  BY DEF StepButton, StatusAction, IsPositive, IsNegative
<1>2. Projected(b)
  BY DEF Projected, StepButton
<1>3. ButtonTarget(b) # "none" /\ (b.action = "set_status" => ButtonTarget(b) = "status")
  <2>1. CASE b.action \in {"set_status"} \cup Verdicts
    <3>1. b.statusNode
      BY DEF StepButton
    <3>2. (IF b.statusNode THEN "status" ELSE "progress") = "status"
      BY <3>1
    <3>3. ButtonTarget(b) = IF b.statusNode THEN "status" ELSE "progress"
      BY <1>1, <2>1, <3>1, Z3 DEF ButtonTarget, Verdicts
    <3>4. ButtonTarget(b) = "status"
      BY <3>2, <3>3
    <3> QED BY <3>4
  <2>2. CASE b.action \notin {"set_status"} \cup Verdicts
    BY <1>1, <1>2, <2>2 DEF ButtonTarget
  <2> QED BY <2>1, <2>2
<1>4. ActedProgress(b, current) = current
  BY <1>1, <1>3 DEF ActedProgress
<1>5. FollowingProgress(b, current) = current + OneStep(b)
  BY <1>1 DEF FollowingProgress, StepButton
<1>6. ProgressAfter(b, current) = InPercent(FollowingProgress(b, current))
  BY <1>1, <1>2, <1>3, <1>4 DEF ProgressAfter
<1>7. OneStep(b) \in Nat
  BY PartsOfAWhole DEF OneStep, StepButton, Tenth
<1>8. InPercent(current + OneStep(b)) = current + OneStep(b)
  BY <1>7 DEF InPercent, Whole
<1> QED BY <1>5, <1>6, <1>8

\* A press of the button adds one part of the whole.
LEMMA AddUpStep ==
  ASSUME CardTypeInv, StepsAddUp, [CardNext]_cardVars
  PROVE  StepsAddUp'
<1>1. ASSUME NEW a \in CardActors, NEW id \in CardEventIds, NEW input \in CardInputs,
             HandleDynamicEvent(a, id, input)
      PROVE  StepsAddUp'
  <2>0. card' = card /\ (Reducer(card) = "none" => progress' = ProgressAfter(card.button, progress))
    BY <1>1 DEF HandleDynamicEvent
  <2>1. PICK b : b = card.button
    OBVIOUS
  <2>2. SUFFICES ASSUME Reducer(card) = "none", StepButton(b), Len(stored') <= b.parts
                 PROVE  progress' = Len(stored') * OneStep(b)
    BY <2>0, <2>1 DEF StepsAddUp, StepButton
  <2>3. b.parts \in Nat /\ b.parts \in Nat \ {0} /\ OneStep(b) = Whole \div b.parts
    <3>1. b.parts \in Nat
      BY <2>1, CardAssumption DEF CardTypeInv
    <3> QED BY <2>2, <3>1 DEF StepButton, OneStep
  <2>4. PICK n \in Nat : n = Len(stored)
    BY <1>1, EventIsStored
  <2>5. Len(stored') = n + 1 /\ n + 1 <= b.parts
    BY <1>1, <2>2, <2>4, EventIsStored
  <2>6. progress = n * OneStep(b)
    BY <2>1, <2>2, <2>3, <2>4, <2>5 DEF StepsAddUp, StepButton
  <2>7. /\ OneStep(b) \in Nat /\ n * OneStep(b) \in Nat
        /\ (n + 1) * OneStep(b) \in Nat /\ (n + 1) * OneStep(b) <= Whole
    <3>1. n + 1 \in Nat /\ n <= b.parts
      BY <2>3, <2>5
    <3> QED BY <2>3, <2>5, <3>1, PartsOfAWhole
  <2>8. (n + 1) * OneStep(b) = n * OneStep(b) + OneStep(b)
    BY <2>7
  <2>9. ProgressAfter(b, progress) = progress + OneStep(b)
    BY <2>2, <2>3, <2>6, <2>7, <2>8, OnePress
  <2> QED BY <2>0, <2>1, <2>2, <2>5, <2>6, <2>8, <2>9
<1>2. ASSUME card' = card, stored' = stored, progress' = progress
      PROVE  StepsAddUp'
  BY <1>2 DEF StepsAddUp
<1> QED BY <1>1, <1>2, CardStepCases

-----------------------------------------------------------------------------
(* The theorem *)

\* The initial states satisfy the inductive invariant ...
LEMMA CardStarts == CardInit => CardInv
<1> SUFFICES ASSUME CardInit PROVE CardInv
  OBVIOUS
<1>1. stored = <<>> /\ shown = Unreduced /\ card \in Cards /\ ConfigAccepted(card) /\ cardTime = 1
  BY DEF CardInit
<1>2. stored \in Seq(EventRows) /\ DOMAIN stored = {}
  BY <1>1
<1>3. CardTypeInv /\ NothingYet
  BY <1>1, <1>2 DEF CardTypeInv, NothingYet
<1>4. ShownFollowsEvents /\ AnswersAreFinal
  BY <1>1, <1>2 DEF ShownFollowsEvents, AnswersAreFinal
<1>5. StepsAddUp
  <2>1. SUFFICES ASSUME card.button.parts > 0
                 PROVE  progress = Len(stored) * OneStep(card.button)
    BY DEF StepsAddUp
  <2>2. card.button.parts \in Nat
    BY <1>1, CardAssumption
  <2>3. OneStep(card.button) \in Nat
    BY <2>1, <2>2, PartsOfAWhole DEF OneStep
  <2> QED BY <1>1, <2>3 DEF CardInit
<1>6. ReplayInv
  <2>1. Len(stored) \in Nat /\ StateReached(card, stored) = StatesAlong(card, stored)[0]
    BY <1>1 DEF StateReached
  <2>2. StateReached(card, stored) = InitialState(card)
    BY <2>1, StatesFollow
  <2>3. ~ Absent(InitialState(card))
    BY Zenon DEF InitialState, Absent
  <2> QED BY <2>2, <2>3, Zenon DEF ReplayInv
<1> QED BY <1>3, <1>4, <1>5, <1>6 DEF CardInv

\* ... and every step keeps it.
LEMMA CardInvSteps == CardInv /\ [CardNext]_cardVars => CardInv'
  BY CardTypeStep, ShownStep, FinalStep, AddUpStep, ReplayStep, Zenon DEF CardInv

\* The answers on a dynamic card, for any cards, actors, events and limit: a
\* quorum approves with the last words of as many different actors and against
\* no veto, an answer that cannot be changed is the only one of its actor, and
\* get_dynamic_interactions shows the events of others only where the card
\* allows it.
THEOREM AnswersStayCounted == CardSpec => []AnswersCount
<1>1. CardInv => AnswersCount
  BY ApprovalEarned, DetailsPrivate DEF CardInv, AnswersCount
<1> QED BY <1>1, CardStarts, CardInvSteps, PTL DEF CardSpec

\* The state on the card is what reduceDynamicInteraction makes of its stored
\* events in their order, also when an event arrived before one it sorts behind;
\* the events of a state machine, in that order, follow its transitions from
\* its initial state; and the progress of a card without a reducer is the sum
\* of the steps its button added, up to the whole.
THEOREM CardShowsItsEvents == CardSpec => []CardFollowsEvents
<1>1. CardInv => CardFollowsEvents
  <2>1. CardInv => Len(stored) \in Nat
    BY DEF CardInv, CardTypeInv
  <2> QED BY <2>1, ReplayMeans, Zenon DEF CardInv, CardFollowsEvents
<1> QED BY <1>1, CardStarts, CardInvSteps, PTL DEF CardSpec

(*************************************************************************)
(* Friendship                                                            *)
(*************************************************************************)

\* A request that was sent names two accounts.
RowsNamed ==
    \A r \in Requests : request[r].status # "none" => request[r].from \in Users /\ request[r].to \in Users

\* A handler works on the accounts it was called for.
ActorsNamed ==
    \A p \in Pumps : pump[p].pc # "idle" => pump[p].actor \in Users /\ pump[p].peer \in Users

\* A handler of an answer works on a request between its two accounts.
AnswersNamed ==
    \A p \in Pumps : pump[p].pc \in {"add", "handle", "undo"} =>
        /\ pump[p].flag \in Requests
        /\ request[pump[p].flag].status # "none"
        /\ PairOf(pump[p].flag) = PairAt(p)

\* Only an accept adds friends.
AddedByAccept ==
    \A p \in Pumps : pump[p].added \/ pump[p].pc = "add" => pump[p].action = "accepted"

\* A request that was accepted stays accepted.
EndedAccepted == \A r \in ended : request[r].status = "accepted"

Named == RowsNamed /\ ActorsNamed /\ AnswersNamed /\ AddedByAccept /\ EndedAccepted

\* The inductive invariant.
ConsentInv == TypeOK /\ Named /\ AnsweredOnce /\ FriendsConsented

-----------------------------------------------------------------------------
LEMMA InitConsent == Init => ConsentInv
<1> SUFFICES ASSUME Init PROVE ConsentInv
    OBVIOUS
<1>1. TypeOK
    BY FriendshipAssumption DEF Init, TypeOK, NoRow, RequestRows, IdlePump, PumpRecord, Statuses, Steps
<1>2. \A p \in Pumps : pump[p] = IdlePump
    BY DEF Init
<1>3. \A r \in Requests : request[r] = NoRow
    BY DEF Init
<1>4. Named
    BY <1>2, <1>3 DEF Init, Named, RowsNamed, ActorsNamed, AnswersNamed, AddedByAccept,
       EndedAccepted, NoRow, IdlePump
<1>5. AnsweredOnce /\ FriendsConsented
    BY <1>3 DEF Init, AnsweredOnce, FriendsConsented, NoRow
<1> QED
    BY <1>1, <1>4, <1>5 DEF ConsentInv

\* What a handler is left with when it ends, moves on or inserts a friendship.
LEMMA PumpMoves ==
    ASSUME TypeOK, NEW p \in Pumps
    PROVE  /\ pump[p] \in PumpRecord
           /\ IdlePump \in PumpRecord
           /\ Done(p) => /\ pump' \in [Pumps -> PumpRecord]
                         /\ pump'[p] = IdlePump
                         /\ \A q \in Pumps \ {p} : pump'[q] = pump[q]
           /\ \A pc \in Steps : Goto(p, pc) =>
                 /\ pump' \in [Pumps -> PumpRecord]
                 /\ pump'[p] = [pump[p] EXCEPT !.pc = pc]
                 /\ \A q \in Pumps \ {p} : pump'[q] = pump[q]
<1>1. pump[p] \in PumpRecord
    BY DEF TypeOK
<1>2. IdlePump \in PumpRecord
    BY DEF IdlePump, PumpRecord, Steps
<1>3. Done(p) => /\ pump' \in [Pumps -> PumpRecord]
                 /\ pump'[p] = IdlePump
                 /\ \A q \in Pumps \ {p} : pump'[q] = pump[q]
    BY <1>2 DEF Done, TypeOK
<1>4. ASSUME NEW pc \in Steps, Goto(p, pc)
      PROVE  /\ pump' \in [Pumps -> PumpRecord]
             /\ pump'[p] = [pump[p] EXCEPT !.pc = pc]
             /\ \A q \in Pumps \ {p} : pump'[q] = pump[q]
    <2>1. [pump[p] EXCEPT !.pc = pc] \in PumpRecord
        BY <1>1, <1>4 DEF PumpRecord
    <2> QED
        BY <2>1, <1>4 DEF Goto, TypeOK
<1> QED
    BY <1>1, <1>2, <1>3, <1>4


\* A handler that ends without writing leaves the invariant alone, unless it is
\* one that would have to take a friendship back.
LEMMA DoneConsent ==
    ASSUME ConsentInv, NEW p \in Pumps, Done(p), UNCHANGED <<request, parted, ended, answers>>,
           blocks' \subseteq Users \X Users,
           kept' \subseteq Pairs, kept \subseteq kept',
           friends' \subseteq friends,
           PairAt(p) \in friends' => pump[p].pc \notin {"handle", "undo"} \/ ~pump[p].added
                                     \/ PairAt(p) \in kept'
    PROVE  ConsentInv'
<1> USE DEF ConsentInv
<1>1. /\ pump' \in [Pumps -> PumpRecord]
      /\ pump'[p] = IdlePump
      /\ \A q \in Pumps \ {p} : pump'[q] = pump[q]
    BY PumpMoves
<1>2. TypeOK'
    BY <1>1 DEF TypeOK
<1>3. Named'
    <2>1. RowsNamed' /\ EndedAccepted'
        BY DEF Named, RowsNamed, EndedAccepted
    <2>2. AddedByAccept'
        BY <1>1 DEF Named, AddedByAccept, IdlePump
    <2>3. ActorsNamed'
        BY <1>1 DEF Named, ActorsNamed, IdlePump
    <2>4. AnswersNamed'
        BY <1>1 DEF Named, AnswersNamed, PairOf, PairAt, IdlePump
    <2> QED
        BY <2>1, <2>2, <2>3, <2>4 DEF Named
<1>4. AnsweredOnce'
    BY DEF AnsweredOnce
<1>5. FriendsConsented'
    <2> SUFFICES ASSUME NEW pair \in friends', pair \notin kept',
                        ~ \E r \in Requests \ ended : PairOf(r) = pair /\ request[r].status = "accepted"
                 PROVE  \E q \in Pumps : /\ PairAt(q)' = pair
                                         /\ pump'[q].pc \in {"handle", "undo"} /\ pump'[q].added
        BY DEF FriendsConsented, PairOf
    <2>1. PICK q \in Pumps : PairAt(q) = pair /\ pump[q].pc \in {"handle", "undo"} /\ pump[q].added
        BY DEF FriendsConsented
    <2>2. q # p
        BY <2>1
    <2> QED
        BY <2>1, <2>2, <1>1 DEF PairAt
<1> QED
    BY <1>2, <1>3, <1>4, <1>5

\* A handler that begins, or goes on, without writing.
LEMMA MoveConsent ==
    ASSUME ConsentInv, NEW p \in Pumps, NEW rec \in PumpRecord,
           pump' = [pump EXCEPT ![p] = rec], UNCHANGED <<request, parted, ended, answers, kept>>,
           friends' = friends,
           blocks' \subseteq Users \X Users,
           rec.actor \in Users, rec.peer \in Users,
           rec.pc \in {"add", "handle", "undo"} =>
               /\ rec.flag \in Requests
               /\ request[rec.flag].status # "none"
               /\ PairOf(rec.flag) = {rec.actor, rec.peer},
           rec.added \/ rec.pc = "add" => rec.action = "accepted",
           pump[p].pc \in {"handle", "undo"} /\ pump[p].added =>
               rec.added /\ rec.pc \in {"handle", "undo"} /\ PairAt(p) = {rec.actor, rec.peer}
    PROVE  ConsentInv'
<1> USE DEF ConsentInv
<1>1. /\ pump' \in [Pumps -> PumpRecord]
      /\ pump'[p] = rec
      /\ \A q \in Pumps \ {p} : pump'[q] = pump[q]
    BY DEF TypeOK
<1>2. TypeOK'
    BY <1>1 DEF TypeOK
<1>3. /\ RowsNamed' /\ EndedAccepted'
      /\ AddedByAccept'
    BY <1>1 DEF Named, RowsNamed, AddedByAccept, EndedAccepted
<1>4. ActorsNamed'
    BY <1>1 DEF Named, ActorsNamed
<1>5. AnswersNamed'
    BY <1>1 DEF Named, AnswersNamed, PairOf, PairAt
<1>6. AnsweredOnce'
    BY DEF AnsweredOnce
<1>7. FriendsConsented'
    <2> SUFFICES ASSUME NEW pair \in friends, pair \notin kept,
                        ~ \E r \in Requests \ ended : PairOf(r) = pair /\ request[r].status = "accepted"
                 PROVE  \E q \in Pumps : /\ PairAt(q)' = pair
                                         /\ pump'[q].pc \in {"handle", "undo"} /\ pump'[q].added
        BY DEF FriendsConsented, PairOf
    <2>1. PICK q \in Pumps : PairAt(q) = pair /\ pump[q].pc \in {"handle", "undo"} /\ pump[q].added
        BY DEF FriendsConsented
    <2>2. CASE q # p
        BY <2>1, <2>2, <1>1 DEF PairAt
    <2>3. CASE q = p
        BY <2>1, <2>3, <1>1 DEF PairAt
    <2> QED
        BY <2>2, <2>3
<1> QED
    BY <1>2, <1>3, <1>4, <1>5, <1>6, <1>7 DEF Named


-----------------------------------------------------------------------------
(* The handlers *)

LEMMA BeginRequestConsent ==
    ASSUME ConsentInv, NEW p \in Pumps, NEW u \in Users, NEW v \in Users, BeginRequest(p, u, v)
    PROVE  ConsentInv'
<1>1. PICK rec : rec = [IdlePump EXCEPT !.pc = "create", !.actor = u, !.peer = v]
    OBVIOUS
<1>2. /\ rec \in PumpRecord
      /\ rec.pc = "create" /\ rec.actor = u /\ rec.peer = v
    BY <1>1 DEF IdlePump, PumpRecord, Steps
<1>3. ~rec.added
    BY <1>1 DEF IdlePump
<1>4. pump' = [pump EXCEPT ![p] = rec] /\ UNCHANGED <<tables, history>> /\ pump[p].pc = "idle"
    BY <1>1 DEF BeginRequest
<1>5. blocks' \subseteq Users \X Users
    BY <1>4 DEF ConsentInv, TypeOK, tables
<1> QED
    BY <1>2, <1>3, <1>4, <1>5, MoveConsent DEF tables, history, separations

LEMMA BlockConsent ==
    ASSUME ConsentInv, NEW p \in Pumps, NEW u \in Users, NEW v \in Users, Block(p, u, v)
    PROVE  ConsentInv'
<1>1. PICK rec : rec = [IdlePump EXCEPT !.pc = "unfriend", !.actor = u, !.peer = v]
    OBVIOUS
<1>2. /\ rec \in PumpRecord
      /\ rec.pc = "unfriend" /\ rec.actor = u /\ rec.peer = v
    BY <1>1 DEF IdlePump, PumpRecord, Steps
<1>3. ~rec.added
    BY <1>1 DEF IdlePump
<1>4. pump' = [pump EXCEPT ![p] = rec] /\ UNCHANGED <<friends, request, history>> /\ pump[p].pc = "idle"
    BY <1>1 DEF Block
<1>5. blocks' \subseteq Users \X Users
    BY DEF ConsentInv, TypeOK, Block
<1> QED
    BY <1>2, <1>3, <1>4, <1>5, MoveConsent DEF history, separations

LEMMA BeginHandleConsent ==
    ASSUME ConsentInv, NEW p \in Pumps, NEW r \in Requests, NEW action \in {"accepted", "rejected"},
           BeginHandle(p, r, action)
    PROVE  ConsentInv'
<1>1. PICK rec : rec = [pc |-> IF action = "accepted" THEN "add" ELSE "handle",
                        actor |-> request[r].to, peer |-> request[r].from, flag |-> r,
                        action |-> action, added |-> FALSE]
    OBVIOUS
<1>2. request[r].status = "pending" /\ request[r].from \in Users /\ request[r].to \in Users
    BY DEF ConsentInv, Named, RowsNamed, BeginHandle
<1>3. /\ rec \in PumpRecord
      /\ rec.pc \in {"add", "handle"} /\ rec.actor = request[r].to /\ rec.peer = request[r].from /\ rec.flag = r
    BY <1>1, <1>2 DEF PumpRecord, Steps
<1>4. ~rec.added /\ (rec.pc = "add" => rec.action = "accepted")
    BY <1>1
<1>5. pump' = [pump EXCEPT ![p] = rec] /\ UNCHANGED <<tables, history>> /\ pump[p].pc = "idle"
    BY <1>1 DEF BeginHandle
<1>6. blocks' \subseteq Users \X Users
    BY <1>5 DEF ConsentInv, TypeOK, tables
<1>7. PairOf(rec.flag) = {rec.actor, rec.peer}
    BY <1>3 DEF PairOf
<1> QED
    BY <1>2, <1>3, <1>4, <1>5, <1>6, <1>7, MoveConsent DEF tables, history, separations

LEMMA UnblockConsent ==
    ASSUME ConsentInv, NEW p \in Pumps, NEW u \in Users, NEW v \in Users, Unblock(p, u, v)
    PROVE  ConsentInv'
<1>1. UNCHANGED <<friends, request, pump, history>> /\ blocks' \subseteq Users \X Users
    BY DEF ConsentInv, TypeOK, Unblock
<1>2. TypeOK'
    BY <1>1 DEF ConsentInv, TypeOK, history, separations
<1>3. Named'
    BY <1>1 DEF ConsentInv, Named, RowsNamed, ActorsNamed, AnswersNamed, AddedByAccept, EndedAccepted,
       PairOf, PairAt, history, separations
<1>4. AnsweredOnce' /\ FriendsConsented'
    BY <1>1 DEF ConsentInv, AnsweredOnce, FriendsConsented, PairOf, PairAt, history, separations
<1> QED
    BY <1>2, <1>3, <1>4 DEF ConsentInv

LEMMA UndoConsent ==
    ASSUME ConsentInv, NEW p \in Pumps, UndoAdd(p)
    PROVE  ConsentInv'
<1>1. /\ Done(p) /\ friends' = friends \ {PairAt(p)}
      /\ UNCHANGED <<request, blocks, history>>
    BY DEF UndoAdd
<1>2. blocks' \subseteq Users \X Users /\ kept' \subseteq Pairs
    BY <1>1 DEF ConsentInv, TypeOK, history
<1> QED
    BY <1>1, <1>2, DoneConsent DEF history, separations


LEMMA CreateConsent ==
    ASSUME ConsentInv, NEW p \in Pumps, CreateFriendRequest(p)
    PROVE  ConsentInv'
<1> USE DEF ConsentInv
<1>1. /\ Done(p) /\ UNCHANGED <<friends, blocks, history>>
      /\ pump[p].pc = "create"
    BY DEF CreateFriendRequest
<1>2. /\ pump' \in [Pumps -> PumpRecord]
      /\ pump'[p] = IdlePump
      /\ \A q \in Pumps \ {p} : pump'[q] = pump[q]
    BY <1>1, PumpMoves
<1>3. PICK r \in Requests :
          /\ request[r].status = "none"
          /\ request' = [request EXCEPT ![r] =
                 [from |-> pump[p].actor, to |-> pump[p].peer, status |-> "pending"]]
    BY DEF CreateFriendRequest, FriendRequest
<1>4. pump[p].actor \in Users /\ pump[p].peer \in Users
    BY <1>1 DEF Named, ActorsNamed
<1>5. /\ request' \in [Requests -> RequestRows]
      /\ request'[r].status = "pending" /\ request'[r].from \in Users /\ request'[r].to \in Users
      /\ \A s \in Requests \ {r} : request'[s] = request[s]
    BY <1>3, <1>4 DEF TypeOK, RequestRows, Statuses
<1>6. TypeOK'
    BY <1>1, <1>2, <1>5 DEF TypeOK, history, separations
<1>7. Named'
    <2>1. RowsNamed'
        BY <1>5 DEF Named, RowsNamed
    <2>2. EndedAccepted'
        BY <1>1, <1>3, <1>5 DEF Named, EndedAccepted, TypeOK, history, separations
    <2>3. AddedByAccept'
        BY <1>2 DEF Named, AddedByAccept, IdlePump
    <2>4. ActorsNamed'
        BY <1>2 DEF Named, ActorsNamed, IdlePump
    <2>5. AnswersNamed'
        BY <1>2, <1>3, <1>5 DEF Named, AnswersNamed, PairOf, PairAt, IdlePump
    <2> QED
        BY <2>1, <2>2, <2>3, <2>4, <2>5 DEF Named
<1>8. AnsweredOnce'
    BY <1>1, <1>3, <1>5 DEF AnsweredOnce, history
<1>9. FriendsConsented'
    <2> SUFFICES ASSUME NEW pair \in friends, pair \notin kept,
                        ~ \E q \in Pumps : /\ PairAt(q)' = pair
                                           /\ pump'[q].pc \in {"handle", "undo"} /\ pump'[q].added
                 PROVE  \E s \in Requests \ ended : PairOf(s)' = pair /\ request'[s].status = "accepted"
        BY <1>1 DEF FriendsConsented, history, separations
    <2>1. PICK s \in Requests \ ended : PairOf(s) = pair /\ request[s].status = "accepted"
        BY <1>1, <1>2 DEF FriendsConsented, PairAt
    <2>2. s # r
        BY <2>1, <1>3
    <2> QED
        BY <2>1, <2>2, <1>5 DEF PairOf
<1> QED
    BY <1>6, <1>7, <1>8, <1>9

\* The friendship an accept inserts is the one it will take back.
LEMMA AddFriendConsent ==
    ASSUME ConsentInv, NEW p \in Pumps, AddFriend(p)
    PROVE  ConsentInv'
<1> USE DEF ConsentInv
<1>1. /\ pump[p].pc = "add"
      /\ friends' = friends \cup {PairAt(p)}
      /\ UNCHANGED <<request, blocks, history>>
      /\ pump' = [pump EXCEPT ![p] = [pump[p] EXCEPT !.pc = "handle", !.added = PairAt(p) \notin friends]]
    BY DEF AddFriend
<1>2. PICK rec : rec = [pump[p] EXCEPT !.pc = "handle", !.added = PairAt(p) \notin friends]
    OBVIOUS
<1>3. /\ rec \in PumpRecord /\ rec.pc = "handle"
      /\ rec.actor = pump[p].actor /\ rec.peer = pump[p].peer
      /\ rec.flag = pump[p].flag /\ rec.action = pump[p].action
    BY <1>2 DEF TypeOK, PumpRecord, Steps
<1>4. rec.added <=> PairAt(p) \notin friends
    BY <1>2 DEF TypeOK, PumpRecord
<1>5. /\ pump' \in [Pumps -> PumpRecord]
      /\ pump'[p] = rec
      /\ \A q \in Pumps \ {p} : pump'[q] = pump[q]
    BY <1>1, <1>2, <1>3 DEF TypeOK
<1>6. PairAt(p) \in Pairs
    BY <1>1 DEF Named, ActorsNamed, PairAt, Pairs
<1>7. TypeOK'
    BY <1>1, <1>5, <1>6 DEF TypeOK, history, separations
<1>8. Named'
    <2>1. RowsNamed' /\ EndedAccepted'
        BY <1>1 DEF Named, RowsNamed, EndedAccepted, history, separations
    <2>2. AddedByAccept'
        BY <1>1, <1>3, <1>5 DEF Named, AddedByAccept
    <2>3. ActorsNamed'
        BY <1>1, <1>3, <1>5 DEF Named, ActorsNamed
    <2>4. AnswersNamed'
        BY <1>1, <1>3, <1>5 DEF Named, AnswersNamed, PairOf, PairAt
    <2> QED
        BY <2>1, <2>2, <2>3, <2>4 DEF Named
<1>9. AnsweredOnce'
    BY <1>1 DEF AnsweredOnce, history
<1>10. FriendsConsented'
    <2> SUFFICES ASSUME NEW pair \in friends', pair \notin kept,
                        ~ \E r \in Requests \ ended : PairOf(r) = pair /\ request[r].status = "accepted"
                 PROVE  \E q \in Pumps : /\ PairAt(q)' = pair
                                         /\ pump'[q].pc \in {"handle", "undo"} /\ pump'[q].added
        BY <1>1 DEF FriendsConsented, PairOf, history, separations
    <2>1. CASE pair \notin friends
        <3>1. pair = PairAt(p)
            BY <2>1, <1>1
        <3> QED
            BY <3>1, <2>1, <1>3, <1>4, <1>5 DEF PairAt
    <2>2. CASE pair \in friends
        <3>1. PICK q \in Pumps : PairAt(q) = pair /\ pump[q].pc \in {"handle", "undo"} /\ pump[q].added
            BY <2>2 DEF FriendsConsented
        <3>2. q # p
            BY <3>1, <1>1
        <3> QED
            BY <3>1, <3>2, <1>5 DEF PairAt
    <2> QED
        BY <2>1, <2>2
<1> QED
    BY <1>7, <1>8, <1>9, <1>10

\* The answer that wins turns the friendship its accept inserted into one that
\* was consented to.
LEMMA AnswerConsent ==
    ASSUME ConsentInv, NEW p \in Pumps, HandleFriendRequest(p), request[pump[p].flag].status = "pending"
    PROVE  ConsentInv'
<1> USE DEF ConsentInv
<1>1. PICK r : r = pump[p].flag
    OBVIOUS
<1>2. /\ pump[p].pc = "handle" /\ request[r].status = "pending"
      /\ Done(p) /\ UNCHANGED <<friends, blocks, kept, separations>>
    BY <1>1 DEF HandleFriendRequest
<1>3. request' = [request EXCEPT ![r].status = pump[p].action]
    BY <1>1 DEF HandleFriendRequest
<1>4. answers' = [answers EXCEPT ![r] = @ + 1]
    BY <1>1 DEF HandleFriendRequest
<1>5. r \in Requests /\ PairOf(r) = PairAt(p)
    BY <1>1, <1>2 DEF Named, AnswersNamed
<1>6. /\ pump' \in [Pumps -> PumpRecord]
      /\ pump'[p] = IdlePump
      /\ \A q \in Pumps \ {p} : pump'[q] = pump[q]
    BY <1>2, PumpMoves
<1>7. pump[p].action \in {"accepted", "rejected"}
    BY DEF TypeOK, PumpRecord
<1>8. /\ request' \in [Requests -> RequestRows]
      /\ request'[r].status = pump[p].action
      /\ request'[r].from = request[r].from /\ request'[r].to = request[r].to
      /\ \A s \in Requests \ {r} : request'[s] = request[s]
    BY <1>3, <1>5, <1>7 DEF TypeOK, RequestRows, Statuses
<1>9. \A s \in Requests : PairOf(s)' = PairOf(s)
    BY <1>8 DEF PairOf
<1>10. r \notin ended
    BY <1>2 DEF Named, EndedAccepted
<1>11. TypeOK'
    <2>1. answers' \in [Requests -> Nat]
        BY <1>4, <1>5 DEF TypeOK
    <2> QED
        BY <2>1, <1>2, <1>6, <1>8 DEF TypeOK, separations
<1>12. Named'
    <2>1. RowsNamed'
        BY <1>2, <1>5, <1>8 DEF Named, RowsNamed
    <2>2. EndedAccepted'
        BY <1>2, <1>8, <1>10 DEF Named, EndedAccepted, TypeOK, separations
    <2>3. AddedByAccept'
        BY <1>6 DEF Named, AddedByAccept, IdlePump
    <2>4. ActorsNamed'
        BY <1>6 DEF Named, ActorsNamed, IdlePump
    <2>5. ASSUME NEW q \in Pumps, pump'[q].pc \in {"add", "handle", "undo"}
          PROVE  /\ pump'[q].flag \in Requests
                 /\ request'[pump'[q].flag].status # "none"
                 /\ PairOf(pump[q].flag)' = PairAt(q)'
        <3>1. q # p
            BY <2>5, <1>6 DEF IdlePump
        <3>2. pump'[q] = pump[q] /\ PairAt(q)' = PairAt(q)
            BY <3>1, <1>6 DEF PairAt
        <3>3. pump[q].flag \in Requests /\ request[pump[q].flag].status # "none" /\ PairOf(pump[q].flag) = PairAt(q)
            BY <2>5, <3>2 DEF Named, AnswersNamed
        <3>4. request'[pump[q].flag].status # "none"
            BY <3>3, <1>7, <1>8
        <3>5. PairOf(pump[q].flag)' = PairOf(pump[q].flag)
            BY <3>2, <3>3, <1>8 DEF PairOf
        <3> QED
            BY <3>2, <3>3, <3>4, <3>5
    <2>6. AnswersNamed'
        BY <2>5 DEF AnswersNamed
    <2> QED
        BY <2>1, <2>2, <2>3, <2>4, <2>6 DEF Named
<1>13. AnsweredOnce'
    <2>1. answers[r] = 0
        BY <1>2, <1>5 DEF AnsweredOnce
    <2>2. answers'[r] = 1 /\ \A s \in Requests \ {r} : answers'[s] = answers[s]
        BY <2>1, <1>4, <1>5 DEF TypeOK
    <2> QED
        BY <2>2, <1>7, <1>8 DEF AnsweredOnce
<1>14. FriendsConsented'
    <2> SUFFICES ASSUME NEW pair \in friends, pair \notin kept
                 PROVE  \/ \E s \in Requests \ ended : PairOf(s)' = pair /\ request'[s].status = "accepted"
                        \/ \E q \in Pumps : /\ PairAt(q)' = pair
                                            /\ pump'[q].pc \in {"handle", "undo"} /\ pump'[q].added
        BY <1>2 DEF FriendsConsented, separations
    <2>1. CASE \E s \in Requests \ ended : PairOf(s) = pair /\ request[s].status = "accepted"
        BY <2>1, <1>2, <1>8, <1>9
    <2>2. CASE \E q \in Pumps : PairAt(q) = pair /\ pump[q].pc \in {"handle", "undo"} /\ pump[q].added
        <3>1. PICK q \in Pumps : PairAt(q) = pair /\ pump[q].pc \in {"handle", "undo"} /\ pump[q].added
            BY <2>2
        <3>2. CASE q = p
            BY <3>1, <3>2, <1>5, <1>8, <1>9, <1>10 DEF Named, AddedByAccept
        <3>3. CASE q # p
            BY <3>1, <3>3, <1>6 DEF PairAt
        <3> QED
            BY <3>2, <3>3
    <2> QED
        BY <2>1, <2>2 DEF FriendsConsented
<1> QED
    BY <1>11, <1>12, <1>13, <1>14


\* An answer that lost, or failed, goes on to take back the friendship it
\* inserted.
LEMMA LoserConsent ==
    ASSUME ConsentInv, NEW p \in Pumps, pump[p].pc = "handle",
           UNCHANGED <<friends, request, blocks, answers, kept, parted, ended>>,
           IF pump[p].added THEN Goto(p, "undo") ELSE Done(p)
    PROVE  ConsentInv'
<1> USE DEF ConsentInv
<1>1. blocks' \subseteq Users \X Users /\ kept' \subseteq Pairs
    BY DEF TypeOK
<1>2. CASE pump[p].added
    <2>1. PICK rec : rec = [pump[p] EXCEPT !.pc = "undo"]
        OBVIOUS
    <2>2. rec \in PumpRecord /\ rec.pc = "undo"
        BY <2>1 DEF TypeOK, PumpRecord, Steps
    <2>3. /\ rec.actor = pump[p].actor /\ rec.peer = pump[p].peer /\ rec.flag = pump[p].flag
          /\ rec.action = pump[p].action
        BY <2>1 DEF TypeOK, PumpRecord
    <2>4. rec.added = pump[p].added
        BY <2>1 DEF TypeOK, PumpRecord
    <2>5. pump' = [pump EXCEPT ![p] = rec]
        BY <1>2, <2>1 DEF Goto, TypeOK
    <2>6. pump[p].actor \in Users /\ pump[p].peer \in Users
        BY DEF Named, ActorsNamed
    <2>7. /\ pump[p].flag \in Requests /\ request[pump[p].flag].status # "none"
          /\ PairOf(pump[p].flag) = PairAt(p)
        BY DEF Named, AnswersNamed
    <2>8. pump[p].action = "accepted"
        BY <1>2 DEF Named, AddedByAccept
    <2>9. PairAt(p) = {rec.actor, rec.peer} /\ PairOf(rec.flag) = {rec.actor, rec.peer}
        BY <2>3, <2>7 DEF PairAt
    <2> QED
        BY <1>1, <1>2, <2>2, <2>3, <2>4, <2>5, <2>6, <2>7, <2>8, <2>9, MoveConsent
<1>3. CASE ~pump[p].added
    BY <1>1, <1>3, DoneConsent
<1> QED
    BY <1>2, <1>3


LEMMA HandleConsent ==
    ASSUME ConsentInv, NEW p \in Pumps, HandleFriendRequest(p)
    PROVE  ConsentInv'
<1>1. CASE request[pump[p].flag].status = "pending"
    BY <1>1, AnswerConsent
<1>2. CASE request[pump[p].flag].status # "pending"
    <2>1. /\ pump[p].pc = "handle"
          /\ UNCHANGED <<friends, request, blocks, answers, kept, parted, ended>>
          /\ IF pump[p].added THEN Goto(p, "undo") ELSE Done(p)
        BY <1>2 DEF HandleFriendRequest, separations
    <2> QED
        BY <2>1, LoserConsent
<1> QED
    BY <1>1, <1>2

\* A removal or a block takes the friendship away together with what justified it.
LEMMA PartConsent ==
    ASSUME ConsentInv, NEW pair, friends' = friends \ {pair}, Part(pair),
           UNCHANGED <<request, answers, kept>>, blocks' \subseteq Users \X Users,
           pump' \in [Pumps -> PumpRecord],
           \A q \in Pumps : \/ pump'[q] = pump[q]
                            \/ pump'[q] = IdlePump /\ pump[q].pc = "unfriend"
    PROVE  ConsentInv'
<1> USE DEF ConsentInv
<1>1. /\ parted' = parted \cup {r \in Requests : PairOf(r) = pair}
      /\ ended' = ended \cup {r \in Requests : PairOf(r) = pair /\ request[r].status = "accepted"}
    BY DEF Part
<1>2. TypeOK'
    BY <1>1 DEF TypeOK
<1>3. Named'
    <2>1. RowsNamed'
        BY DEF Named, RowsNamed
    <2>2. EndedAccepted'
        BY <1>1 DEF Named, EndedAccepted
    <2>3. AddedByAccept'
        BY DEF Named, AddedByAccept, IdlePump
    <2>4. ActorsNamed'
        BY DEF Named, ActorsNamed, IdlePump
    <2>5. AnswersNamed'
        BY DEF Named, AnswersNamed, PairOf, PairAt, IdlePump
    <2> QED
        BY <2>1, <2>2, <2>3, <2>4, <2>5 DEF Named
<1>4. AnsweredOnce'
    BY DEF AnsweredOnce
<1>5. FriendsConsented'
    <2> SUFFICES ASSUME NEW other \in friends, other # pair, other \notin kept
                 PROVE  \/ \E s \in Requests \ ended' : PairOf(s)' = other /\ request'[s].status = "accepted"
                        \/ \E q \in Pumps : /\ PairAt(q)' = other
                                            /\ pump'[q].pc \in {"handle", "undo"} /\ pump'[q].added
        BY DEF FriendsConsented
    <2>1. CASE \E s \in Requests \ ended : PairOf(s) = other /\ request[s].status = "accepted"
        BY <2>1, <1>1 DEF PairOf
    <2>2. CASE \E q \in Pumps : PairAt(q) = other /\ pump[q].pc \in {"handle", "undo"} /\ pump[q].added
        <3>1. PICK q \in Pumps : PairAt(q) = other /\ pump[q].pc \in {"handle", "undo"} /\ pump[q].added
            BY <2>2
        <3>2. pump'[q] = pump[q]
            BY <3>1
        <3> QED
            BY <3>1, <3>2 DEF PairAt
    <2> QED
        BY <2>1, <2>2 DEF FriendsConsented
<1> QED
    BY <1>2, <1>3, <1>4, <1>5

LEMMA RemoveFriendConsent ==
    ASSUME ConsentInv, NEW p \in Pumps, NEW u \in Users, NEW v \in Users, RemoveFriend(p, u, v)
    PROVE  ConsentInv'
<1>1. /\ friends' = friends \ {{u, v}} /\ Part({u, v})
      /\ UNCHANGED <<request, blocks, pump, answers, kept>>
    BY DEF RemoveFriend
<1>2. blocks' \subseteq Users \X Users /\ pump' \in [Pumps -> PumpRecord]
    BY <1>1 DEF ConsentInv, TypeOK
<1>3. PICK pair : pair = {u, v}
    OBVIOUS
<1> QED
    BY <1>1, <1>2, <1>3, PartConsent

LEMMA UnfriendConsent ==
    ASSUME ConsentInv, NEW p \in Pumps, UnfriendBlocked(p)
    PROVE  ConsentInv'
<1>1. /\ friends' = friends \ {PairAt(p)} /\ Part(PairAt(p)) /\ Done(p)
      /\ pump[p].pc = "unfriend"
      /\ UNCHANGED <<request, blocks, answers, kept>>
    BY DEF UnfriendBlocked
<1>2. blocks' \subseteq Users \X Users
    BY <1>1 DEF ConsentInv, TypeOK
<1>3. /\ pump' \in [Pumps -> PumpRecord]
      /\ pump'[p] = IdlePump
      /\ \A q \in Pumps \ {p} : pump'[q] = pump[q]
    BY <1>1, PumpMoves DEF ConsentInv
<1> QED
    BY <1>1, <1>2, <1>3, PartConsent

LEMMA StoreFailsConsent ==
    ASSUME ConsentInv, NEW p \in Pumps, StoreFails(p)
    PROVE  ConsentInv'
<1> USE DEF ConsentInv
<1>1. /\ pump[p].pc # "idle"
      /\ UNCHANGED <<friends, request, blocks, answers, parted, ended>>
      /\ kept' = IF pump[p].pc = "undo" THEN kept \cup {PairAt(p)} ELSE kept
    BY DEF StoreFails, tables, separations
<1>2. IF pump[p].pc = "handle" /\ pump[p].added THEN Goto(p, "undo") ELSE Done(p)
    BY DEF StoreFails
<1>3. CASE pump[p].pc = "handle"
    BY <1>1, <1>2, <1>3, LoserConsent
<1>4. CASE pump[p].pc # "handle"
    <2>1. Done(p)
        BY <1>2, <1>4
    <2>2. PairAt(p) \in Pairs
        BY <1>1 DEF Named, ActorsNamed, PairAt, Pairs
    <2>3. kept' \subseteq Pairs /\ kept \subseteq kept' /\ (pump[p].pc = "undo" => PairAt(p) \in kept')
        BY <1>1, <2>2 DEF TypeOK
    <2>4. blocks' \subseteq Users \X Users /\ friends' \subseteq friends
        BY <1>1 DEF TypeOK
    <2> QED
        BY <1>1, <1>4, <2>1, <2>3, <2>4, DoneConsent
<1> QED
    BY <1>3, <1>4

-----------------------------------------------------------------------------
LEMMA StepConsent == ConsentInv /\ [Next]_vars => ConsentInv'
<1> SUFFICES ASSUME ConsentInv, [Next]_vars
             PROVE  ConsentInv'
    OBVIOUS
<1>1. CASE UNCHANGED vars
    <2>1. TypeOK'
        BY <1>1 DEF ConsentInv, TypeOK, vars
    <2>2. Named'
        BY <1>1 DEF ConsentInv, Named, RowsNamed, ActorsNamed, AnswersNamed, AddedByAccept,
           EndedAccepted, PairOf, PairAt, vars
    <2>3. AnsweredOnce' /\ FriendsConsented'
        BY <1>1 DEF ConsentInv, AnsweredOnce, FriendsConsented, PairOf, PairAt, vars
    <2> QED
        BY <2>1, <2>2, <2>3 DEF ConsentInv
<1>2. ASSUME NEW p \in Pumps, HandlerStep(p)
      PROVE  ConsentInv'
    BY <1>2, CreateConsent, AddFriendConsent, HandleConsent, UndoConsent, UnfriendConsent,
       StoreFailsConsent DEF HandlerStep
<1>3. ASSUME NEW p \in Pumps, NEW u \in Users, NEW v \in Users,
             BeginRequest(p, u, v) \/ RemoveFriend(p, u, v) \/ Block(p, u, v) \/ Unblock(p, u, v)
      PROVE  ConsentInv'
    BY <1>3, BeginRequestConsent, RemoveFriendConsent, BlockConsent, UnblockConsent
<1>4. ASSUME NEW p \in Pumps, NEW r \in Requests, NEW action \in {"accepted", "rejected"},
             BeginHandle(p, r, action)
      PROVE  ConsentInv'
    BY <1>4, BeginHandleConsent
<1> QED
    BY <1>1, <1>2, <1>3, <1>4 DEF Next

\* The tables of friendships, requests and blocks and the state of every handler
\* keep their types.
THEOREM TypeCorrect == Spec => []TypeOK
<1>1. ConsentInv => TypeOK
    BY DEF ConsentInv
<1> QED
    BY <1>1, InitConsent, StepConsent, PTL DEF Spec

\* friend_request_handle: nobody is a friend without a request that was accepted
\* and not ended since, except while an accept is under way or after its undo
\* has failed.
THEOREM FriendshipNeedsConsent == Spec => []FriendsConsented
<1>1. ConsentInv => FriendsConsented
    BY DEF ConsentInv
<1> QED
    BY <1>1, InitConsent, StepConsent, PTL DEF Spec

\* friend_request_handle: of all the answers to a request, from however many
\* devices, one is confirmed and announced, and it is the one that is stored.
THEOREM RequestAnsweredOnce == Spec => []AnsweredOnce
<1>1. ConsentInv => AnsweredOnce
    BY DEF ConsentInv
<1> QED
    BY <1>1, InitConsent, StepConsent, PTL DEF Spec

=============================================================================
