------------------------------ MODULE Accounts ------------------------------
(***************************************************************************)
(* Accounts and presence: auth, register and update_profile of the gateway *)
(* with addClient, removeClient and notifyFriendPresence                   *)
(* (server/internal/gateway/gateway.go), the admin server's edits of an    *)
(* account (server/internal/admin/server.go), and the users table          *)
(* (server/internal/store/sqlite.go).                                      *)
(*                                                                         *)
(* GetUser reads a whole row and SetUser writes a whole row, so every      *)
(* handler between the two holds a copy that may be stale.  The registry   *)
(* of connections and the online column change together under g.mu; the    *)
(* notice to friends is sent after g.mu is released, by the goroutine of   *)
(* the connection that caused it.                                          *)
(*                                                                         *)
(* nickname and password are version numbers: each edit writes the next.   *)
(* Session tokens are left out: how a request proves who it is from does   *)
(* not change what the handlers do afterwards.                             *)
(***************************************************************************)
EXTENDS Integers, FiniteSets

CONSTANTS
    AccountUsers,
    Connections,    \* WebSocket connections, one readPump goroutine each
    Admins,         \* requests to the admin server
    NoAccount,           \* no account
    Registered,     \* accounts that exist when the server starts
    OpenAuth,       \* whether auth may create accounts (no access token set)
    MaxEdits,       \* bound: profile edits of each account
    MaxResets,      \* bound: password resets of each account
    MaxRestarts     \* bound: restarts of the server process

ASSUME AccountsAssumption ==
    /\ NoAccount \notin AccountUsers /\ Registered \subseteq AccountUsers /\ OpenAuth \in BOOLEAN
    /\ IsFiniteSet(Connections)
    /\ MaxEdits \in Nat /\ MaxResets \in Nat /\ MaxRestarts \in Nat

VARIABLES
    account,       \* rows of users
    clients,       \* g.clients
    connection,    \* what each readPump does
    admin,         \* what each admin request does
    foreign,       \* history: accounts whose row was written by a request that
                   \* is not from one of their devices, or that lost their
                   \* devices to a restart, since addClient or detachClient
                   \* last wrote the online column
    notices,          \* presence notices sent: how many of each kind
    edits, resets, \* versions handed out
    restarts

accountVars == <<account, clients, connection, admin, foreign, notices, edits,
          resets, restarts>>

AccountRows == [exists : BOOLEAN, online : BOOLEAN, nickname : Nat, password : Nat]
NoAccountRow == [exists |-> FALSE, online |-> FALSE, nickname |-> 0, password |-> 0]
NoNotice == [on |-> 0, off |-> 0]

\* "create": auth is about to insert the account; "attach": about to call
\* addClient; "online", "offline": about to notify the friends; "register",
\* "edit": between GetUser and SetUser; "gone": the connection has ended.
ConnectionSteps == {"new", "create", "attach", "online", "ready", "register",
                    "edit", "offline", "gone"}
FreshConnection == [pc |-> "new", user |-> NoAccount, row |-> NoAccountRow]

AdminSteps == {"idle", "nickname", "password", "revoke"}
IdleAdmin == [pc |-> "idle", user |-> NoAccount, row |-> NoAccountRow, original |-> 0]

AccountsInit ==
    /\ account = [u \in AccountUsers |-> [NoAccountRow EXCEPT !.exists = u \in Registered]]
    /\ clients = [u \in AccountUsers |-> {}]
    /\ connection = [c \in Connections |-> FreshConnection]
    /\ admin = [a \in Admins |-> IdleAdmin]
    /\ foreign = {}
    /\ notices = [u \in AccountUsers |-> NoNotice]
    /\ edits = [u \in AccountUsers |-> 0]
    /\ resets = [u \in AccountUsers |-> 0]
    /\ restarts = 0

ConnectionAt(c, pc) == connection' = [connection EXCEPT ![c].pc = pc]
UserOf(c) == connection[c].user
SetUser(u, row) == account' = [account EXCEPT ![u] = row]

\* SetUser by a request that does not come from a device of the account.
SetForeignUser(u, row) == SetUser(u, row) /\ foreign' = foreign \cup {u}

-----------------------------------------------------------------------------
(* handleAuth *)

\* Credentials are accepted; GetUser decides whether the account is created.
Auth(c, u) ==
    /\ connection[c].pc = "new"
    /\ account[u].exists \/ OpenAuth
    /\ connection' = [connection EXCEPT ![c].user = u,
           ![c].pc = IF account[u].exists THEN "attach" ELSE "create"]
    /\ UNCHANGED <<account, clients, admin, foreign, notices, edits, resets,
                   restarts>>

\* SetUser with Online false: an upsert of the whole row.
CreateOnAuth(c) ==
    /\ connection[c].pc = "create"
    /\ SetForeignUser(UserOf(c), [NoAccountRow EXCEPT !.exists = TRUE])
    /\ ConnectionAt(c, "attach")
    /\ UNCHANGED <<clients, admin, notices, edits, resets, restarts>>

\* addClient, under g.mu.
AddClient(c) ==
    LET u == UserOf(c)
        firstConnection == clients[u] = {} IN
    /\ connection[c].pc = "attach"
    /\ clients' = [clients EXCEPT ![u] = @ \cup {c}]
    /\ account' = IF firstConnection
                  THEN [account EXCEPT ![u].online = TRUE] ELSE account
    /\ foreign' = IF firstConnection THEN foreign \ {u} ELSE foreign
    /\ ConnectionAt(c, IF firstConnection THEN "online" ELSE "ready")
    /\ UNCHANGED <<admin, notices, edits, resets, restarts>>

\* notifyFriendPresence(userID, true)
NotifyOnline(c) ==
    /\ connection[c].pc = "online"
    /\ notices' = [notices EXCEPT ![UserOf(c)].on = @ + 1]
    /\ ConnectionAt(c, "ready")
    /\ UNCHANGED <<account, clients, admin, foreign, edits, resets,
                   restarts>>

-----------------------------------------------------------------------------
(* removeClient *)

\* Variant: any disconnect marks the account offline.
DetachClientAny(c) ==
    LET u == UserOf(c) IN
    /\ connection[c].pc = "ready"
    /\ clients' = [clients EXCEPT ![u] = @ \ {c}]
    /\ account' = [account EXCEPT ![u].online = FALSE]
    /\ foreign' = foreign \ {u}
    /\ ConnectionAt(c, IF clients[u] = {c} THEN "offline" ELSE "gone")
    /\ UNCHANGED <<admin, notices, edits, resets, restarts>>

\* The connection ends; detachClient, under g.mu, when it was authenticated.
DetachClient(c) ==
    LET u == UserOf(c)
        lastConnection == clients[u] = {c} IN
    /\ connection[c].pc = "ready"
    /\ clients' = [clients EXCEPT ![u] = @ \ {c}]
    /\ account' = IF lastConnection
                  THEN [account EXCEPT ![u].online = FALSE] ELSE account
    /\ foreign' = IF lastConnection THEN foreign \ {u} ELSE foreign
    /\ ConnectionAt(c, IF lastConnection THEN "offline" ELSE "gone")
    /\ UNCHANGED <<admin, notices, edits, resets, restarts>>

CloseUnauthenticated(c) ==
    /\ connection[c].pc = "new"
    /\ ConnectionAt(c, "gone")
    /\ UNCHANGED <<account, clients, admin, foreign, notices, edits, resets,
                   restarts>>

\* notifyFriendPresence(userID, false)
NotifyOffline(c) ==
    /\ connection[c].pc = "offline"
    /\ notices' = [notices EXCEPT ![UserOf(c)].off = @ + 1]
    /\ ConnectionAt(c, "gone")
    /\ UNCHANGED <<account, clients, admin, foreign, edits, resets,
                   restarts>>

-----------------------------------------------------------------------------
(* handleRegister and handleUpdateProfile *)

\* The invite code is right and GetUser finds no account.
BeginRegister(c, u) ==
    /\ connection[c].pc = "new" /\ ~account[u].exists
    /\ connection' = [connection EXCEPT ![c].pc = "register", ![c].user = u]
    /\ UNCHANGED <<account, clients, admin, foreign, notices, edits, resets,
                   restarts>>

\* SetUser with Online true; the connection stays unauthenticated.
CommitRegister(c) ==
    /\ connection[c].pc = "register"
    /\ SetForeignUser(UserOf(c), [NoAccountRow EXCEPT !.exists = TRUE, !.online = TRUE])
    /\ connection' = [connection EXCEPT ![c] = FreshConnection]
    /\ UNCHANGED <<clients, admin, notices, edits, resets, restarts>>

BeginEdit(c) ==
    LET u == UserOf(c) IN
    /\ connection[c].pc = "ready" /\ edits[u] < MaxEdits
    /\ edits' = [edits EXCEPT ![u] = @ + 1]
    /\ connection' = [connection EXCEPT ![c].pc = "edit",
           ![c].row = [account[u] EXCEPT !.nickname = edits[u] + 1]]
    /\ UNCHANGED <<account, clients, admin, foreign, notices, resets, restarts>>

CommitEdit(c) ==
    /\ connection[c].pc = "edit"
    /\ SetUser(UserOf(c), connection[c].row)
    /\ connection' = [connection EXCEPT ![c].pc = "ready", ![c].row = NoAccountRow]
    /\ UNCHANGED <<clients, admin, foreign, notices, edits, resets, restarts>>

-----------------------------------------------------------------------------
(* The admin server: handleUpdateUser and handleResetPassword *)

AdminReadForNickname(a, u) ==
    /\ admin[a].pc = "idle" /\ account[u].exists /\ edits[u] < MaxEdits
    /\ edits' = [edits EXCEPT ![u] = @ + 1]
    /\ admin' = [admin EXCEPT ![a] = [IdleAdmin EXCEPT !.pc = "nickname",
           !.user = u, !.row = [account[u] EXCEPT !.nickname = edits[u] + 1]]]
    /\ UNCHANGED <<account, clients, connection, foreign, notices, resets,
                   restarts>>

AdminSetNickname(a) ==
    /\ admin[a].pc = "nickname"
    /\ SetForeignUser(admin[a].user, admin[a].row)
    /\ admin' = [admin EXCEPT ![a] = IdleAdmin]
    /\ UNCHANGED <<clients, connection, notices, edits, resets,
                   restarts>>

AdminReadForReset(a, u) ==
    /\ admin[a].pc = "idle" /\ account[u].exists /\ resets[u] < MaxResets
    /\ resets' = [resets EXCEPT ![u] = @ + 1]
    /\ admin' = [admin EXCEPT ![a] = [pc |-> "password", user |-> u,
           row |-> [account[u] EXCEPT !.password = resets[u] + 1],
           original |-> account[u].password]]
    /\ UNCHANGED <<account, clients, connection, foreign, notices, edits,
                   restarts>>

AdminSetPassword(a) ==
    /\ admin[a].pc = "password"
    /\ SetForeignUser(admin[a].user, admin[a].row)
    /\ admin' = [admin EXCEPT ![a].pc = "revoke"]
    /\ UNCHANGED <<clients, connection, notices, edits, resets,
                   restarts>>

\* DeleteSessionsForUser; when it fails, the copy is written once more, with
\* the original hash.
AdminRevokeSessions(a) ==
    /\ admin[a].pc = "revoke"
    /\ \/ UNCHANGED <<account, foreign>>
       \/ SetForeignUser(admin[a].user,
                  [admin[a].row EXCEPT !.password = admin[a].original])
    /\ admin' = [admin EXCEPT ![a] = IdleAdmin]
    /\ UNCHANGED <<clients, connection, notices, edits, resets,
                   restarts>>

\* The server process restarts; only the database survives.  Nothing resets
\* the online column.
Restart ==
    /\ restarts < MaxRestarts
    /\ restarts' = restarts + 1
    /\ clients' = [u \in AccountUsers |-> {}]
    /\ foreign' = foreign \cup {u \in AccountUsers : clients[u] # {}}
    /\ connection' = [c \in Connections |-> FreshConnection]
    /\ admin' = [a \in Admins |-> IdleAdmin]
    /\ notices' = [u \in AccountUsers |-> NoNotice]
    /\ UNCHANGED <<account, edits, resets>>

-----------------------------------------------------------------------------
\* A readPump's own steps: it has begun a request and will complete it.
PumpStep(c) ==
    \/ CreateOnAuth(c) \/ AddClient(c) \/ NotifyOnline(c) \/ NotifyOffline(c)
    \/ CommitRegister(c) \/ CommitEdit(c)

AccountsNext ==
    \/ \E c \in Connections :
          \/ PumpStep(c) \/ DetachClient(c) \/ CloseUnauthenticated(c)
          \/ BeginEdit(c)
          \/ \E u \in AccountUsers : Auth(c, u) \/ BeginRegister(c, u)
    \/ \E a \in Admins :
          \/ AdminSetNickname(a) \/ AdminSetPassword(a) \/ AdminRevokeSessions(a)
          \/ \E u \in AccountUsers : AdminReadForNickname(a, u) \/ AdminReadForReset(a, u)
    \/ Restart

AccountsSpec == AccountsInit /\ [][AccountsNext]_accountVars

-----------------------------------------------------------------------------
(* Properties *)

\* The rows, the registry and the requests under way have their types.
AccountsTypeOK ==
    /\ account \in [AccountUsers -> AccountRows]
    /\ clients \in [AccountUsers -> SUBSET Connections]
    /\ connection \in [Connections -> [pc : ConnectionSteps,
                                       user : AccountUsers \cup {NoAccount}, row : AccountRows]]
    /\ admin \in [Admins -> [pc : AdminSteps, user : AccountUsers \cup {NoAccount},
                             row : AccountRows, original : Nat]]
    /\ foreign \subseteq AccountUsers
    /\ notices \in [AccountUsers -> [on : Nat, off : Nat]]
    /\ edits \in [AccountUsers -> 0..MaxEdits] /\ resets \in [AccountUsers -> 0..MaxResets]
    /\ restarts \in 0..MaxRestarts

\* g.clients holds exactly the authenticated connections, each under its own
\* account, through logins and disconnects of several devices.
Attached(c) == connection[c].pc \in {"online", "ready", "edit"}
RegistryIsExact ==
    \A u \in AccountUsers : clients[u] = {c \in Connections : Attached(c) /\ UserOf(c) = u}

\* First and last: of the transitions between no device and some device, each
\* is announced to friends once.  Online notices sent or still to be sent
\* exceed offline ones by one exactly while a device is connected.
Announcing(u, pc) == Cardinality({c \in Connections :
                                     connection[c].pc = pc /\ UserOf(c) = u})
EveryTransitionAnnounced ==
    \A u \in AccountUsers :
        notices[u].on + Announcing(u, "online")
            = notices[u].off + Announcing(u, "offline")
              + (IF clients[u] = {} THEN 0 ELSE 1)

\* From the first device's login to the last one's disconnect the online column
\* says that a device is connected, through profile edits that write back
\* whole rows, unless somebody else has written the row in between.
OnlineMatchesDevices ==
    \A u \in AccountUsers \ foreign : account[u].online <=> clients[u] # {}

\* addClient, removeClient and the writers of the users table: registry,
\* notices and online column agree on which accounts have a device.
PresenceIsExact == AccountsTypeOK /\ RegistryIsExact /\ EveryTransitionAnnounced /\ OnlineMatchesDevices

\* A password that was reset stays reset: an account never goes back to an
\* earlier password, unless that reset itself is undone because the sessions
\* could not be revoked.
ResetStays ==
    [][\A u \in AccountUsers :
          account'[u].password < account[u].password
              => \E a \in Admins : admin[a].pc = "revoke" /\ admin[a].user = u]_accountVars
=============================================================================
