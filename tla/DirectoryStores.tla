--------------------------- MODULE DirectoryStores ---------------------------
(***************************************************************************)
(* The rest of the Store interface on the three backends side by side, as  *)
(* in StoreConformance: accounts, friendships and friend requests, account *)
(* sessions, terminal vaults and the audit of terminal sessions, Web Push  *)
(* subscriptions, media and forwards, and what opening a database again    *)
(* does to it (initSchema with its migrations). The in-memory store is the *)
(* reference: it is never reopened, so a restart of a database must not    *)
(* show.                                                                   *)
(*                                                                         *)
(* The databases come from before friendships existed: two accounts and    *)
(* their private conversation, which the first start turned into a         *)
(* friendship.                                                             *)
(***************************************************************************)
EXTENDS SqlBackends

CONSTANTS
    First, Second,             \* the two accounts
    Payloads,                  \* contents of vaults, files and keys
    MaxInstants, MaxRequests   \* bounds: instants, calls

\* Two accounts have two names, and a nil pointer is no row.
ASSUME DirectoryAssumption ==
    /\ First # Second
    /\ Nothing \notin [user : {First, Second}, payload : Payloads, revision : Nat]

VARIABLES dirMemory, dirSqlite, dirPostgres, dirAnswers, instants, requested

dirVars == <<dirMemory, dirSqlite, dirPostgres, dirAnswers, instants, requested>>

----------------------------------------------------------------------------
(* Accounts, friendships and friend requests *)

WithUser(d, u, online) ==
    [d EXCEPT !.users = {r \in @ : r.id # u} \cup {[id |-> u, online |-> online]}]

MemorySetUser(d, u, online) == Reply(WithUser(d, u, online), Accepted)
SQLiteSetUser(d, u, online) == Reply(WithUser(d, u, online), Accepted)
PostgresSetUser(d, u, online) == Reply(WithUser(d, u, online), Accepted)

MemorySetUserOnline(d, u, online) ==
    Reply(IF \E r \in d.users : r.id = u THEN WithUser(d, u, online) ELSE d, Accepted)
SQLiteSetUserOnline(d, u, online) ==
    Reply([d EXCEPT !.users = {IF r.id = u THEN [r EXCEPT !.online = online] ELSE r : r \in @}], Accepted)
PostgresSetUserOnline(d, u, online) == SQLiteSetUserOnline(d, u, online)

MemoryGetUser(d, u) == TheRow({r \in d.users : r.id = u})
SQLiteGetUser(d, u) == TheRow({r \in d.users : r.id = u})
PostgresGetUser(d, u) == SQLiteGetUser(d, u)

MemoryGetUsers(d) == d.users
SQLiteGetUsers(d) == d.users
PostgresGetUsers(d) == d.users

\* A friend whose account is missing is left out.
MemoryGetFriends(d, u) == {r \in d.users : <<u, r.id>> \in d.friendships}
SQLiteGetFriends(d, u) == {r \in d.users : \E f \in d.friendships : f = <<u, r.id>>}
PostgresGetFriends(d, u) == SQLiteGetFriends(d, u)

MemoryAreFriends(d, u, v) == <<u, v>> \in d.friendships
SQLiteAreFriends(d, u, v) == <<u, v>> \in d.friendships
PostgresAreFriends(d, u, v) == SQLiteAreFriends(d, u, v)

\* Both directions, and whether the first of them was new.
MemoryAddFriend(d, u, v) ==
    IF u = v \/ <<u, v>> \in d.friendships THEN Reply(d, FALSE)
    ELSE Reply([d EXCEPT !.friendships = @ \cup {<<u, v>>, <<v, u>>}], TRUE)
SQLiteAddFriend(d, u, v) ==
    IF u = v THEN Reply(d, FALSE)
    ELSE Reply([d EXCEPT !.friendships = @ \cup {<<u, v>>, <<v, u>>}], <<u, v>> \notin d.friendships)
PostgresAddFriend(d, u, v) == SQLiteAddFriend(d, u, v)

MemoryRemoveFriend(d, u, v) ==
    IF <<u, v>> \notin d.friendships THEN Reply(d, FALSE)
    ELSE Reply([d EXCEPT !.friendships = @ \ {<<u, v>>, <<v, u>>}], TRUE)
SQLiteRemoveFriend(d, u, v) ==
    Reply([d EXCEPT !.friendships = @ \ {<<u, v>>, <<v, u>>}], <<u, v>> \in d.friendships)
PostgresRemoveFriend(d, u, v) == SQLiteRemoveFriend(d, u, v)

WithRequest(d, u, v, now) ==
    [d EXCEPT !.asked = @ \cup {[id |-> now, from |-> u, to |-> v, status |-> "pending"]}]

MemoryCreateFriendRequest(d, u, v, now) == Reply(WithRequest(d, u, v, now), now)
SQLiteCreateFriendRequest(d, u, v, now) == Reply(WithRequest(d, u, v, now), now)
PostgresCreateFriendRequest(d, u, v, now) == Reply(WithRequest(d, u, v, now), now)

MemoryGetFriendRequest(d, id) == TheRow({r \in d.asked : r.id = id})
SQLiteGetFriendRequest(d, id) == TheRow({r \in d.asked : r.id = id})
PostgresGetFriendRequest(d, id) == SQLiteGetFriendRequest(d, id)

MemoryGetPendingFriendRequests(d, u) ==
    {r \in d.asked : u \in {r.from, r.to} /\ r.status = "pending"}
SQLiteGetPendingFriendRequests(d, u) ==
    {r \in d.asked : (r.to = u \/ r.from = u) /\ r.status = "pending"}
PostgresGetPendingFriendRequests(d, u) == SQLiteGetPendingFriendRequests(d, u)

\* Only a pending request can be answered, and only once.
MemoryHandleFriendRequest(d, id, action) ==
    LET r == MemoryGetFriendRequest(d, id)
    IN IF ~ \E p \in d.asked : p.id = id /\ p.status = "pending" THEN Reply(d, FALSE)
       ELSE Reply([d EXCEPT !.asked = (@ \ {r}) \cup {[r EXCEPT !.status = action]}], TRUE)
SQLiteHandleFriendRequest(d, id, action) ==
    LET hit(r) == r.id = id /\ r.status = "pending"
    IN Reply([d EXCEPT !.asked = {IF hit(r) THEN [r EXCEPT !.status = action] ELSE r : r \in @}],
             \E r \in d.asked : hit(r))
PostgresHandleFriendRequest(d, id, action) == SQLiteHandleFriendRequest(d, id, action)

----------------------------------------------------------------------------
(* Account sessions, terminal vaults, terminal sessions, push keys *)

MemoryUpsertSession(d, token, u, expires) ==
    Reply([d EXCEPT !.logins = {r \in @ : r.token # token} \cup
              {[token |-> token, user |-> u, expires |-> expires]}], Accepted)
SQLiteUpsertSession(d, token, u, expires) == MemoryUpsertSession(d, token, u, expires)
PostgresUpsertSession(d, token, u, expires) == MemoryUpsertSession(d, token, u, expires)

MemoryGetSession(d, token) == TheRow({r \in d.logins : r.token = token})
SQLiteGetSession(d, token) == TheRow({r \in d.logins : r.token = token})
PostgresGetSession(d, token) == SQLiteGetSession(d, token)

MemoryDeleteSession(d, token) ==
    Reply([d EXCEPT !.logins = {r \in @ : r.token # token}], Accepted)
SQLiteDeleteSession(d, token) == MemoryDeleteSession(d, token)
PostgresDeleteSession(d, token) == MemoryDeleteSession(d, token)

MemoryDeleteSessionsForUser(d, u) ==
    Reply([d EXCEPT !.logins = {r \in @ : r.user # u}], Accepted)
SQLiteDeleteSessionsForUser(d, u) == MemoryDeleteSessionsForUser(d, u)
PostgresDeleteSessionsForUser(d, u) == MemoryDeleteSessionsForUser(d, u)

MemoryGetTerminalVault(d, u) == TheRow({v \in d.vaults : v.user = u})
SQLiteGetTerminalVault(d, u) == TheRow({v \in d.vaults : v.user = u})
PostgresGetTerminalVault(d, u) == SQLiteGetTerminalVault(d, u)

\* A write names the revision it replaces; an absent vault has revision 0.
Revision(vault) == IF vault = Nothing THEN 0 ELSE vault.revision

MemoryPutTerminalVault(d, u, payload, expected) ==
    LET current == MemoryGetTerminalVault(d, u)
        new == [user |-> u, payload |-> payload, revision |-> Revision(current) + 1]
    IN IF Revision(current) # expected THEN Reply(d, [conflict |-> TRUE, vault |-> current])
       ELSE Reply([d EXCEPT !.vaults = (@ \ {current}) \cup {new}], [conflict |-> FALSE, vault |-> new])
SQLitePutTerminalVault(d, u, payload, expected) ==
    LET current == SQLiteGetTerminalVault(d, u)
        new == [user |-> u, payload |-> payload, revision |-> Revision(current) + 1]
    IN IF Revision(current) # expected THEN Reply(d, [conflict |-> TRUE, vault |-> current])
       ELSE Reply([d EXCEPT !.vaults = {v \in @ : v.user # u} \cup {new}],
                  [conflict |-> FALSE, vault |-> new])
PostgresPutTerminalVault(d, u, payload, expected) == SQLitePutTerminalVault(d, u, payload, expected)

MemoryDeleteTerminalVault(d, u) == Reply([d EXCEPT !.vaults = {v \in @ : v.user # u}], Accepted)
SQLiteDeleteTerminalVault(d, u) == Reply([d EXCEPT !.vaults = {v \in @ : v.user # u}], Accepted)
PostgresDeleteTerminalVault(d, u) == SQLiteDeleteTerminalVault(d, u)

MemoryUpsertTerminalSession(d, u, now) ==
    Reply([d EXCEPT !.terminals = {t \in @ : t.id # now} \cup
              {[id |-> now, user |-> u, connected |-> TRUE, seen |-> now, left |-> 0]}], Accepted)
SQLiteUpsertTerminalSession(d, u, now) ==
    Reply([d EXCEPT !.terminals = @ \cup
              {[id |-> now, user |-> u, connected |-> TRUE, seen |-> now, left |-> 0]}], Accepted)
PostgresUpsertTerminalSession(d, u, now) == SQLiteUpsertTerminalSession(d, u, now)

\* The databases also mark the session as connected.
MemoryTouchTerminalSession(d, id, now) ==
    Reply([d EXCEPT !.terminals =
              {IF t.id = id /\ now > t.seen THEN [t EXCEPT !.seen = now] ELSE t : t \in @}], Accepted)
SQLiteTouchTerminalSession(d, id, now) ==
    Reply([d EXCEPT !.terminals =
              {IF t.id = id /\ t.seen < now THEN [t EXCEPT !.seen = now, !.connected = TRUE] ELSE t : t \in @}],
          Accepted)
PostgresTouchTerminalSession(d, id, now) == SQLiteTouchTerminalSession(d, id, now)

MemoryEndTerminalSession(d, id, now) ==
    Reply([d EXCEPT !.terminals =
              {IF t.id = id THEN [t EXCEPT !.connected = FALSE, !.seen = now, !.left = now] ELSE t : t \in @}],
          Accepted)
SQLiteEndTerminalSession(d, id, now) == MemoryEndTerminalSession(d, id, now)
PostgresEndTerminalSession(d, id, now) == MemoryEndTerminalSession(d, id, now)

LastSeenFirst(limit, terminals) ==
    LET sorted == SetToSortSeq(terminals, LAMBDA x, y : x.seen > y.seen)
    IN SubSeq(sorted, 1, IF Len(sorted) > limit THEN limit ELSE Len(sorted))

MemoryGetRecentTerminalSessions(d, limit) == LastSeenFirst(limit, d.terminals)
SQLiteGetRecentTerminalSessions(d, limit) == LastSeenFirst(limit, d.terminals)
PostgresGetRecentTerminalSessions(d, limit) == LastSeenFirst(limit, d.terminals)

\* One row for a browser: a new key replaces the old one.
MemoryUpsertPushSubscription(d, u, endpoint, key) ==
    Reply([d EXCEPT !.pushes = {p \in @ : p.user # u \/ p.endpoint # endpoint} \cup
              {[user |-> u, endpoint |-> endpoint, key |-> key]}], Accepted)
SQLiteUpsertPushSubscription(d, u, endpoint, key) == MemoryUpsertPushSubscription(d, u, endpoint, key)
PostgresUpsertPushSubscription(d, u, endpoint, key) == MemoryUpsertPushSubscription(d, u, endpoint, key)

MemoryDeletePushSubscription(d, u, endpoint) ==
    Reply([d EXCEPT !.pushes = {p \in @ : p.user # u \/ p.endpoint # endpoint}], Accepted)
SQLiteDeletePushSubscription(d, u, endpoint) == MemoryDeletePushSubscription(d, u, endpoint)
PostgresDeletePushSubscription(d, u, endpoint) == MemoryDeletePushSubscription(d, u, endpoint)

MemoryGetPushSubscriptions(d, u) == {p \in d.pushes : p.user = u}
SQLiteGetPushSubscriptions(d, u) == {p \in d.pushes : p.user = u}
PostgresGetPushSubscriptions(d, u) == {p \in d.pushes : p.user = u}

----------------------------------------------------------------------------
(* Media, forwards, statistics *)

MemoryStoreMedia(d, file) ==
    Reply([d EXCEPT !.files = {f \in @ : f.id # file.id} \cup {file}], Accepted)
\* A plain INSERT: a second file of the same name is an error.
SQLiteStoreMedia(d, file) ==
    IF \E f \in d.files : f.id = file.id THEN Reply(d, Refused)
    ELSE Reply([d EXCEPT !.files = @ \cup {file}], Accepted)
\* ON CONFLICT keeps the uploader and the size of the first file.
PostgresStoreMedia(d, file) ==
    Reply(IF \E f \in d.files : f.id = file.id
            THEN [d EXCEPT !.files = {IF f.id = file.id THEN [f EXCEPT !.url = file.url] ELSE f : f \in @}]
            ELSE [d EXCEPT !.files = @ \cup {file}], Accepted)

MemoryGetMedia(d, id) == TheRow({f \in d.files : f.id = id})
SQLiteGetMedia(d, id) == TheRow({f \in d.files : f.id = id})
PostgresGetMedia(d, id) == SQLiteGetMedia(d, id)

NewestFirst(limit, files) ==
    LET sorted == SetToSortSeq(files, LAMBDA x, y : x.id > y.id)
    IN SubSeq(sorted, 1, IF Len(sorted) > limit THEN limit ELSE Len(sorted))

MemoryGetMediaFiles(d, limit) == NewestFirst(limit, d.files)
SQLiteGetMediaFiles(d, limit) == NewestFirst(limit, d.files)
PostgresGetMediaFiles(d, limit) == NewestFirst(limit, d.files)

MemoryDeleteMedia(d, id) == Reply([d EXCEPT !.files = {f \in @ : f.id # id}], Accepted)
SQLiteDeleteMedia(d, id) == Reply([d EXCEPT !.files = {f \in @ : f.id # id}], Accepted)
PostgresDeleteMedia(d, id) == SQLiteDeleteMedia(d, id)

MemoryStoreForward(d, payload, now) ==
    Reply([d EXCEPT !.forwards = @ \cup {[id |-> now, messages |-> payload]}], now)
SQLiteStoreForward(d, payload, now) == MemoryStoreForward(d, payload, now)
PostgresStoreForward(d, payload, now) == MemoryStoreForward(d, payload, now)

MemoryGetForward(d, id) == TheRow({f \in d.forwards : f.id = id})
SQLiteGetForward(d, id) == TheRow({f \in d.forwards : f.id = id})
PostgresGetForward(d, id) == SQLiteGetForward(d, id)

\* The counts of the admin console, of the tables of this module.
MemoryGetServerStats(d, now) ==
    [users |-> Cardinality(d.users), online |-> Cardinality({r \in d.users : r.online}),
     sessions |-> Cardinality({r \in d.logins : r.expires > now}),
     media |-> Cardinality(d.files), pushes |-> Cardinality(d.pushes)]
SQLiteGetServerStats(d, now) == MemoryGetServerStats(d, now)
PostgresGetServerStats(d, now) == MemoryGetServerStats(d, now)

----------------------------------------------------------------------------
(* Opening a database again *)

\* Once, by a marker written in the same transaction, the private
\* conversations of before become friendships.
SQLiteMigrateLegacyFriendships(d) ==
    IF d.migrated THEN d
    ELSE [d EXCEPT !.migrated = TRUE, !.friendships = @ \cup
            {f \in {r.id : r \in d.users} \X {r.id : r \in d.users} :
                f[1] # f[2] /\ \E chat \in d.chats : {f[1], f[2]} \subseteq chat}]
PostgresMigrateLegacyFriendships(d) == SQLiteMigrateLegacyFriendships(d)

\* Variant: the migration runs at every start.
SQLiteInitSchemaAgain(d) == SQLiteMigrateLegacyFriendships([d EXCEPT !.migrated = FALSE])
SQLiteInitSchema(d) == SQLiteMigrateLegacyFriendships(d)
PostgresInitSchema(d) == PostgresMigrateLegacyFriendships(d)

\* The database of a server from before friendships, and what the in-memory
\* store would hold once it had been opened.
LegacyTables ==
    [users |-> {[id |-> u, online |-> FALSE] : u \in {First, Second}}, friendships |-> {}, asked |-> {},
     logins |-> {}, vaults |-> {}, terminals |-> {}, pushes |-> {}, files |-> {}, forwards |-> {},
     chats |-> {{First, Second}}, migrated |-> FALSE]
PostgresLegacyTables == LegacyTables
MemoryDirectory == [LegacyTables EXCEPT !.friendships = {<<First, Second>>, <<Second, First>>}]

DirectoryInit ==
    /\ dirMemory = MemoryDirectory
    /\ dirSqlite = SQLiteInitSchema(LegacyTables)
    /\ dirPostgres = PostgresInitSchema(PostgresLegacyTables)
    /\ dirAnswers = <<Accepted, Accepted, Accepted>>
    /\ instants = 0
    /\ requested = 0

----------------------------------------------------------------------------
(* The calls *)

DirectoryCall(m, l, p) ==
    /\ requested < MaxRequests
    /\ dirMemory' = m.store
    /\ dirSqlite' = l.store
    /\ dirPostgres' = p.store
    /\ dirAnswers' = <<m.answer, l.answer, p.answer>>
    /\ requested' = requested + 1

Timed == instants < MaxInstants /\ instants' = instants + 1
Untimed == UNCHANGED instants

CallSetUser(u, online) ==
    /\ DirectoryCall(MemorySetUser(dirMemory, u, online), SQLiteSetUser(dirSqlite, u, online),
                     PostgresSetUser(dirPostgres, u, online))
    /\ Untimed

CallSetUserOnline(u, online) ==
    /\ DirectoryCall(MemorySetUserOnline(dirMemory, u, online),
                     SQLiteSetUserOnline(dirSqlite, u, online),
                     PostgresSetUserOnline(dirPostgres, u, online))
    /\ Untimed

CallAddFriend(u, v) ==
    /\ DirectoryCall(MemoryAddFriend(dirMemory, u, v), SQLiteAddFriend(dirSqlite, u, v),
                     PostgresAddFriend(dirPostgres, u, v))
    /\ Untimed

CallRemoveFriend(u, v) ==
    /\ DirectoryCall(MemoryRemoveFriend(dirMemory, u, v), SQLiteRemoveFriend(dirSqlite, u, v),
                     PostgresRemoveFriend(dirPostgres, u, v))
    /\ Untimed

CallCreateFriendRequest(u, v) ==
    /\ Timed
    /\ DirectoryCall(MemoryCreateFriendRequest(dirMemory, u, v, instants + 1),
                     SQLiteCreateFriendRequest(dirSqlite, u, v, instants + 1),
                     PostgresCreateFriendRequest(dirPostgres, u, v, instants + 1))

CallHandleFriendRequest(id, action) ==
    /\ DirectoryCall(MemoryHandleFriendRequest(dirMemory, id, action),
                     SQLiteHandleFriendRequest(dirSqlite, id, action),
                     PostgresHandleFriendRequest(dirPostgres, id, action))
    /\ Untimed

CallUpsertSession(token, u) ==
    /\ DirectoryCall(MemoryUpsertSession(dirMemory, token, u, instants + 1),
                     SQLiteUpsertSession(dirSqlite, token, u, instants + 1),
                     PostgresUpsertSession(dirPostgres, token, u, instants + 1))
    /\ Untimed

CallDeleteSession(token) ==
    /\ DirectoryCall(MemoryDeleteSession(dirMemory, token), SQLiteDeleteSession(dirSqlite, token),
                     PostgresDeleteSession(dirPostgres, token))
    /\ Untimed

CallDeleteSessionsForUser(u) ==
    /\ DirectoryCall(MemoryDeleteSessionsForUser(dirMemory, u),
                     SQLiteDeleteSessionsForUser(dirSqlite, u),
                     PostgresDeleteSessionsForUser(dirPostgres, u))
    /\ Untimed

CallPutTerminalVault(u, payload, expected) ==
    /\ DirectoryCall(MemoryPutTerminalVault(dirMemory, u, payload, expected),
                     SQLitePutTerminalVault(dirSqlite, u, payload, expected),
                     PostgresPutTerminalVault(dirPostgres, u, payload, expected))
    /\ Untimed

CallDeleteTerminalVault(u) ==
    /\ DirectoryCall(MemoryDeleteTerminalVault(dirMemory, u),
                     SQLiteDeleteTerminalVault(dirSqlite, u),
                     PostgresDeleteTerminalVault(dirPostgres, u))
    /\ Untimed

CallUpsertTerminalSession(u) ==
    /\ Timed
    /\ DirectoryCall(MemoryUpsertTerminalSession(dirMemory, u, instants + 1),
                     SQLiteUpsertTerminalSession(dirSqlite, u, instants + 1),
                     PostgresUpsertTerminalSession(dirPostgres, u, instants + 1))

CallTouchTerminalSession(id) ==
    /\ Timed
    /\ \E t \in dirMemory.terminals : t.id = id /\ t.connected
    /\ DirectoryCall(MemoryTouchTerminalSession(dirMemory, id, instants + 1),
                     SQLiteTouchTerminalSession(dirSqlite, id, instants + 1),
                     PostgresTouchTerminalSession(dirPostgres, id, instants + 1))

CallEndTerminalSession(id) ==
    /\ Timed
    /\ DirectoryCall(MemoryEndTerminalSession(dirMemory, id, instants + 1),
                     SQLiteEndTerminalSession(dirSqlite, id, instants + 1),
                     PostgresEndTerminalSession(dirPostgres, id, instants + 1))

CallUpsertPushSubscription(u, endpoint, key) ==
    /\ DirectoryCall(MemoryUpsertPushSubscription(dirMemory, u, endpoint, key),
                     SQLiteUpsertPushSubscription(dirSqlite, u, endpoint, key),
                     PostgresUpsertPushSubscription(dirPostgres, u, endpoint, key))
    /\ Untimed

CallDeletePushSubscription(u, endpoint) ==
    /\ DirectoryCall(MemoryDeletePushSubscription(dirMemory, u, endpoint),
                     SQLiteDeletePushSubscription(dirSqlite, u, endpoint),
                     PostgresDeletePushSubscription(dirPostgres, u, endpoint))
    /\ Untimed

CallStoreMedia(payload) ==
    /\ Timed
    /\ DirectoryCall(MemoryStoreMedia(dirMemory, [id |-> instants + 1, url |-> payload, uploader |-> First]),
                     SQLiteStoreMedia(dirSqlite, [id |-> instants + 1, url |-> payload, uploader |-> First]),
                     PostgresStoreMedia(dirPostgres, [id |-> instants + 1, url |-> payload, uploader |-> First]))

CallDeleteMedia(id) ==
    /\ DirectoryCall(MemoryDeleteMedia(dirMemory, id), SQLiteDeleteMedia(dirSqlite, id),
                     PostgresDeleteMedia(dirPostgres, id))
    /\ Untimed

CallStoreForward(payload) ==
    /\ Timed
    /\ DirectoryCall(MemoryStoreForward(dirMemory, payload, instants + 1),
                     SQLiteStoreForward(dirSqlite, payload, instants + 1),
                     PostgresStoreForward(dirPostgres, payload, instants + 1))

\* The server process ends and starts again; requests in flight are gone,
\* rows are not.
Reopen ==
    /\ DirectoryCall([store |-> dirMemory, answer |-> Accepted],
                     [store |-> SQLiteInitSchema(dirSqlite), answer |-> Accepted],
                     [store |-> PostgresInitSchema(dirPostgres), answer |-> Accepted])
    /\ Untimed

Instants == 1 .. instants

SocialCalls ==
    \/ \E online \in BOOLEAN : CallSetUser(First, online) \/ CallSetUserOnline(First, online)
    \/ \E u, v \in {First, Second} :
        CallAddFriend(u, v) \/ CallRemoveFriend(u, v) \/ CallCreateFriendRequest(u, v)
    \/ \E id \in Instants, action \in {"accepted", "rejected"} : CallHandleFriendRequest(id, action)

DeviceCalls ==
    \/ \E u \in {First, Second} :
        CallUpsertSession("token", u) \/ CallDeleteSessionsForUser(u)
    \/ CallDeleteSession("token")
    \/ \E payload \in Payloads, expected \in 0 .. 2 : CallPutTerminalVault(First, payload, expected)
    \/ CallDeleteTerminalVault(First)
    \/ CallUpsertTerminalSession(First)
    \/ \E id \in Instants : CallTouchTerminalSession(id) \/ CallEndTerminalSession(id)
    \/ \E key \in Payloads : CallUpsertPushSubscription(First, "browser", key)
    \/ CallDeletePushSubscription(First, "browser")

FileCalls ==
    \/ \E payload \in Payloads : CallStoreMedia(payload) \/ CallStoreForward(payload)
    \/ \E id \in Instants : CallDeleteMedia(id)

DirectoryNext == SocialCalls \/ DeviceCalls \/ FileCalls \/ Reopen

DirectorySpec == DirectoryInit /\ [][DirectoryNext]_dirVars

----------------------------------------------------------------------------
(* Properties *)

\* A call is answered the same by the three stores: whether a friendship was
\* new, a request still pending, a vault revision current.
SameDirectoryAnswers == dirAnswers[1] = dirAnswers[2] /\ dirAnswers[2] = dirAnswers[3]

\* And after every call they hold the same: a friend removed stays removed although the
\* conversation is still there and the database was opened again, keys and
\* tokens are replaced and not added, the lists come in the same order.
SameDirectory ==
    requested > 0 =>
        /\ MemoryGetUsers(dirMemory) = SQLiteGetUsers(dirSqlite)
        /\ MemoryGetUsers(dirMemory) = PostgresGetUsers(dirPostgres)
        /\ \A u \in {First, Second} :
            /\ MemoryGetUser(dirMemory, u) = SQLiteGetUser(dirSqlite, u)
            /\ MemoryGetUser(dirMemory, u) = PostgresGetUser(dirPostgres, u)
            /\ MemoryGetFriends(dirMemory, u) = SQLiteGetFriends(dirSqlite, u)
            /\ MemoryGetFriends(dirMemory, u) = PostgresGetFriends(dirPostgres, u)
            /\ MemoryGetPendingFriendRequests(dirMemory, u) = SQLiteGetPendingFriendRequests(dirSqlite, u)
            /\ MemoryGetPendingFriendRequests(dirMemory, u) = PostgresGetPendingFriendRequests(dirPostgres, u)
            /\ MemoryGetTerminalVault(dirMemory, u) = SQLiteGetTerminalVault(dirSqlite, u)
            /\ MemoryGetTerminalVault(dirMemory, u) = PostgresGetTerminalVault(dirPostgres, u)
            /\ MemoryGetPushSubscriptions(dirMemory, u) = SQLiteGetPushSubscriptions(dirSqlite, u)
            /\ MemoryGetPushSubscriptions(dirMemory, u) = PostgresGetPushSubscriptions(dirPostgres, u)
            /\ \A v \in {First, Second} :
                /\ MemoryAreFriends(dirMemory, u, v) = SQLiteAreFriends(dirSqlite, v, u)
                /\ MemoryAreFriends(dirMemory, u, v) = PostgresAreFriends(dirPostgres, v, u)
        /\ MemoryGetSession(dirMemory, "token") = SQLiteGetSession(dirSqlite, "token")
        /\ MemoryGetSession(dirMemory, "token") = PostgresGetSession(dirPostgres, "token")
        /\ MemoryGetRecentTerminalSessions(dirMemory, 1) = SQLiteGetRecentTerminalSessions(dirSqlite, 1)
        /\ MemoryGetRecentTerminalSessions(dirMemory, 1) = PostgresGetRecentTerminalSessions(dirPostgres, 1)
        /\ MemoryGetMediaFiles(dirMemory, 1) = SQLiteGetMediaFiles(dirSqlite, 1)
        /\ MemoryGetMediaFiles(dirMemory, 1) = PostgresGetMediaFiles(dirPostgres, 1)
        /\ MemoryGetServerStats(dirMemory, instants) = SQLiteGetServerStats(dirSqlite, instants)
        /\ MemoryGetServerStats(dirMemory, instants) = PostgresGetServerStats(dirPostgres, instants)
        /\ \A id \in Instants :
            /\ MemoryGetFriendRequest(dirMemory, id) = SQLiteGetFriendRequest(dirSqlite, id)
            /\ MemoryGetFriendRequest(dirMemory, id) = PostgresGetFriendRequest(dirPostgres, id)
            /\ MemoryGetMedia(dirMemory, id) = SQLiteGetMedia(dirSqlite, id)
            /\ MemoryGetMedia(dirMemory, id) = PostgresGetMedia(dirPostgres, id)
            /\ MemoryGetForward(dirMemory, id) = SQLiteGetForward(dirSqlite, id)
            /\ MemoryGetForward(dirMemory, id) = PostgresGetForward(dirPostgres, id)

\* A vault written again carries the next revision, whichever device wrote
\* it, until it is deleted: a device that names an older one is refused.
VaultRevisionsAdvance ==
    [][\A u \in {First, Second} :
        LET before == SQLiteGetTerminalVault(dirSqlite, u)
            after == SQLiteGetTerminalVault(dirSqlite, u)'
        IN before # after /\ after # Nothing =>
             after.revision = IF before = Nothing THEN 1 ELSE before.revision + 1]_dirVars

\* The three stores agree on accounts, friends, sessions and vaults through
\* restarts of the databases, and none of them loses a write to a vault.
DirectoriesAgree == [](SameDirectoryAnswers /\ SameDirectory) /\ VaultRevisionsAdvance

=============================================================================
