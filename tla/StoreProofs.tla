---------------------------- MODULE StoreProofs -----------------------------
(***************************************************************************)
(* The three implementations of the Store interface agree, for every       *)
(* account, content and request and however many calls are made.           *)
(*                                                                         *)
(*  DirectoryStores     accounts, friends, logins, vaults, terminals,      *)
(*                      pushes, files and forwards                         *)
(*  StoreConformance    conversations, messages, reactions, read marks,    *)
(*                      groups and announcements                           *)
(***************************************************************************)
EXTENDS DirectoryStores, StoreConformance, FiniteSetTheorems, FunctionTheorems, SequenceTheorems,
        WellFoundedInduction, TLAPS

(*************************************************************************)
(* DirectoryStores                                                       *)
(*************************************************************************)

(* The rows of the tables *)

Both == {First, Second}
UserRows == [id : Both, online : BOOLEAN]
Pairs == Both \X Both
RequestRows == [id : Nat, from : Both, to : Both, status : {"pending", "accepted", "rejected"}]
LoginRows == [token : {"token"}, user : Both, expires : Nat]
VaultRows == [user : Both, payload : Payloads, revision : Nat]
TerminalRows == [id : Nat, user : Both, connected : BOOLEAN, seen : Nat, left : Nat]
PushRows == [user : Both, endpoint : {"browser"}, key : Payloads]
FileRows == [id : Nat, url : Payloads, uploader : Both]
ForwardRows == [id : Nat, messages : Payloads]

Tables ==
    [users : SUBSET UserRows, friendships : SUBSET Pairs, asked : SUBSET RequestRows,
     logins : SUBSET LoginRows, vaults : SUBSET VaultRows, terminals : SUBSET TerminalRows,
     pushes : SUBSET PushRows, files : SUBSET FileRows, forwards : SUBSET ForwardRows,
     chats : SUBSET (SUBSET Both), migrated : BOOLEAN]

(* The inductive invariant *)

\* The tables of the in-memory store and of a database hold the same rows.
SameRows(m, l) ==
    /\ m.users = l.users /\ m.friendships = l.friendships /\ m.asked = l.asked
    /\ m.logins = l.logins /\ m.vaults = l.vaults /\ m.terminals = l.terminals
    /\ m.pushes = l.pushes /\ m.files = l.files /\ m.forwards = l.forwards

\* A friendship has both its directions: AddFriend of the databases inserts
\* the one that is missing, the map is not asked about it.
Mutual(pairs) == \A f \in pairs : <<f[2], f[1]>> \in pairs

\* One row for an identifier, and none from the future: a row that is new
\* replaces none, whether the statement is an INSERT or an UPSERT.
KeyedByInstant(rows, now) ==
    /\ \A r \in rows : r.id <= now
    /\ \A r, s \in rows : r.id = s.id => r = s

OnePerUser(rows) == \A r, s \in rows : r.user = s.user => r = s

KeysHold(d, now) ==
    /\ Mutual(d.friendships)
    /\ KeyedByInstant(d.asked, now)
    /\ OnePerUser(d.vaults)
    /\ KeyedByInstant(d.terminals, now)
    /\ KeyedByInstant(d.files, now)

DirectoryInv ==
    /\ instants \in Nat
    /\ dirMemory \in Tables
    /\ dirSqlite \in Tables
    /\ dirPostgres = dirSqlite
    /\ dirSqlite.migrated
    /\ SameRows(dirMemory, dirSqlite)
    /\ KeysHold(dirMemory, instants)
    /\ SameDirectoryAnswers

SameVaults == dirSqlite'.vaults = dirSqlite.vaults

(* One table is written *)

LEMMA KeysLast ==
    ASSUME NEW now \in Nat, NEW next \in Nat, now <= next, NEW d \in Tables, KeysHold(d, now)
    PROVE  KeysHold(d, next)
<1>1. d.asked \subseteq RequestRows /\ d.terminals \subseteq TerminalRows /\ d.files \subseteq FileRows
  BY DEF Tables
<1>2. KeyedByInstant(d.asked, next)
  BY <1>1 DEF KeysHold, KeyedByInstant, RequestRows
<1>3. KeyedByInstant(d.terminals, next)
  BY <1>1 DEF KeysHold, KeyedByInstant, TerminalRows
<1>4. KeyedByInstant(d.files, next)
  BY <1>1 DEF KeysHold, KeyedByInstant, FileRows
<1> QED  BY <1>2, <1>3, <1>4 DEF KeysHold

LEMMA WriteUsers ==
    ASSUME NEW d \in Tables, NEW X \in SUBSET UserRows, NEW e, e = [d EXCEPT !.users = X]
    PROVE  /\ e \in Tables /\ e.users = X
           /\ e.friendships = d.friendships /\ e.asked = d.asked /\ e.logins = d.logins /\ e.vaults = d.vaults /\ e.terminals = d.terminals
           /\ e.pushes = d.pushes /\ e.files = d.files /\ e.forwards = d.forwards /\ e.migrated = d.migrated
BY DEF Tables

LEMMA WroteUsers ==
    ASSUME DirectoryInv, NEW X \in SUBSET UserRows, SameDirectoryAnswers',
           instants' \in Nat, instants <= instants',
           dirMemory' = [dirMemory EXCEPT !.users = X],
           dirSqlite' = [dirSqlite EXCEPT !.users = X],
           dirPostgres' = [dirPostgres EXCEPT !.users = X]
    PROVE  DirectoryInv' /\ SameVaults
<1>1. dirMemory \in Tables /\ dirSqlite \in Tables /\ dirPostgres = dirSqlite
  BY DEF DirectoryInv
<1>2. dirMemory' \in Tables /\ dirMemory'.users = X
  BY <1>1 DEF Tables
<1>3. dirSqlite' \in Tables /\ dirSqlite'.users = X /\ dirSqlite'.migrated = dirSqlite.migrated
  BY <1>1 DEF Tables
<1>4. SameRows(dirMemory', dirSqlite')
  BY <1>1, WriteUsers DEF SameRows, DirectoryInv
<1>5. KeysHold(dirMemory', instants')
  BY <1>1, WriteUsers, KeysLast DEF KeysHold, DirectoryInv
<1> QED  BY <1>1, <1>2, <1>3, <1>4, <1>5, WriteUsers DEF DirectoryInv, SameVaults

LEMMA WriteFriendships ==
    ASSUME NEW d \in Tables, NEW X \in SUBSET Pairs, NEW e, e = [d EXCEPT !.friendships = X]
    PROVE  /\ e \in Tables /\ e.friendships = X
           /\ e.users = d.users /\ e.asked = d.asked /\ e.logins = d.logins /\ e.vaults = d.vaults /\ e.terminals = d.terminals
           /\ e.pushes = d.pushes /\ e.files = d.files /\ e.forwards = d.forwards /\ e.migrated = d.migrated
BY DEF Tables

LEMMA WroteFriendships ==
    ASSUME DirectoryInv, NEW X \in SUBSET Pairs, Mutual(X), SameDirectoryAnswers',
           instants' \in Nat, instants <= instants',
           dirMemory' = [dirMemory EXCEPT !.friendships = X],
           dirSqlite' = [dirSqlite EXCEPT !.friendships = X],
           dirPostgres' = [dirPostgres EXCEPT !.friendships = X]
    PROVE  DirectoryInv' /\ SameVaults
<1>1. dirMemory \in Tables /\ dirSqlite \in Tables /\ dirPostgres = dirSqlite
  BY DEF DirectoryInv
<1>2. dirMemory' \in Tables /\ dirMemory'.friendships = X
  BY <1>1 DEF Tables
<1>3. dirSqlite' \in Tables /\ dirSqlite'.friendships = X /\ dirSqlite'.migrated = dirSqlite.migrated
  BY <1>1 DEF Tables
<1>4. SameRows(dirMemory', dirSqlite')
  BY <1>1, WriteFriendships DEF SameRows, DirectoryInv
<1>5. KeysHold(dirMemory', instants')
  BY <1>1, WriteFriendships, KeysLast DEF KeysHold, DirectoryInv
<1> QED  BY <1>1, <1>2, <1>3, <1>4, <1>5, WriteFriendships DEF DirectoryInv, SameVaults

LEMMA WriteRequests ==
    ASSUME NEW d \in Tables, NEW X \in SUBSET RequestRows, NEW e, e = [d EXCEPT !.asked = X]
    PROVE  /\ e \in Tables /\ e.asked = X
           /\ e.users = d.users /\ e.friendships = d.friendships /\ e.logins = d.logins /\ e.vaults = d.vaults /\ e.terminals = d.terminals
           /\ e.pushes = d.pushes /\ e.files = d.files /\ e.forwards = d.forwards /\ e.migrated = d.migrated
BY DEF Tables

LEMMA WroteRequests ==
    ASSUME DirectoryInv, NEW X \in SUBSET RequestRows, KeyedByInstant(X, instants'), SameDirectoryAnswers',
           instants' \in Nat, instants <= instants',
           dirMemory' = [dirMemory EXCEPT !.asked = X],
           dirSqlite' = [dirSqlite EXCEPT !.asked = X],
           dirPostgres' = [dirPostgres EXCEPT !.asked = X]
    PROVE  DirectoryInv' /\ SameVaults
<1>1. dirMemory \in Tables /\ dirSqlite \in Tables /\ dirPostgres = dirSqlite
  BY DEF DirectoryInv
<1>2. dirMemory' \in Tables /\ dirMemory'.asked = X
  BY <1>1 DEF Tables
<1>3. dirSqlite' \in Tables /\ dirSqlite'.asked = X /\ dirSqlite'.migrated = dirSqlite.migrated
  BY <1>1 DEF Tables
<1>4. SameRows(dirMemory', dirSqlite')
  BY <1>1, WriteRequests DEF SameRows, DirectoryInv
<1>5. KeysHold(dirMemory', instants')
  BY <1>1, WriteRequests, KeysLast DEF KeysHold, DirectoryInv
<1> QED  BY <1>1, <1>2, <1>3, <1>4, <1>5, WriteRequests DEF DirectoryInv, SameVaults

LEMMA WriteLogins ==
    ASSUME NEW d \in Tables, NEW X \in SUBSET LoginRows, NEW e, e = [d EXCEPT !.logins = X]
    PROVE  /\ e \in Tables /\ e.logins = X
           /\ e.users = d.users /\ e.friendships = d.friendships /\ e.asked = d.asked /\ e.vaults = d.vaults /\ e.terminals = d.terminals
           /\ e.pushes = d.pushes /\ e.files = d.files /\ e.forwards = d.forwards /\ e.migrated = d.migrated
BY DEF Tables

LEMMA WroteLogins ==
    ASSUME DirectoryInv, NEW X \in SUBSET LoginRows, SameDirectoryAnswers',
           instants' \in Nat, instants <= instants',
           dirMemory' = [dirMemory EXCEPT !.logins = X],
           dirSqlite' = [dirSqlite EXCEPT !.logins = X],
           dirPostgres' = [dirPostgres EXCEPT !.logins = X]
    PROVE  DirectoryInv' /\ SameVaults
<1>1. dirMemory \in Tables /\ dirSqlite \in Tables /\ dirPostgres = dirSqlite
  BY DEF DirectoryInv
<1>2. dirMemory' \in Tables /\ dirMemory'.logins = X
  BY <1>1 DEF Tables
<1>3. dirSqlite' \in Tables /\ dirSqlite'.logins = X /\ dirSqlite'.migrated = dirSqlite.migrated
  BY <1>1 DEF Tables
<1>4. SameRows(dirMemory', dirSqlite')
  BY <1>1, WriteLogins DEF SameRows, DirectoryInv
<1>5. KeysHold(dirMemory', instants')
  BY <1>1, WriteLogins, KeysLast DEF KeysHold, DirectoryInv
<1> QED  BY <1>1, <1>2, <1>3, <1>4, <1>5, WriteLogins DEF DirectoryInv, SameVaults

LEMMA WriteVaults ==
    ASSUME NEW d \in Tables, NEW X \in SUBSET VaultRows, NEW e, e = [d EXCEPT !.vaults = X]
    PROVE  /\ e \in Tables /\ e.vaults = X
           /\ e.users = d.users /\ e.friendships = d.friendships /\ e.asked = d.asked /\ e.logins = d.logins /\ e.terminals = d.terminals
           /\ e.pushes = d.pushes /\ e.files = d.files /\ e.forwards = d.forwards /\ e.migrated = d.migrated
BY DEF Tables

LEMMA WroteVaults ==
    ASSUME DirectoryInv, NEW X \in SUBSET VaultRows, OnePerUser(X), SameDirectoryAnswers',
           instants' \in Nat, instants <= instants',
           dirMemory' = [dirMemory EXCEPT !.vaults = X],
           dirSqlite' = [dirSqlite EXCEPT !.vaults = X],
           dirPostgres' = [dirPostgres EXCEPT !.vaults = X]
    PROVE  DirectoryInv' /\ dirSqlite'.vaults = X
<1>1. dirMemory \in Tables /\ dirSqlite \in Tables /\ dirPostgres = dirSqlite
  BY DEF DirectoryInv
<1>2. dirMemory' \in Tables /\ dirMemory'.vaults = X
  BY <1>1 DEF Tables
<1>3. dirSqlite' \in Tables /\ dirSqlite'.vaults = X /\ dirSqlite'.migrated = dirSqlite.migrated
  BY <1>1 DEF Tables
<1>4. SameRows(dirMemory', dirSqlite')
  BY <1>1, WriteVaults DEF SameRows, DirectoryInv
<1>5. KeysHold(dirMemory', instants')
  BY <1>1, WriteVaults, KeysLast DEF KeysHold, DirectoryInv
<1> QED  BY <1>1, <1>2, <1>3, <1>4, <1>5 DEF DirectoryInv

LEMMA WriteTerminals ==
    ASSUME NEW d \in Tables, NEW X \in SUBSET TerminalRows, NEW e, e = [d EXCEPT !.terminals = X]
    PROVE  /\ e \in Tables /\ e.terminals = X
           /\ e.users = d.users /\ e.friendships = d.friendships /\ e.asked = d.asked /\ e.logins = d.logins /\ e.vaults = d.vaults
           /\ e.pushes = d.pushes /\ e.files = d.files /\ e.forwards = d.forwards /\ e.migrated = d.migrated
BY DEF Tables

LEMMA WroteTerminals ==
    ASSUME DirectoryInv, NEW X \in SUBSET TerminalRows, KeyedByInstant(X, instants'), SameDirectoryAnswers',
           instants' \in Nat, instants <= instants',
           dirMemory' = [dirMemory EXCEPT !.terminals = X],
           dirSqlite' = [dirSqlite EXCEPT !.terminals = X],
           dirPostgres' = [dirPostgres EXCEPT !.terminals = X]
    PROVE  DirectoryInv' /\ SameVaults
<1>1. dirMemory \in Tables /\ dirSqlite \in Tables /\ dirPostgres = dirSqlite
  BY DEF DirectoryInv
<1>2. dirMemory' \in Tables /\ dirMemory'.terminals = X
  BY <1>1 DEF Tables
<1>3. dirSqlite' \in Tables /\ dirSqlite'.terminals = X /\ dirSqlite'.migrated = dirSqlite.migrated
  BY <1>1 DEF Tables
<1>4. SameRows(dirMemory', dirSqlite')
  BY <1>1, WriteTerminals DEF SameRows, DirectoryInv
<1>5. KeysHold(dirMemory', instants')
  BY <1>1, WriteTerminals, KeysLast DEF KeysHold, DirectoryInv
<1> QED  BY <1>1, <1>2, <1>3, <1>4, <1>5, WriteTerminals DEF DirectoryInv, SameVaults

LEMMA WritePushes ==
    ASSUME NEW d \in Tables, NEW X \in SUBSET PushRows, NEW e, e = [d EXCEPT !.pushes = X]
    PROVE  /\ e \in Tables /\ e.pushes = X
           /\ e.users = d.users /\ e.friendships = d.friendships /\ e.asked = d.asked /\ e.logins = d.logins /\ e.vaults = d.vaults
           /\ e.terminals = d.terminals /\ e.files = d.files /\ e.forwards = d.forwards /\ e.migrated = d.migrated
BY DEF Tables

LEMMA WrotePushes ==
    ASSUME DirectoryInv, NEW X \in SUBSET PushRows, SameDirectoryAnswers',
           instants' \in Nat, instants <= instants',
           dirMemory' = [dirMemory EXCEPT !.pushes = X],
           dirSqlite' = [dirSqlite EXCEPT !.pushes = X],
           dirPostgres' = [dirPostgres EXCEPT !.pushes = X]
    PROVE  DirectoryInv' /\ SameVaults
<1>1. dirMemory \in Tables /\ dirSqlite \in Tables /\ dirPostgres = dirSqlite
  BY DEF DirectoryInv
<1>2. dirMemory' \in Tables /\ dirMemory'.pushes = X
  BY <1>1 DEF Tables
<1>3. dirSqlite' \in Tables /\ dirSqlite'.pushes = X /\ dirSqlite'.migrated = dirSqlite.migrated
  BY <1>1 DEF Tables
<1>4. SameRows(dirMemory', dirSqlite')
  BY <1>1, WritePushes DEF SameRows, DirectoryInv
<1>5. KeysHold(dirMemory', instants')
  BY <1>1, WritePushes, KeysLast DEF KeysHold, DirectoryInv
<1> QED  BY <1>1, <1>2, <1>3, <1>4, <1>5, WritePushes DEF DirectoryInv, SameVaults

LEMMA WriteFiles ==
    ASSUME NEW d \in Tables, NEW X \in SUBSET FileRows, NEW e, e = [d EXCEPT !.files = X]
    PROVE  /\ e \in Tables /\ e.files = X
           /\ e.users = d.users /\ e.friendships = d.friendships /\ e.asked = d.asked /\ e.logins = d.logins /\ e.vaults = d.vaults
           /\ e.terminals = d.terminals /\ e.pushes = d.pushes /\ e.forwards = d.forwards /\ e.migrated = d.migrated
BY DEF Tables

LEMMA WroteFiles ==
    ASSUME DirectoryInv, NEW X \in SUBSET FileRows, KeyedByInstant(X, instants'), SameDirectoryAnswers',
           instants' \in Nat, instants <= instants',
           dirMemory' = [dirMemory EXCEPT !.files = X],
           dirSqlite' = [dirSqlite EXCEPT !.files = X],
           dirPostgres' = [dirPostgres EXCEPT !.files = X]
    PROVE  DirectoryInv' /\ SameVaults
<1>1. dirMemory \in Tables /\ dirSqlite \in Tables /\ dirPostgres = dirSqlite
  BY DEF DirectoryInv
<1>2. dirMemory' \in Tables /\ dirMemory'.files = X
  BY <1>1 DEF Tables
<1>3. dirSqlite' \in Tables /\ dirSqlite'.files = X /\ dirSqlite'.migrated = dirSqlite.migrated
  BY <1>1 DEF Tables
<1>4. SameRows(dirMemory', dirSqlite')
  BY <1>1, WriteFiles DEF SameRows, DirectoryInv
<1>5. KeysHold(dirMemory', instants')
  BY <1>1, WriteFiles, KeysLast DEF KeysHold, DirectoryInv
<1> QED  BY <1>1, <1>2, <1>3, <1>4, <1>5, WriteFiles DEF DirectoryInv, SameVaults

LEMMA WriteForwards ==
    ASSUME NEW d \in Tables, NEW X \in SUBSET ForwardRows, NEW e, e = [d EXCEPT !.forwards = X]
    PROVE  /\ e \in Tables /\ e.forwards = X
           /\ e.users = d.users /\ e.friendships = d.friendships /\ e.asked = d.asked /\ e.logins = d.logins /\ e.vaults = d.vaults
           /\ e.terminals = d.terminals /\ e.pushes = d.pushes /\ e.files = d.files /\ e.migrated = d.migrated
BY DEF Tables

LEMMA WroteForwards ==
    ASSUME DirectoryInv, NEW X \in SUBSET ForwardRows, SameDirectoryAnswers',
           instants' \in Nat, instants <= instants',
           dirMemory' = [dirMemory EXCEPT !.forwards = X],
           dirSqlite' = [dirSqlite EXCEPT !.forwards = X],
           dirPostgres' = [dirPostgres EXCEPT !.forwards = X]
    PROVE  DirectoryInv' /\ SameVaults
<1>1. dirMemory \in Tables /\ dirSqlite \in Tables /\ dirPostgres = dirSqlite
  BY DEF DirectoryInv
<1>2. dirMemory' \in Tables /\ dirMemory'.forwards = X
  BY <1>1 DEF Tables
<1>3. dirSqlite' \in Tables /\ dirSqlite'.forwards = X /\ dirSqlite'.migrated = dirSqlite.migrated
  BY <1>1 DEF Tables
<1>4. SameRows(dirMemory', dirSqlite')
  BY <1>1, WriteForwards DEF SameRows, DirectoryInv
<1>5. KeysHold(dirMemory', instants')
  BY <1>1, WriteForwards, KeysLast DEF KeysHold, DirectoryInv
<1> QED  BY <1>1, <1>2, <1>3, <1>4, <1>5, WriteForwards DEF DirectoryInv, SameVaults

(* The calls *)

LEMMA ReplyParts ==
    ASSUME NEW store, NEW answer
    PROVE  Reply(store, answer).store = store /\ Reply(store, answer).answer = answer
BY DEF Reply

LEMMA NotIn ==
    ASSUME NEW a, NEW S, ~ (a \in S)
    PROVE  (a \in S) = FALSE
OBVIOUS

LEMMA InvFacts ==
    ASSUME DirectoryInv
    PROVE  /\ instants \in Nat
           /\ dirPostgres = dirSqlite
           /\ dirMemory.users = dirSqlite.users /\ dirSqlite.users \subseteq UserRows
           /\ dirMemory.friendships = dirSqlite.friendships /\ dirSqlite.friendships \subseteq Pairs
           /\ dirMemory.asked = dirSqlite.asked /\ dirSqlite.asked \subseteq RequestRows
           /\ dirMemory.logins = dirSqlite.logins /\ dirSqlite.logins \subseteq LoginRows
           /\ dirMemory.vaults = dirSqlite.vaults /\ dirSqlite.vaults \subseteq VaultRows
           /\ dirMemory.terminals = dirSqlite.terminals /\ dirSqlite.terminals \subseteq TerminalRows
           /\ dirMemory.pushes = dirSqlite.pushes /\ dirSqlite.pushes \subseteq PushRows
           /\ dirMemory.files = dirSqlite.files /\ dirSqlite.files \subseteq FileRows
           /\ dirMemory.forwards = dirSqlite.forwards /\ dirSqlite.forwards \subseteq ForwardRows
           /\ Mutual(dirSqlite.friendships)
           /\ KeyedByInstant(dirSqlite.asked, instants)
           /\ OnePerUser(dirSqlite.vaults)
           /\ KeyedByInstant(dirSqlite.terminals, instants)
           /\ KeyedByInstant(dirSqlite.files, instants)
<1>1. /\ instants \in Nat
      /\ dirSqlite \in Tables
      /\ dirPostgres = dirSqlite
      /\ SameRows(dirMemory, dirSqlite)
      /\ KeysHold(dirMemory, instants)
  BY DEF DirectoryInv
<1>2. /\ dirMemory.users = dirSqlite.users
      /\ dirMemory.friendships = dirSqlite.friendships
      /\ dirMemory.asked = dirSqlite.asked
      /\ dirMemory.logins = dirSqlite.logins
      /\ dirMemory.vaults = dirSqlite.vaults
      /\ dirMemory.terminals = dirSqlite.terminals
      /\ dirMemory.pushes = dirSqlite.pushes
      /\ dirMemory.files = dirSqlite.files
      /\ dirMemory.forwards = dirSqlite.forwards
  BY <1>1 DEF SameRows
<1>3. /\ dirSqlite.users \subseteq UserRows
      /\ dirSqlite.friendships \subseteq Pairs
      /\ dirSqlite.asked \subseteq RequestRows
      /\ dirSqlite.logins \subseteq LoginRows
      /\ dirSqlite.vaults \subseteq VaultRows
      /\ dirSqlite.terminals \subseteq TerminalRows
      /\ dirSqlite.pushes \subseteq PushRows
      /\ dirSqlite.files \subseteq FileRows
      /\ dirSqlite.forwards \subseteq ForwardRows
  BY <1>1 DEF Tables
<1> QED  BY <1>1, <1>2, <1>3 DEF KeysHold

\* SetUser writes the one row of the account.
LEMMA SetUserStep ==
    ASSUME DirectoryInv, NEW u \in Both, NEW online \in BOOLEAN, CallSetUser(u, online)
    PROVE  DirectoryInv' /\ SameVaults
<1> PICK X : X = {r \in dirSqlite.users : r.id # u} \cup {[id |-> u, online |-> online]}
  OBVIOUS
<1>1. X \in SUBSET UserRows
  BY InvFacts DEF UserRows
<1>2. /\ dirMemory' = [dirMemory EXCEPT !.users = X]
      /\ dirSqlite' = [dirSqlite EXCEPT !.users = X]
      /\ dirPostgres' = [dirPostgres EXCEPT !.users = X]
  BY InvFacts DEF CallSetUser, DirectoryCall, MemorySetUser, SQLiteSetUser, PostgresSetUser, WithUser, Reply
<1>3. SameDirectoryAnswers'
  BY DEF CallSetUser, DirectoryCall, MemorySetUser, SQLiteSetUser, PostgresSetUser, Reply, SameDirectoryAnswers
<1>4. instants' \in Nat /\ instants <= instants'
  BY InvFacts DEF CallSetUser, Untimed
<1> QED  BY <1>1, <1>2, <1>3, <1>4, WroteUsers

\* SetUserOnline: the map entry is written again, the row is updated; of an
\* account that is missing neither makes one.
LEMMA SetUserOnlineStep ==
    ASSUME DirectoryInv, NEW u \in Both, NEW online \in BOOLEAN, CallSetUserOnline(u, online)
    PROVE  DirectoryInv' /\ SameVaults
<1> PICK X : X = {IF r.id = u THEN [r EXCEPT !.online = online] ELSE r : r \in dirSqlite.users}
  OBVIOUS
<1>1. X \in SUBSET UserRows
  BY InvFacts DEF UserRows
<1>2. \A r \in dirSqlite.users : r.id = u => [r EXCEPT !.online = online] = [id |-> u, online |-> online]
  BY InvFacts DEF UserRows
<1>3. ASSUME \E r \in dirSqlite.users : r.id = u
      PROVE  dirMemory' = [dirMemory EXCEPT !.users = X]
  <2>1. X = {r \in dirSqlite.users : r.id # u} \cup {[id |-> u, online |-> online]}
    BY <1>2, <1>3
  <2>2. dirMemory' = [dirMemory EXCEPT !.users = X]
    BY <1>3, <2>1, InvFacts DEF CallSetUserOnline, DirectoryCall, MemorySetUserOnline, WithUser, Reply
  <2> QED  BY <2>2
<1>4. ASSUME ~ \E r \in dirSqlite.users : r.id = u
      PROVE  dirMemory' = [dirMemory EXCEPT !.users = X]
  <2>1. X = dirSqlite.users
    BY <1>4
  <2>2. dirMemory' = dirMemory
    BY <1>4, InvFacts DEF CallSetUserOnline, DirectoryCall, MemorySetUserOnline, Reply
  <2>3. dirMemory = [dirMemory EXCEPT !.users = X]
    BY <2>1, InvFacts DEF DirectoryInv, Tables
  <2> QED  BY <2>2, <2>3
<1>5. dirMemory' = [dirMemory EXCEPT !.users = X]
  BY <1>3, <1>4
<1>6. /\ dirSqlite' = [dirSqlite EXCEPT !.users = X]
      /\ dirPostgres' = [dirPostgres EXCEPT !.users = X]
  BY InvFacts DEF CallSetUserOnline, DirectoryCall, SQLiteSetUserOnline, PostgresSetUserOnline, Reply
<1>7. SameDirectoryAnswers'
  BY DEF CallSetUserOnline, DirectoryCall, MemorySetUserOnline, SQLiteSetUserOnline, PostgresSetUserOnline,
         Reply, SameDirectoryAnswers
<1>8. instants' \in Nat /\ instants <= instants'
  BY InvFacts DEF CallSetUserOnline, Untimed
<1> QED  BY <1>1, <1>5, <1>6, <1>7, <1>8, WroteUsers

\* AddFriend: the map is asked about one direction, the databases insert both.
LEMMA AddFriendStep ==
    ASSUME DirectoryInv, NEW u \in Both, NEW v \in Both, CallAddFriend(u, v)
    PROVE  DirectoryInv' /\ SameVaults
<1> PICK X : X = IF u = v THEN dirSqlite.friendships ELSE dirSqlite.friendships \cup {<<u, v>>, <<v, u>>}
  OBVIOUS
<1>1. X \in SUBSET Pairs /\ Mutual(X)
  BY InvFacts DEF Pairs, Mutual
<1>2. u # v /\ <<u, v>> \in dirSqlite.friendships => X = dirSqlite.friendships
  BY InvFacts DEF Mutual
<1>3. /\ dirMemory = [dirMemory EXCEPT !.friendships = dirSqlite.friendships]
      /\ dirSqlite = [dirSqlite EXCEPT !.friendships = dirSqlite.friendships]
  BY InvFacts DEF DirectoryInv, Tables
<1>4. dirMemory' = [dirMemory EXCEPT !.friendships = X]
  BY <1>2, <1>3, InvFacts DEF CallAddFriend, DirectoryCall, MemoryAddFriend, Reply
<1>5. /\ dirSqlite' = [dirSqlite EXCEPT !.friendships = X]
      /\ dirPostgres' = [dirPostgres EXCEPT !.friendships = X]
  BY <1>3, InvFacts DEF CallAddFriend, DirectoryCall, SQLiteAddFriend, PostgresAddFriend, Reply
<1>6. SameDirectoryAnswers'
  BY InvFacts DEF CallAddFriend, DirectoryCall, MemoryAddFriend, SQLiteAddFriend, PostgresAddFriend,
         Reply, SameDirectoryAnswers
<1>7. instants' \in Nat /\ instants <= instants'
  BY InvFacts DEF CallAddFriend, Untimed
<1> QED  BY <1>1, <1>4, <1>5, <1>6, <1>7, WroteFriendships

\* RemoveFriend deletes both directions.
LEMMA RemoveFriendStep ==
    ASSUME DirectoryInv, NEW u \in Both, NEW v \in Both, CallRemoveFriend(u, v)
    PROVE  DirectoryInv' /\ SameVaults
<1> PICK X : X = dirSqlite.friendships \ {<<u, v>>, <<v, u>>}
  OBVIOUS
<1>1. X \in SUBSET Pairs /\ Mutual(X)
  BY InvFacts DEF Pairs, Mutual
<1>2. <<u, v>> \notin dirSqlite.friendships => X = dirSqlite.friendships
  BY InvFacts DEF Mutual
<1>3. dirMemory = [dirMemory EXCEPT !.friendships = dirSqlite.friendships]
  BY InvFacts DEF DirectoryInv, Tables
<1>4. dirMemory' = [dirMemory EXCEPT !.friendships = X]
  BY <1>2, <1>3, InvFacts DEF CallRemoveFriend, DirectoryCall, MemoryRemoveFriend, Reply
<1>5. /\ dirSqlite' = [dirSqlite EXCEPT !.friendships = X]
      /\ dirPostgres' = [dirPostgres EXCEPT !.friendships = X]
  BY <1>3, InvFacts DEF CallRemoveFriend, DirectoryCall, SQLiteRemoveFriend, PostgresRemoveFriend, Reply
<1>6. SameDirectoryAnswers'
  <2>1. ASSUME <<u, v>> \in dirSqlite.friendships
        PROVE  MemoryRemoveFriend(dirMemory, u, v).answer = SQLiteRemoveFriend(dirSqlite, u, v).answer
    <3>1. MemoryRemoveFriend(dirMemory, u, v).answer = TRUE
      BY <2>1, InvFacts DEF MemoryRemoveFriend, Reply
    <3>2. SQLiteRemoveFriend(dirSqlite, u, v).answer = TRUE
      BY <2>1, InvFacts DEF SQLiteRemoveFriend, Reply
    <3> QED  BY <3>1, <3>2
  <2>2. ASSUME ~ (<<u, v>> \in dirSqlite.friendships)
        PROVE  MemoryRemoveFriend(dirMemory, u, v).answer = SQLiteRemoveFriend(dirSqlite, u, v).answer
    <3>1. MemoryRemoveFriend(dirMemory, u, v).answer = FALSE
      BY <2>2, InvFacts DEF MemoryRemoveFriend, Reply
    <3>2. SQLiteRemoveFriend(dirSqlite, u, v).answer = FALSE
      <4>1. SQLiteRemoveFriend(dirSqlite, u, v).answer = (<<u, v>> \in dirSqlite.friendships)
        BY ReplyParts, Zenon DEF SQLiteRemoveFriend
      <4>2. (<<u, v>> \in dirSqlite.friendships) = FALSE
        BY <2>2, NotIn, Zenon
      <4> QED  BY ONLY <4>1, <4>2
    <3> QED  BY <3>1, <3>2
  <2>3. MemoryRemoveFriend(dirMemory, u, v).answer = SQLiteRemoveFriend(dirSqlite, u, v).answer
    BY <2>1, <2>2
  <2>4. PostgresRemoveFriend(dirPostgres, u, v) = SQLiteRemoveFriend(dirSqlite, u, v)
    BY InvFacts DEF PostgresRemoveFriend
  <2> QED  BY <2>3, <2>4 DEF CallRemoveFriend, DirectoryCall, SameDirectoryAnswers
<1>7. instants' \in Nat /\ instants <= instants'
  BY InvFacts DEF CallRemoveFriend, Untimed
<1> QED  BY <1>1, <1>4, <1>5, <1>6, <1>7, WroteFriendships

\* A new friend request has a new identifier.
LEMMA CreateFriendRequestStep ==
    ASSUME DirectoryInv, NEW u \in Both, NEW v \in Both, CallCreateFriendRequest(u, v)
    PROVE  DirectoryInv' /\ SameVaults
<1> PICK X : X = dirSqlite.asked \cup {[id |-> instants + 1, from |-> u, to |-> v, status |-> "pending"]}
  OBVIOUS
<1>1. instants' \in Nat /\ instants <= instants' /\ instants' = instants + 1
  BY InvFacts DEF CallCreateFriendRequest, Timed
<1>2. X \in SUBSET RequestRows
  BY InvFacts DEF RequestRows
<1>3. KeyedByInstant(X, instants')
  BY <1>1, InvFacts DEF KeyedByInstant, RequestRows
<1>4. /\ dirMemory' = [dirMemory EXCEPT !.asked = X]
      /\ dirSqlite' = [dirSqlite EXCEPT !.asked = X]
      /\ dirPostgres' = [dirPostgres EXCEPT !.asked = X]
  BY InvFacts DEF CallCreateFriendRequest, DirectoryCall, MemoryCreateFriendRequest, SQLiteCreateFriendRequest,
         PostgresCreateFriendRequest, WithRequest, Reply
<1>5. SameDirectoryAnswers'
  BY DEF CallCreateFriendRequest, DirectoryCall, MemoryCreateFriendRequest, SQLiteCreateFriendRequest,
         PostgresCreateFriendRequest, Reply, SameDirectoryAnswers
<1> QED  BY <1>1, <1>2, <1>3, <1>4, <1>5, WroteRequests

\* HandleFriendRequest: the request that is found by its identifier is the
\* only one the UPDATE can hit.
LEMMA HandleFriendRequestStep ==
    ASSUME DirectoryInv, NEW id \in Nat, NEW action \in {"accepted", "rejected"}, CallHandleFriendRequest(id, action)
    PROVE  DirectoryInv' /\ SameVaults
<1> DEFINE hit(r) == r.id = id /\ r.status = "pending"
<1> PICK X : X = {IF hit(r) THEN [r EXCEPT !.status = action] ELSE r : r \in dirSqlite.asked}
  OBVIOUS
<1>1. instants' \in Nat /\ instants <= instants' /\ instants' = instants
  BY InvFacts DEF CallHandleFriendRequest, Untimed
<1>2. X \in SUBSET RequestRows
  BY InvFacts DEF RequestRows
<1>3. \A r \in dirSqlite.asked : [r EXCEPT !.status = action].id = r.id
  BY InvFacts DEF RequestRows
<1>4. KeyedByInstant(X, instants')
  <2>1. \A x \in X : \E r \in dirSqlite.asked : x.id = r.id /\ x = IF hit(r) THEN [r EXCEPT !.status = action] ELSE r
    BY <1>3
  <2>2. \A x \in X : x.id <= instants'
    BY <1>1, <2>1, InvFacts DEF KeyedByInstant
  <2>3. \A x, y \in X : x.id = y.id => x = y
    <3> SUFFICES ASSUME NEW x \in X, NEW y \in X, x.id = y.id
                 PROVE  x = y
      OBVIOUS
    <3> PICK r \in dirSqlite.asked : x.id = r.id /\ x = IF hit(r) THEN [r EXCEPT !.status = action] ELSE r
      BY <2>1
    <3> PICK s \in dirSqlite.asked : y.id = s.id /\ y = IF hit(s) THEN [s EXCEPT !.status = action] ELSE s
      BY <2>1
    <3>1. r = s
      BY InvFacts DEF KeyedByInstant
    <3> QED  BY <3>1
  <2> QED  BY <2>2, <2>3 DEF KeyedByInstant
<1>5. /\ SQLiteHandleFriendRequest(dirSqlite, id, action).store = [dirSqlite EXCEPT !.asked = X]
      /\ SQLiteHandleFriendRequest(dirSqlite, id, action).answer = (\E r \in dirSqlite.asked : hit(r))
  BY DEF SQLiteHandleFriendRequest, Reply
<1>6. ASSUME \E r \in dirSqlite.asked : hit(r)
      PROVE  /\ MemoryHandleFriendRequest(dirMemory, id, action).store = [dirMemory EXCEPT !.asked = X]
             /\ MemoryHandleFriendRequest(dirMemory, id, action).answer = TRUE
  <2> PICK p \in dirSqlite.asked : hit(p)
    BY <1>6
  <2>1. \A r \in dirSqlite.asked : hit(r) => r = p
    BY InvFacts DEF KeyedByInstant
  <2>2. {r \in dirMemory.asked : r.id = id} = {p}
    BY InvFacts DEF KeyedByInstant
  <2>3. MemoryGetFriendRequest(dirMemory, id) = p
    BY <2>2 DEF MemoryGetFriendRequest, TheRow
  <2>4. X = (dirSqlite.asked \ {p}) \cup {[p EXCEPT !.status = action]}
    BY <2>1
  <2>5. \E r \in dirMemory.asked : r.id = id /\ r.status = "pending"
    BY <1>6, InvFacts
  <2>6. MemoryHandleFriendRequest(dirMemory, id, action).store =
          [dirMemory EXCEPT !.asked = (dirMemory.asked \ {p}) \cup {[p EXCEPT !.status = action]}]
    BY <2>3, <2>5 DEF MemoryHandleFriendRequest, Reply
  <2>7. MemoryHandleFriendRequest(dirMemory, id, action).answer = TRUE
    BY <2>3, <2>5 DEF MemoryHandleFriendRequest, Reply
  <2>8. (dirMemory.asked \ {p}) \cup {[p EXCEPT !.status = action]} = X
    BY <2>4, InvFacts
  <2> QED  BY <2>6, <2>7, <2>8
<1>7. ASSUME ~ \E r \in dirSqlite.asked : hit(r)
      PROVE  /\ MemoryHandleFriendRequest(dirMemory, id, action).store = [dirMemory EXCEPT !.asked = X]
             /\ MemoryHandleFriendRequest(dirMemory, id, action).answer = FALSE
  <2>1. X = dirSqlite.asked
    BY <1>7
  <2>2. ~ \E r \in dirMemory.asked : r.id = id /\ r.status = "pending"
    BY <1>7, InvFacts
  <2>3. MemoryHandleFriendRequest(dirMemory, id, action) = Reply(dirMemory, FALSE)
    BY <2>2 DEF MemoryHandleFriendRequest
  <2>4. dirMemory = [dirMemory EXCEPT !.asked = X]
    BY <2>1, InvFacts DEF DirectoryInv, Tables
  <2> QED  BY <2>3, <2>4 DEF Reply
<1>8. /\ dirMemory' = [dirMemory EXCEPT !.asked = X]
      /\ dirSqlite' = [dirSqlite EXCEPT !.asked = X]
      /\ dirPostgres' = [dirPostgres EXCEPT !.asked = X]
  BY <1>5, <1>6, <1>7, InvFacts DEF CallHandleFriendRequest, DirectoryCall, PostgresHandleFriendRequest
<1>9. SameDirectoryAnswers'
  <2>1. /\ MemoryHandleFriendRequest(dirMemory, id, action).answer =
              SQLiteHandleFriendRequest(dirSqlite, id, action).answer
        /\ PostgresHandleFriendRequest(dirPostgres, id, action) = SQLiteHandleFriendRequest(dirSqlite, id, action)
    BY <1>5, <1>6, <1>7, InvFacts DEF PostgresHandleFriendRequest
  <2> QED  BY <2>1 DEF CallHandleFriendRequest, DirectoryCall, SameDirectoryAnswers
<1> QED  BY <1>1, <1>2, <1>4, <1>8, <1>9, WroteRequests

\* Sessions of accounts: one row for a token.
LEMMA UpsertSessionStep ==
    ASSUME DirectoryInv, NEW u \in Both, CallUpsertSession("token", u)
    PROVE  DirectoryInv' /\ SameVaults
<1> PICK X : X = {r \in dirSqlite.logins : r.token # "token"} \cup
                   {[token |-> "token", user |-> u, expires |-> instants + 1]}
  OBVIOUS
<1>1. X \in SUBSET LoginRows
  BY InvFacts DEF LoginRows
<1>2. /\ dirMemory' = [dirMemory EXCEPT !.logins = X]
      /\ dirSqlite' = [dirSqlite EXCEPT !.logins = X]
      /\ dirPostgres' = [dirPostgres EXCEPT !.logins = X]
  BY InvFacts DEF CallUpsertSession, DirectoryCall, MemoryUpsertSession, SQLiteUpsertSession,
         PostgresUpsertSession, Reply
<1>3. SameDirectoryAnswers'
  BY DEF CallUpsertSession, DirectoryCall, MemoryUpsertSession, SQLiteUpsertSession, PostgresUpsertSession,
         Reply, SameDirectoryAnswers
<1>4. instants' \in Nat /\ instants <= instants'
  BY InvFacts DEF CallUpsertSession, Untimed
<1> QED  BY <1>1, <1>2, <1>3, <1>4, WroteLogins

LEMMA DeleteSessionStep ==
    ASSUME DirectoryInv, CallDeleteSession("token")
    PROVE  DirectoryInv' /\ SameVaults
<1> PICK X : X = {r \in dirSqlite.logins : r.token # "token"}
  OBVIOUS
<1>1. X \in SUBSET LoginRows
  BY InvFacts
<1>2. /\ dirMemory' = [dirMemory EXCEPT !.logins = X]
      /\ dirSqlite' = [dirSqlite EXCEPT !.logins = X]
      /\ dirPostgres' = [dirPostgres EXCEPT !.logins = X]
  BY InvFacts DEF CallDeleteSession, DirectoryCall, MemoryDeleteSession, SQLiteDeleteSession,
         PostgresDeleteSession, Reply
<1>3. SameDirectoryAnswers'
  BY DEF CallDeleteSession, DirectoryCall, MemoryDeleteSession, SQLiteDeleteSession, PostgresDeleteSession,
         Reply, SameDirectoryAnswers
<1>4. instants' \in Nat /\ instants <= instants'
  BY InvFacts DEF CallDeleteSession, Untimed
<1> QED  BY <1>1, <1>2, <1>3, <1>4, WroteLogins

LEMMA DeleteSessionsForUserStep ==
    ASSUME DirectoryInv, NEW u \in Both, CallDeleteSessionsForUser(u)
    PROVE  DirectoryInv' /\ SameVaults
<1> PICK X : X = {r \in dirSqlite.logins : r.user # u}
  OBVIOUS
<1>1. X \in SUBSET LoginRows
  BY InvFacts
<1>2. /\ dirMemory' = [dirMemory EXCEPT !.logins = X]
      /\ dirSqlite' = [dirSqlite EXCEPT !.logins = X]
      /\ dirPostgres' = [dirPostgres EXCEPT !.logins = X]
  BY InvFacts DEF CallDeleteSessionsForUser, DirectoryCall, MemoryDeleteSessionsForUser,
         SQLiteDeleteSessionsForUser, PostgresDeleteSessionsForUser, Reply
<1>3. SameDirectoryAnswers'
  BY DEF CallDeleteSessionsForUser, DirectoryCall, MemoryDeleteSessionsForUser, SQLiteDeleteSessionsForUser,
         PostgresDeleteSessionsForUser, Reply, SameDirectoryAnswers
<1>4. instants' \in Nat /\ instants <= instants'
  BY InvFacts DEF CallDeleteSessionsForUser, Untimed
<1> QED  BY <1>1, <1>2, <1>3, <1>4, WroteLogins

\* The vault of an account: its row, or Nothing.
LEMMA VaultOf ==
    ASSUME NEW rows \in SUBSET VaultRows, OnePerUser(rows), NEW u \in Both, NEW found, found = TheRow({v \in rows : v.user = u})
    PROVE  \/ found = Nothing /\ {v \in rows : v.user = u} = {}
           \/ found # Nothing /\ found \in rows /\ found.user = u /\ {v \in rows : v.user = u} = {found}
<1>1. CASE {v \in rows : v.user = u} = {}
  BY <1>1 DEF TheRow
<1>2. CASE {v \in rows : v.user = u} # {}
  <2> PICK v \in rows : v.user = u
    BY <1>2
  <2>1. {w \in rows : w.user = u} = {v}
    BY DEF OnePerUser
  <2>2. found = v
    BY <2>1 DEF TheRow
  <2>3. v # Nothing
    BY DirectoryAssumption DEF VaultRows, Both
  <2> QED  BY <2>1, <2>2, <2>3
<1> QED  BY <1>1, <1>2

LEMMA RevisionOf ==
    ASSUME NEW rows \in SUBSET VaultRows, OnePerUser(rows), NEW u \in Both, NEW found, found = TheRow({v \in rows : v.user = u})
    PROVE  Revision(found) \in Nat /\ Revision(found) = IF found = Nothing THEN 0 ELSE found.revision
BY VaultOf DEF Revision, VaultRows

\* PutTerminalVault: the entry of the map or the row of the account is
\* replaced by the next revision, or the call is refused with the current one.
LEMMA PutVault ==
    ASSUME DirectoryInv, NEW u \in Both, NEW payload \in Payloads, NEW expected,
           CallPutTerminalVault(u, payload, expected)
    PROVE  /\ DirectoryInv'
           /\ \/ SameVaults
              \/ dirSqlite'.vaults = {v \in dirSqlite.vaults : v.user # u} \cup
                   {[user |-> u, payload |-> payload, revision |-> Revision(SQLiteGetTerminalVault(dirSqlite, u)) + 1]}
<1> PICK current : current = SQLiteGetTerminalVault(dirSqlite, u)
  OBVIOUS
<1> PICK new : new = [user |-> u, payload |-> payload, revision |-> Revision(current) + 1]
  OBVIOUS
<1>1. /\ MemoryGetTerminalVault(dirMemory, u) = current
      /\ SQLiteGetTerminalVault(dirPostgres, u) = current
      /\ current = TheRow({v \in dirSqlite.vaults : v.user = u})
  BY InvFacts DEF MemoryGetTerminalVault, SQLiteGetTerminalVault
<1>2. /\ Revision(current) \in Nat
      /\ \/ current = Nothing /\ {v \in dirSqlite.vaults : v.user = u} = {}
         \/ current \in dirSqlite.vaults /\ {v \in dirSqlite.vaults : v.user = u} = {current}
  BY <1>1, VaultOf, RevisionOf, InvFacts
<1>3. instants' \in Nat /\ instants <= instants' /\ instants' = instants
  BY InvFacts DEF CallPutTerminalVault, Untimed
<1>4. CASE Revision(current) # expected
  <2>1. /\ MemoryPutTerminalVault(dirMemory, u, payload, expected) = Reply(dirMemory, [conflict |-> TRUE, vault |-> current])
        /\ SQLitePutTerminalVault(dirSqlite, u, payload, expected) = Reply(dirSqlite, [conflict |-> TRUE, vault |-> current])
        /\ PostgresPutTerminalVault(dirPostgres, u, payload, expected) = Reply(dirPostgres, [conflict |-> TRUE, vault |-> current])
    BY <1>1, <1>4 DEF MemoryPutTerminalVault, SQLitePutTerminalVault, PostgresPutTerminalVault
  <2>2. /\ dirMemory' = dirMemory /\ dirSqlite' = dirSqlite /\ dirPostgres' = dirPostgres
        /\ SameDirectoryAnswers'
    BY <2>1 DEF CallPutTerminalVault, DirectoryCall, Reply, SameDirectoryAnswers
  <2> QED  BY <1>3, <2>2 DEF DirectoryInv, SameVaults
<1>5. CASE Revision(current) = expected
  <2> PICK X : X = {v \in dirSqlite.vaults : v.user # u} \cup {new}
    OBVIOUS
  <2>1. new \in VaultRows /\ new.user = u
    BY <1>2 DEF VaultRows
  <2>2. X \in SUBSET VaultRows
    BY <2>1, InvFacts
  <2>3. OnePerUser(X)
    BY <2>1, InvFacts DEF OnePerUser
  <2>4. (dirSqlite.vaults \ {current}) \cup {new} = X
    <3>1. Nothing \notin dirSqlite.vaults
      BY DirectoryAssumption, InvFacts DEF VaultRows, Both
    <3> QED  BY <1>2, <3>1
  <2>5. MemoryPutTerminalVault(dirMemory, u, payload, expected) =
          Reply([dirMemory EXCEPT !.vaults = (dirMemory.vaults \ {current}) \cup {new}], [conflict |-> FALSE, vault |-> new])
    BY <1>1, <1>5 DEF MemoryPutTerminalVault
  <2>6. SQLitePutTerminalVault(dirSqlite, u, payload, expected) =
          Reply([dirSqlite EXCEPT !.vaults = X], [conflict |-> FALSE, vault |-> new])
    BY <1>1, <1>5 DEF SQLitePutTerminalVault
  <2>7. PostgresPutTerminalVault(dirPostgres, u, payload, expected) =
          Reply([dirPostgres EXCEPT !.vaults = X], [conflict |-> FALSE, vault |-> new])
    BY <2>6, InvFacts DEF PostgresPutTerminalVault
  <2>8. /\ dirMemory' = [dirMemory EXCEPT !.vaults = (dirMemory.vaults \ {current}) \cup {new}]
        /\ dirSqlite' = [dirSqlite EXCEPT !.vaults = X]
        /\ dirPostgres' = [dirPostgres EXCEPT !.vaults = X]
        /\ SameDirectoryAnswers'
    BY <2>5, <2>6, <2>7 DEF CallPutTerminalVault, DirectoryCall, Reply, SameDirectoryAnswers
  <2>9. dirMemory' = [dirMemory EXCEPT !.vaults = X]
    BY <2>4, <2>8, InvFacts
  <2>10. DirectoryInv' /\ dirSqlite'.vaults = X
    BY <1>3, <2>2, <2>3, <2>8, <2>9, WroteVaults
  <2> QED  BY <2>10
<1> QED  BY <1>4, <1>5

LEMMA DeleteVault ==
    ASSUME DirectoryInv, NEW u \in Both, CallDeleteTerminalVault(u)
    PROVE  DirectoryInv' /\ dirSqlite'.vaults = {v \in dirSqlite.vaults : v.user # u}
<1> PICK X : X = {v \in dirSqlite.vaults : v.user # u}
  OBVIOUS
<1>1. X \in SUBSET VaultRows /\ OnePerUser(X)
  BY InvFacts DEF OnePerUser
<1>2. /\ dirMemory' = [dirMemory EXCEPT !.vaults = X]
      /\ dirSqlite' = [dirSqlite EXCEPT !.vaults = X]
      /\ dirPostgres' = [dirPostgres EXCEPT !.vaults = X]
  BY InvFacts DEF CallDeleteTerminalVault, DirectoryCall, MemoryDeleteTerminalVault,
         SQLiteDeleteTerminalVault, PostgresDeleteTerminalVault, Reply
<1>3. SameDirectoryAnswers'
  BY DEF CallDeleteTerminalVault, DirectoryCall, MemoryDeleteTerminalVault, SQLiteDeleteTerminalVault,
         PostgresDeleteTerminalVault, Reply, SameDirectoryAnswers
<1>4. instants' \in Nat /\ instants <= instants'
  BY InvFacts DEF CallDeleteTerminalVault, Untimed
<1> QED  BY <1>1, <1>2, <1>3, <1>4, WroteVaults

\* A terminal session that is new has a new identifier: no row is replaced.
LEMMA UpsertTerminalStep ==
    ASSUME DirectoryInv, NEW u \in Both, CallUpsertTerminalSession(u)
    PROVE  DirectoryInv' /\ SameVaults
<1> PICK fresh : fresh = [id |-> instants + 1, user |-> u, connected |-> TRUE, seen |-> instants + 1, left |-> 0]
  OBVIOUS
<1> PICK X : X = dirSqlite.terminals \cup {fresh}
  OBVIOUS
<1>1. instants' \in Nat /\ instants <= instants' /\ instants' = instants + 1
  BY InvFacts DEF CallUpsertTerminalSession, Timed
<1>2. fresh \in TerminalRows /\ fresh.id = instants + 1
  BY InvFacts DEF TerminalRows
<1>3. X \in SUBSET TerminalRows
  BY <1>2, InvFacts
<1>4. \A t \in dirSqlite.terminals : t.id \in Nat /\ t.id <= instants
  BY InvFacts DEF KeyedByInstant, TerminalRows
<1>5. KeyedByInstant(X, instants')
  <2>1. \A t \in X : t.id <= instants'
    BY <1>1, <1>2, <1>4, InvFacts
  <2>2. \A t \in dirSqlite.terminals : t.id # fresh.id
    BY <1>2, <1>4, InvFacts
  <2>3. \A s, t \in dirSqlite.terminals : s.id = t.id => s = t
    BY InvFacts DEF KeyedByInstant
  <2>4. \A s, t \in X : s.id = t.id => s = t
    BY <2>2, <2>3
  <2> QED  BY <2>1, <2>4 DEF KeyedByInstant
<1>6. {t \in dirMemory.terminals : t.id # instants + 1} = dirSqlite.terminals
  BY <1>4, InvFacts
<1>7. dirMemory' = [dirMemory EXCEPT !.terminals = X]
  <2>1. dirMemory' = [dirMemory EXCEPT !.terminals = {t \in dirMemory.terminals : t.id # instants + 1} \cup {fresh}]
    BY DEF CallUpsertTerminalSession, DirectoryCall, MemoryUpsertTerminalSession, Reply
  <2> QED  BY <1>6, <2>1
<1>8. /\ dirSqlite' = [dirSqlite EXCEPT !.terminals = X]
      /\ dirPostgres' = [dirPostgres EXCEPT !.terminals = X]
  BY InvFacts DEF CallUpsertTerminalSession, DirectoryCall, SQLiteUpsertTerminalSession,
         PostgresUpsertTerminalSession, Reply
<1>9. SameDirectoryAnswers'
  BY DEF CallUpsertTerminalSession, DirectoryCall, MemoryUpsertTerminalSession, SQLiteUpsertTerminalSession,
         PostgresUpsertTerminalSession, Reply, SameDirectoryAnswers
<1> QED  BY <1>1, <1>3, <1>5, <1>7, <1>8, <1>9, WroteTerminals

\* A change of rows that keeps their identifiers keeps the table keyed.
LEMMA KeyedImage ==
    ASSUME NEW rows, NEW now, KeyedByInstant(rows, now), NEW f \in [rows -> TerminalRows],
           \A r \in rows : f[r].id = r.id
    PROVE  KeyedByInstant({f[r] : r \in rows}, now)
<1>1. \A x \in {f[r] : r \in rows} : x.id <= now
  BY DEF KeyedByInstant
<1>2. ASSUME NEW r \in rows, NEW s \in rows, f[r].id = f[s].id
      PROVE  f[r] = f[s]
  BY <1>2 DEF KeyedByInstant
<1> QED  BY <1>1, <1>2 DEF KeyedByInstant

\* TouchTerminalSession: the databases mark the session as connected, which
\* the one with this identifier is.
LEMMA TouchTerminalStep ==
    ASSUME DirectoryInv, NEW id \in Nat, CallTouchTerminalSession(id)
    PROVE  DirectoryInv' /\ SameVaults
<1>0. PICK now : now = instants + 1
  OBVIOUS
<1> PICK f : f = [t \in dirSqlite.terminals |-> IF t.id = id /\ now > t.seen THEN [t EXCEPT !.seen = now] ELSE t]
  OBVIOUS
<1> PICK X : X = {f[t] : t \in dirSqlite.terminals}
  OBVIOUS
<1>1. instants' \in Nat /\ instants <= instants' /\ instants' = now /\ now \in Nat
  BY <1>0, InvFacts DEF CallTouchTerminalSession, Timed
<1>2. \A t \in dirSqlite.terminals : t \in TerminalRows
  BY InvFacts
<1>3. \A t \in dirSqlite.terminals : [t EXCEPT !.seen = now] \in TerminalRows /\ [t EXCEPT !.seen = now].id = t.id
  BY <1>1, <1>2 DEF TerminalRows
<1>4. f \in [dirSqlite.terminals -> TerminalRows] /\ \A t \in dirSqlite.terminals : f[t].id = t.id
  BY <1>2, <1>3
<1>5. X \in SUBSET TerminalRows
  BY <1>4
<1>6. KeyedByInstant(dirSqlite.terminals, now)
  BY <1>1, <1>2, InvFacts DEF KeyedByInstant, TerminalRows
<1>7. KeyedByInstant(X, instants')
  BY <1>1, <1>4, <1>6, KeyedImage
<1>8. \A t \in dirSqlite.terminals : t.id = id => t.connected = TRUE
  <2>1. PICK c \in dirSqlite.terminals : c.id = id /\ c.connected
    BY InvFacts DEF CallTouchTerminalSession
  <2>2. c.connected = TRUE
    BY <1>2, <2>1 DEF TerminalRows
  <2> QED  BY <2>1, <2>2, InvFacts DEF KeyedByInstant
<1>9. \A t \in dirSqlite.terminals :
        t.id = id => [t EXCEPT !.seen = now, !.connected = TRUE] = [t EXCEPT !.seen = now]
  BY <1>2, <1>8 DEF TerminalRows
<1>10. \A t \in dirSqlite.terminals : t.seen \in Nat
  BY <1>2 DEF TerminalRows
<1>11. {IF t.id = id /\ now > t.seen THEN [t EXCEPT !.seen = now] ELSE t : t \in dirMemory.terminals} = X
  BY InvFacts
<1>12. {IF t.id = id /\ t.seen < now THEN [t EXCEPT !.seen = now, !.connected = TRUE] ELSE t : t \in dirSqlite.terminals} = X
  BY <1>1, <1>9, <1>10
<1>13. dirMemory' = [dirMemory EXCEPT !.terminals = X]
  <2>1. dirMemory' =
          [dirMemory EXCEPT !.terminals =
              {IF t.id = id /\ instants + 1 > t.seen THEN [t EXCEPT !.seen = instants + 1] ELSE t : t \in dirMemory.terminals}]
    BY DEF CallTouchTerminalSession, DirectoryCall, MemoryTouchTerminalSession, Reply
  <2> QED  BY <1>0, <1>11, <2>1
<1>14. /\ dirSqlite' = [dirSqlite EXCEPT !.terminals = X]
       /\ dirPostgres' = [dirPostgres EXCEPT !.terminals = X]
  <2>1. dirSqlite' =
          [dirSqlite EXCEPT !.terminals =
              {IF t.id = id /\ t.seen < instants + 1 THEN [t EXCEPT !.seen = instants + 1, !.connected = TRUE] ELSE t :
                  t \in dirSqlite.terminals}]
    BY DEF CallTouchTerminalSession, DirectoryCall, SQLiteTouchTerminalSession, Reply
  <2>2. dirPostgres' = dirSqlite' /\ dirPostgres = dirSqlite
    BY InvFacts DEF CallTouchTerminalSession, DirectoryCall, PostgresTouchTerminalSession
  <2> QED  BY <1>0, <1>12, <2>1, <2>2
<1>15. SameDirectoryAnswers'
  BY DEF CallTouchTerminalSession, DirectoryCall, MemoryTouchTerminalSession, SQLiteTouchTerminalSession,
         PostgresTouchTerminalSession, Reply, SameDirectoryAnswers
<1> QED  BY <1>1, <1>5, <1>7, <1>13, <1>14, <1>15, WroteTerminals

LEMMA EndTerminalStep ==
    ASSUME DirectoryInv, NEW id \in Nat, CallEndTerminalSession(id)
    PROVE  DirectoryInv' /\ SameVaults
<1>0. PICK now : now = instants + 1
  OBVIOUS
<1>1. instants' \in Nat /\ instants <= instants' /\ instants' = now /\ now \in Nat
  BY <1>0, InvFacts DEF CallEndTerminalSession, Timed
<1>2. \A t \in dirSqlite.terminals : t \in TerminalRows
  BY InvFacts
<1>6. KeyedByInstant(dirSqlite.terminals, now)
  BY <1>1, <1>2, InvFacts DEF KeyedByInstant, TerminalRows
<1>f. PICK f : f = [t \in dirSqlite.terminals |->
                    IF t.id = id THEN [t EXCEPT !.connected = FALSE, !.seen = now, !.left = now] ELSE t]
  OBVIOUS
<1>x. PICK X : X = {f[t] : t \in dirSqlite.terminals}
  OBVIOUS
<1>3. \A t \in dirSqlite.terminals :
        LET ended == [t EXCEPT !.connected = FALSE, !.seen = now, !.left = now]
        IN ended \in TerminalRows /\ ended.id = t.id
  BY <1>1, <1>2 DEF TerminalRows
<1>4. f \in [dirSqlite.terminals -> TerminalRows] /\ \A t \in dirSqlite.terminals : f[t].id = t.id
  BY <1>f, <1>2, <1>3
<1>5. X \in SUBSET TerminalRows
  BY <1>x, <1>4
<1>7. KeyedByInstant(X, instants')
  BY <1>x, <1>1, <1>4, <1>6, KeyedImage
<1>8. {IF t.id = id THEN [t EXCEPT !.connected = FALSE, !.seen = now, !.left = now] ELSE t : t \in dirSqlite.terminals} = X
  BY <1>f, <1>x
<1>9. /\ dirMemory' = [dirMemory EXCEPT !.terminals = X]
      /\ dirSqlite' = [dirSqlite EXCEPT !.terminals = X]
      /\ dirPostgres' = [dirPostgres EXCEPT !.terminals = X]
  <2>1. dirMemory' =
          [dirMemory EXCEPT !.terminals =
              {IF t.id = id THEN [t EXCEPT !.connected = FALSE, !.seen = instants + 1, !.left = instants + 1] ELSE t :
                  t \in dirMemory.terminals}]
    BY DEF CallEndTerminalSession, DirectoryCall, MemoryEndTerminalSession, Reply
  <2>2. dirSqlite' =
          [dirSqlite EXCEPT !.terminals =
              {IF t.id = id THEN [t EXCEPT !.connected = FALSE, !.seen = instants + 1, !.left = instants + 1] ELSE t :
                  t \in dirSqlite.terminals}]
    BY DEF CallEndTerminalSession, DirectoryCall, MemoryEndTerminalSession, SQLiteEndTerminalSession, Reply
  <2>3. dirPostgres' = dirSqlite' /\ dirPostgres = dirSqlite
    BY InvFacts DEF CallEndTerminalSession, DirectoryCall, PostgresEndTerminalSession, SQLiteEndTerminalSession
  <2> QED  BY <1>0, <1>8, <2>1, <2>2, <2>3, InvFacts, ZenonT(30)
<1>10. SameDirectoryAnswers'
  BY DEF CallEndTerminalSession, DirectoryCall, MemoryEndTerminalSession, SQLiteEndTerminalSession,
         PostgresEndTerminalSession, Reply, SameDirectoryAnswers
<1> QED  BY <1>1, <1>5, <1>7, <1>9, <1>10, WroteTerminals

\* Web Push: one row for a browser.
LEMMA UpsertPushStep ==
    ASSUME DirectoryInv, NEW u \in Both, NEW key \in Payloads, CallUpsertPushSubscription(u, "browser", key)
    PROVE  DirectoryInv' /\ SameVaults
<1> PICK X : X = {p \in dirSqlite.pushes : p.user # u \/ p.endpoint # "browser"} \cup
                   {[user |-> u, endpoint |-> "browser", key |-> key]}
  OBVIOUS
<1>1. X \in SUBSET PushRows
  BY InvFacts DEF PushRows
<1>2. /\ dirMemory' = [dirMemory EXCEPT !.pushes = X]
      /\ dirSqlite' = [dirSqlite EXCEPT !.pushes = X]
      /\ dirPostgres' = [dirPostgres EXCEPT !.pushes = X]
  BY InvFacts DEF CallUpsertPushSubscription, DirectoryCall, MemoryUpsertPushSubscription,
         SQLiteUpsertPushSubscription, PostgresUpsertPushSubscription, Reply
<1>3. SameDirectoryAnswers'
  BY DEF CallUpsertPushSubscription, DirectoryCall, MemoryUpsertPushSubscription,
         SQLiteUpsertPushSubscription, PostgresUpsertPushSubscription, Reply, SameDirectoryAnswers
<1>4. instants' \in Nat /\ instants <= instants'
  BY InvFacts DEF CallUpsertPushSubscription, Untimed
<1> QED  BY <1>1, <1>2, <1>3, <1>4, WrotePushes

LEMMA DeletePushStep ==
    ASSUME DirectoryInv, NEW u \in Both, CallDeletePushSubscription(u, "browser")
    PROVE  DirectoryInv' /\ SameVaults
<1> PICK X : X = {p \in dirSqlite.pushes : p.user # u \/ p.endpoint # "browser"}
  OBVIOUS
<1>1. X \in SUBSET PushRows
  BY InvFacts
<1>2. /\ dirMemory' = [dirMemory EXCEPT !.pushes = X]
      /\ dirSqlite' = [dirSqlite EXCEPT !.pushes = X]
      /\ dirPostgres' = [dirPostgres EXCEPT !.pushes = X]
  BY InvFacts DEF CallDeletePushSubscription, DirectoryCall, MemoryDeletePushSubscription,
         SQLiteDeletePushSubscription, PostgresDeletePushSubscription, Reply
<1>3. SameDirectoryAnswers'
  BY DEF CallDeletePushSubscription, DirectoryCall, MemoryDeletePushSubscription,
         SQLiteDeletePushSubscription, PostgresDeletePushSubscription, Reply, SameDirectoryAnswers
<1>4. instants' \in Nat /\ instants <= instants'
  BY InvFacts DEF CallDeletePushSubscription, Untimed
<1> QED  BY <1>1, <1>2, <1>3, <1>4, WrotePushes

\* A file that is new has a new name: the three ways to insert it are one.
LEMMA StoreMediaStep ==
    ASSUME DirectoryInv, NEW payload \in Payloads, CallStoreMedia(payload)
    PROVE  DirectoryInv' /\ SameVaults
<1> PICK file : file = [id |-> instants + 1, url |-> payload, uploader |-> First]
  OBVIOUS
<1> PICK X : X = dirSqlite.files \cup {file}
  OBVIOUS
<1>1. instants' \in Nat /\ instants <= instants' /\ instants' = instants + 1
  BY InvFacts DEF CallStoreMedia, Timed
<1>2. file \in FileRows /\ file.id = instants + 1
  BY InvFacts DEF FileRows, Both
<1>3. X \in SUBSET FileRows
  BY <1>2, InvFacts
<1>4. \A t \in dirSqlite.files : t.id \in Nat /\ t.id <= instants
  BY InvFacts DEF KeyedByInstant, FileRows
<1>5. KeyedByInstant(X, instants')
  <2>1. \A t \in X : t.id <= instants'
    BY <1>1, <1>2, <1>4, InvFacts
  <2>2. \A t \in dirSqlite.files : t.id # file.id
    BY <1>2, <1>4, InvFacts
  <2>3. \A s, t \in dirSqlite.files : s.id = t.id => s = t
    BY InvFacts DEF KeyedByInstant
  <2>4. \A s, t \in X : s.id = t.id => s = t
    BY <2>2, <2>3
  <2> QED  BY <2>1, <2>4 DEF KeyedByInstant
<1>6. ~ \E t \in dirSqlite.files : t.id = file.id
  BY <1>2, <1>4, InvFacts
<1>7. {t \in dirMemory.files : t.id # file.id} = dirSqlite.files
  BY <1>6, InvFacts
<1>8. MemoryStoreMedia(dirMemory, file) = Reply([dirMemory EXCEPT !.files = X], Accepted)
  BY <1>7 DEF MemoryStoreMedia
<1>9. SQLiteStoreMedia(dirSqlite, file) = Reply([dirSqlite EXCEPT !.files = X], Accepted)
  BY <1>6 DEF SQLiteStoreMedia
<1>10. PostgresStoreMedia(dirPostgres, file) = Reply([dirPostgres EXCEPT !.files = X], Accepted)
  BY <1>6, InvFacts DEF PostgresStoreMedia
<1>11. DirectoryCall(MemoryStoreMedia(dirMemory, file), SQLiteStoreMedia(dirSqlite, file),
                     PostgresStoreMedia(dirPostgres, file))
  BY DEF CallStoreMedia
<1>12. /\ dirMemory' = [dirMemory EXCEPT !.files = X]
       /\ dirSqlite' = [dirSqlite EXCEPT !.files = X]
       /\ dirPostgres' = [dirPostgres EXCEPT !.files = X]
       /\ SameDirectoryAnswers'
  BY <1>8, <1>9, <1>10, <1>11 DEF DirectoryCall, Reply, SameDirectoryAnswers
<1> QED  BY <1>1, <1>3, <1>5, <1>12, WroteFiles

LEMMA DeleteMediaStep ==
    ASSUME DirectoryInv, NEW id \in Nat, CallDeleteMedia(id)
    PROVE  DirectoryInv' /\ SameVaults
<1> PICK X : X = {f \in dirSqlite.files : f.id # id}
  OBVIOUS
<1>1. instants' \in Nat /\ instants <= instants' /\ instants' = instants
  BY InvFacts DEF CallDeleteMedia, Untimed
<1>2. X \in SUBSET FileRows /\ KeyedByInstant(X, instants')
  BY <1>1, InvFacts DEF KeyedByInstant
<1>3. /\ dirMemory' = [dirMemory EXCEPT !.files = X]
      /\ dirSqlite' = [dirSqlite EXCEPT !.files = X]
      /\ dirPostgres' = [dirPostgres EXCEPT !.files = X]
  BY InvFacts DEF CallDeleteMedia, DirectoryCall, MemoryDeleteMedia, SQLiteDeleteMedia, PostgresDeleteMedia, Reply
<1>4. SameDirectoryAnswers'
  BY DEF CallDeleteMedia, DirectoryCall, MemoryDeleteMedia, SQLiteDeleteMedia, PostgresDeleteMedia,
         Reply, SameDirectoryAnswers
<1> QED  BY <1>1, <1>2, <1>3, <1>4, WroteFiles

LEMMA StoreForwardStep ==
    ASSUME DirectoryInv, NEW payload \in Payloads, CallStoreForward(payload)
    PROVE  DirectoryInv' /\ SameVaults
<1> PICK X : X = dirSqlite.forwards \cup {[id |-> instants + 1, messages |-> payload]}
  OBVIOUS
<1>1. instants' \in Nat /\ instants <= instants'
  BY InvFacts DEF CallStoreForward, Timed
<1>2. X \in SUBSET ForwardRows
  BY InvFacts DEF ForwardRows
<1>3. /\ dirMemory' = [dirMemory EXCEPT !.forwards = X]
      /\ dirSqlite' = [dirSqlite EXCEPT !.forwards = X]
      /\ dirPostgres' = [dirPostgres EXCEPT !.forwards = X]
  BY InvFacts DEF CallStoreForward, DirectoryCall, MemoryStoreForward, SQLiteStoreForward,
         PostgresStoreForward, Reply
<1>4. SameDirectoryAnswers'
  BY DEF CallStoreForward, DirectoryCall, MemoryStoreForward, SQLiteStoreForward, PostgresStoreForward,
         Reply, SameDirectoryAnswers
<1> QED  BY <1>1, <1>2, <1>3, <1>4, WroteForwards

\* A database that is opened again finds its marker and leaves the rows alone.
LEMMA ReopenStep ==
    ASSUME DirectoryInv, Reopen
    PROVE  DirectoryInv' /\ SameVaults
<1>1. SQLiteInitSchema(dirSqlite) = dirSqlite /\ PostgresInitSchema(dirPostgres) = dirPostgres
  BY DEF DirectoryInv, SQLiteInitSchema, PostgresInitSchema, SQLiteMigrateLegacyFriendships,
         PostgresMigrateLegacyFriendships
<1>2. /\ dirMemory' = dirMemory /\ dirSqlite' = dirSqlite /\ dirPostgres' = dirPostgres
      /\ instants' = instants /\ SameDirectoryAnswers'
  BY <1>1 DEF Reopen, DirectoryCall, Untimed, SameDirectoryAnswers
<1> QED  BY <1>2 DEF DirectoryInv, SameVaults

\* The first start turned the private conversation into both directions of a
\* friendship, which is what the in-memory store begins with.
LEMMA DirectoryStarts ==
    ASSUME DirectoryInit
    PROVE  DirectoryInv
<1>1. First # Second
  BY DirectoryAssumption
<1> PICK legacy : legacy = LegacyTables
  OBVIOUS
<1>2. /\ legacy.friendships = {} /\ legacy.migrated = FALSE /\ legacy.chats = {Both}
      /\ legacy.users = {[id |-> u, online |-> FALSE] : u \in Both}
      /\ legacy.asked = {} /\ legacy.vaults = {} /\ legacy.terminals = {} /\ legacy.files = {}
  BY DEF LegacyTables, Both
<1>a. \A u \in Both : [id |-> u, online |-> FALSE] \in UserRows /\ [id |-> u, online |-> FALSE].id = u
  BY DEF UserRows
<1>b. legacy \in Tables
  BY <1>a DEF LegacyTables, Tables, Both
<1>3. {r.id : r \in legacy.users} = Both
  <2>1. \A r \in legacy.users : r.id \in Both
    BY <1>2, <1>a
  <2>2. \A u \in Both : \E r \in legacy.users : r.id = u
    BY <1>2, <1>a
  <2> QED  BY <2>1, <2>2
<1> PICK X : X = {<<First, Second>>, <<Second, First>>}
  OBVIOUS
<1>4. {f \in {r.id : r \in legacy.users} \X {r.id : r \in legacy.users} :
         f[1] # f[2] /\ \E chat \in legacy.chats : {f[1], f[2]} \subseteq chat} = X
  BY <1>1, <1>2, <1>3 DEF Both
<1>5. X \in SUBSET Pairs /\ Mutual(X)
  BY DEF Pairs, Both, Mutual
<1>6. SQLiteInitSchema(legacy) = [legacy EXCEPT !.migrated = TRUE, !.friendships = legacy.friendships \cup
         {f \in {r.id : r \in legacy.users} \X {r.id : r \in legacy.users} :
            f[1] # f[2] /\ \E chat \in legacy.chats : {f[1], f[2]} \subseteq chat}]
  BY <1>2 DEF SQLiteInitSchema, SQLiteMigrateLegacyFriendships
<1>7. dirSqlite = [legacy EXCEPT !.migrated = TRUE, !.friendships = X]
  BY <1>2, <1>4, <1>6 DEF DirectoryInit
<1>8. dirPostgres = dirSqlite
  BY DEF DirectoryInit, PostgresInitSchema, PostgresMigrateLegacyFriendships, SQLiteInitSchema, PostgresLegacyTables
<1>9. dirMemory = [legacy EXCEPT !.friendships = X]
  BY DEF DirectoryInit, MemoryDirectory
<1>10. dirMemory \in Tables
  BY <1>2, <1>b, <1>5, <1>9 DEF Tables
<1>11. dirSqlite \in Tables /\ dirSqlite.migrated
  BY <1>2, <1>b, <1>5, <1>7 DEF Tables
<1>12. SameRows(dirMemory, dirSqlite)
  BY <1>2, <1>b, <1>7, <1>9 DEF SameRows, Tables
<1>13. KeysHold(dirMemory, instants)
  <2>1. /\ dirMemory.friendships = X /\ dirMemory.asked = {} /\ dirMemory.vaults = {}
        /\ dirMemory.terminals = {} /\ dirMemory.files = {}
    BY <1>2, <1>b, <1>9 DEF Tables
  <2> QED  BY <1>5, <2>1 DEF KeysHold, KeyedByInstant, OnePerUser
<1> QED  BY <1>8, <1>10, <1>11, <1>12, <1>13 DEF DirectoryInv, DirectoryInit, SameDirectoryAnswers

\* What happens to the vaults in a step: nothing, or one is written with the
\* next revision, or one is deleted.
VaultWrite(u, payload) ==
    dirSqlite'.vaults = {v \in dirSqlite.vaults : v.user # u} \cup
        {[user |-> u, payload |-> payload, revision |-> Revision(SQLiteGetTerminalVault(dirSqlite, u)) + 1]}
VaultDelete(u) == dirSqlite'.vaults = {v \in dirSqlite.vaults : v.user # u}
VaultStep ==
    \/ SameVaults
    \/ \E u \in Both, payload \in Payloads : VaultWrite(u, payload)
    \/ \E u \in Both : VaultDelete(u)

LEMMA DirectoryStep ==
    ASSUME DirectoryInv, [DirectoryNext]_dirVars
    PROVE  DirectoryInv' /\ VaultStep
<1>1. Instants \subseteq Nat /\ First \in Both /\ Second \in Both
  BY InvFacts DEF Instants, Both
<1>2. CASE SocialCalls
  <2>1. ASSUME NEW online \in BOOLEAN, CallSetUser(First, online) \/ CallSetUserOnline(First, online)
        PROVE  DirectoryInv' /\ SameVaults
    BY <1>1, <2>1, SetUserStep, SetUserOnlineStep
  <2>2. ASSUME NEW u \in {First, Second}, NEW v \in {First, Second},
               CallAddFriend(u, v) \/ CallRemoveFriend(u, v) \/ CallCreateFriendRequest(u, v)
        PROVE  DirectoryInv' /\ SameVaults
    BY <2>2, AddFriendStep, RemoveFriendStep, CreateFriendRequestStep DEF Both
  <2>3. ASSUME NEW id \in Instants, NEW action \in {"accepted", "rejected"}, CallHandleFriendRequest(id, action)
        PROVE  DirectoryInv' /\ SameVaults
    BY <1>1, <2>3, HandleFriendRequestStep
  <2> QED  BY <1>2, <2>1, <2>2, <2>3 DEF SocialCalls, VaultStep
<1>3. CASE DeviceCalls
  <2>1. ASSUME NEW u \in {First, Second}, CallUpsertSession("token", u) \/ CallDeleteSessionsForUser(u)
        PROVE  DirectoryInv' /\ VaultStep
    BY <2>1, UpsertSessionStep, DeleteSessionsForUserStep DEF Both, VaultStep
  <2>2. ASSUME CallDeleteSession("token")
        PROVE  DirectoryInv' /\ VaultStep
    BY <2>2, DeleteSessionStep DEF VaultStep
  <2>3. ASSUME NEW payload \in Payloads, NEW expected \in 0 .. 2, CallPutTerminalVault(First, payload, expected)
        PROVE  DirectoryInv' /\ VaultStep
    BY <1>1, <2>3, PutVault DEF VaultStep, VaultWrite
  <2>4. ASSUME CallDeleteTerminalVault(First)
        PROVE  DirectoryInv' /\ VaultStep
    BY <1>1, <2>4, DeleteVault DEF VaultStep, VaultDelete
  <2>5. ASSUME CallUpsertTerminalSession(First)
        PROVE  DirectoryInv' /\ VaultStep
    BY <1>1, <2>5, UpsertTerminalStep DEF VaultStep
  <2>6. ASSUME NEW id \in Instants, CallTouchTerminalSession(id) \/ CallEndTerminalSession(id)
        PROVE  DirectoryInv' /\ VaultStep
    BY <1>1, <2>6, TouchTerminalStep, EndTerminalStep DEF VaultStep
  <2>7. ASSUME NEW key \in Payloads, CallUpsertPushSubscription(First, "browser", key)
        PROVE  DirectoryInv' /\ VaultStep
    BY <1>1, <2>7, UpsertPushStep DEF VaultStep
  <2>8. ASSUME CallDeletePushSubscription(First, "browser")
        PROVE  DirectoryInv' /\ VaultStep
    BY <1>1, <2>8, DeletePushStep DEF VaultStep
  <2> QED  BY <1>3, <2>1, <2>2, <2>3, <2>4, <2>5, <2>6, <2>7, <2>8 DEF DeviceCalls
<1>4. CASE FileCalls
  <2>1. ASSUME NEW payload \in Payloads, CallStoreMedia(payload) \/ CallStoreForward(payload)
        PROVE  DirectoryInv' /\ SameVaults
    BY <2>1, StoreMediaStep, StoreForwardStep
  <2>2. ASSUME NEW id \in Instants, CallDeleteMedia(id)
        PROVE  DirectoryInv' /\ SameVaults
    BY <1>1, <2>2, DeleteMediaStep
  <2> QED  BY <1>4, <2>1, <2>2 DEF FileCalls, VaultStep
<1>5. CASE Reopen
  BY <1>5, ReopenStep DEF VaultStep
<1>6. CASE UNCHANGED dirVars
  BY <1>6 DEF dirVars, DirectoryInv, VaultStep, SameVaults, SameDirectoryAnswers
<1> QED  BY <1>2, <1>3, <1>4, <1>5, <1>6 DEF DirectoryNext

\* Equal rows give equal answers to every query.
LEMMA SameQueries ==
    ASSUME DirectoryInv
    PROVE  SameDirectory
<1>1. /\ MemoryGetUsers(dirMemory) = SQLiteGetUsers(dirSqlite)
      /\ MemoryGetUsers(dirMemory) = PostgresGetUsers(dirPostgres)
  BY InvFacts DEF MemoryGetUsers, SQLiteGetUsers, PostgresGetUsers
<1>2. ASSUME NEW u \in {First, Second}
      PROVE  /\ MemoryGetUser(dirMemory, u) = SQLiteGetUser(dirSqlite, u)
             /\ MemoryGetUser(dirMemory, u) = PostgresGetUser(dirPostgres, u)
             /\ MemoryGetFriends(dirMemory, u) = SQLiteGetFriends(dirSqlite, u)
             /\ MemoryGetFriends(dirMemory, u) = PostgresGetFriends(dirPostgres, u)
             /\ MemoryGetPendingFriendRequests(dirMemory, u) = SQLiteGetPendingFriendRequests(dirSqlite, u)
             /\ MemoryGetPendingFriendRequests(dirMemory, u) = PostgresGetPendingFriendRequests(dirPostgres, u)
             /\ MemoryGetTerminalVault(dirMemory, u) = SQLiteGetTerminalVault(dirSqlite, u)
             /\ MemoryGetTerminalVault(dirMemory, u) = PostgresGetTerminalVault(dirPostgres, u)
             /\ MemoryGetPushSubscriptions(dirMemory, u) = SQLiteGetPushSubscriptions(dirSqlite, u)
             /\ MemoryGetPushSubscriptions(dirMemory, u) = PostgresGetPushSubscriptions(dirPostgres, u)
  <2>1. /\ MemoryGetUser(dirMemory, u) = SQLiteGetUser(dirSqlite, u)
        /\ MemoryGetUser(dirMemory, u) = PostgresGetUser(dirPostgres, u)
    BY InvFacts DEF MemoryGetUser, SQLiteGetUser, PostgresGetUser
  <2>2. MemoryGetFriends(dirMemory, u) = SQLiteGetFriends(dirSqlite, u)
    BY InvFacts DEF MemoryGetFriends, SQLiteGetFriends
  <2>3. MemoryGetPendingFriendRequests(dirMemory, u) = SQLiteGetPendingFriendRequests(dirSqlite, u)
    BY InvFacts DEF MemoryGetPendingFriendRequests, SQLiteGetPendingFriendRequests
  <2>4. /\ MemoryGetTerminalVault(dirMemory, u) = SQLiteGetTerminalVault(dirSqlite, u)
        /\ MemoryGetTerminalVault(dirMemory, u) = PostgresGetTerminalVault(dirPostgres, u)
    BY InvFacts DEF MemoryGetTerminalVault, SQLiteGetTerminalVault, PostgresGetTerminalVault
  <2>5. /\ MemoryGetPushSubscriptions(dirMemory, u) = SQLiteGetPushSubscriptions(dirSqlite, u)
        /\ MemoryGetPushSubscriptions(dirMemory, u) = PostgresGetPushSubscriptions(dirPostgres, u)
    BY InvFacts DEF MemoryGetPushSubscriptions, SQLiteGetPushSubscriptions, PostgresGetPushSubscriptions
  <2>6. /\ PostgresGetFriends(dirPostgres, u) = SQLiteGetFriends(dirSqlite, u)
        /\ PostgresGetPendingFriendRequests(dirPostgres, u) = SQLiteGetPendingFriendRequests(dirSqlite, u)
    BY InvFacts DEF PostgresGetFriends, PostgresGetPendingFriendRequests
  <2> QED  BY <2>1, <2>2, <2>3, <2>4, <2>5, <2>6
<1>3. ASSUME NEW u \in {First, Second}, NEW v \in {First, Second}
      PROVE  /\ MemoryAreFriends(dirMemory, u, v) = SQLiteAreFriends(dirSqlite, v, u)
             /\ MemoryAreFriends(dirMemory, u, v) = PostgresAreFriends(dirPostgres, v, u)
  <2>1. <<u, v>> \in dirSqlite.friendships <=> <<v, u>> \in dirSqlite.friendships
    BY InvFacts DEF Mutual
  <2> QED  BY <2>1, InvFacts DEF MemoryAreFriends, SQLiteAreFriends, PostgresAreFriends
<1>4. /\ MemoryGetSession(dirMemory, "token") = SQLiteGetSession(dirSqlite, "token")
      /\ MemoryGetSession(dirMemory, "token") = PostgresGetSession(dirPostgres, "token")
  BY InvFacts DEF MemoryGetSession, SQLiteGetSession, PostgresGetSession
<1>5. /\ MemoryGetRecentTerminalSessions(dirMemory, 1) = SQLiteGetRecentTerminalSessions(dirSqlite, 1)
      /\ MemoryGetRecentTerminalSessions(dirMemory, 1) = PostgresGetRecentTerminalSessions(dirPostgres, 1)
  BY InvFacts DEF MemoryGetRecentTerminalSessions, SQLiteGetRecentTerminalSessions, PostgresGetRecentTerminalSessions
<1>6. /\ MemoryGetMediaFiles(dirMemory, 1) = SQLiteGetMediaFiles(dirSqlite, 1)
      /\ MemoryGetMediaFiles(dirMemory, 1) = PostgresGetMediaFiles(dirPostgres, 1)
  BY InvFacts DEF MemoryGetMediaFiles, SQLiteGetMediaFiles, PostgresGetMediaFiles
<1>7. /\ MemoryGetServerStats(dirMemory, instants) = SQLiteGetServerStats(dirSqlite, instants)
      /\ MemoryGetServerStats(dirMemory, instants) = PostgresGetServerStats(dirPostgres, instants)
  BY InvFacts, Zenon DEF MemoryGetServerStats, SQLiteGetServerStats, PostgresGetServerStats
<1>8. ASSUME NEW id \in Instants
      PROVE  /\ MemoryGetFriendRequest(dirMemory, id) = SQLiteGetFriendRequest(dirSqlite, id)
             /\ MemoryGetFriendRequest(dirMemory, id) = PostgresGetFriendRequest(dirPostgres, id)
             /\ MemoryGetMedia(dirMemory, id) = SQLiteGetMedia(dirSqlite, id)
             /\ MemoryGetMedia(dirMemory, id) = PostgresGetMedia(dirPostgres, id)
             /\ MemoryGetForward(dirMemory, id) = SQLiteGetForward(dirSqlite, id)
             /\ MemoryGetForward(dirMemory, id) = PostgresGetForward(dirPostgres, id)
  BY InvFacts DEF MemoryGetFriendRequest, SQLiteGetFriendRequest, PostgresGetFriendRequest, MemoryGetMedia,
       SQLiteGetMedia, PostgresGetMedia, MemoryGetForward, SQLiteGetForward, PostgresGetForward
<1> QED  BY <1>1, <1>2, <1>3, <1>4, <1>5, <1>6, <1>7, <1>8 DEF SameDirectory

\* The vault of an account that changes is the next revision.
LEMMA NextRevision ==
    ASSUME VaultStep, NEW u \in {First, Second}
    PROVE  LET before == SQLiteGetTerminalVault(dirSqlite, u)
               after == SQLiteGetTerminalVault(dirSqlite, u)'
           IN before # after /\ after # Nothing =>
                after.revision = IF before = Nothing THEN 1 ELSE before.revision + 1
<1> PICK old : old = dirSqlite.vaults
  OBVIOUS
<1> PICK now : now = dirSqlite'.vaults
  OBVIOUS
<1> PICK before : before = TheRow({v \in old : v.user = u})
  OBVIOUS
<1> PICK after : after = TheRow({v \in now : v.user = u})
  OBVIOUS
<1>1. SQLiteGetTerminalVault(dirSqlite, u) = before /\ SQLiteGetTerminalVault(dirSqlite, u)' = after
  BY DEF SQLiteGetTerminalVault
<1>2. CASE SameVaults
  <2>1. before = after
    BY <1>2 DEF SameVaults
  <2> QED  BY <1>1, <2>1
<1>3. ASSUME {v \in now : v.user = u} = {v \in old : v.user = u}
      PROVE  before = after
  BY <1>3
<1>4. CASE \E w \in Both, payload \in Payloads : VaultWrite(w, payload)
  <2> PICK w \in Both, payload \in Payloads : VaultWrite(w, payload)
    BY <1>4
  <2> PICK new : new = [user |-> w, payload |-> payload, revision |-> Revision(SQLiteGetTerminalVault(dirSqlite, w)) + 1]
    OBVIOUS
  <2>1. now = {v \in old : v.user # w} \cup {new} /\ new.user = w
    BY DEF VaultWrite
  <2>2. CASE w # u
    <3>1. {v \in now : v.user = u} = {v \in old : v.user = u}
      BY <2>1, <2>2
    <3> QED  BY <1>1, <1>3, <3>1
  <2>3. CASE w = u
    <3>1. {v \in now : v.user = u} = {new}
      BY <2>1, <2>3
    <3>2. after = new
      BY <3>1 DEF TheRow
    <3>3. new.revision = Revision(before) + 1
      BY <1>1, <2>3
    <3>4. Revision(before) = IF before = Nothing THEN 0 ELSE before.revision
      BY DEF Revision
    <3> QED  BY <1>1, <3>2, <3>3, <3>4
  <2> QED  BY <2>2, <2>3
<1>5. CASE \E w \in Both : VaultDelete(w)
  <2> PICK w \in Both : VaultDelete(w)
    BY <1>5
  <2>1. now = {v \in old : v.user # w}
    BY DEF VaultDelete
  <2>2. CASE w # u
    <3>1. {v \in now : v.user = u} = {v \in old : v.user = u}
      BY <2>1, <2>2
    <3> QED  BY <1>1, <1>3, <3>1
  <2>3. CASE w = u
    <3>1. {v \in now : v.user = u} = {}
      BY <2>1, <2>3
    <3>2. after = Nothing
      BY <3>1 DEF TheRow
    <3> QED  BY <1>1, <3>2
  <2> QED  BY <2>2, <2>3
<1> QED  BY <1>2, <1>4, <1>5 DEF VaultStep

\* For any two accounts, any contents and any sequence of calls and restarts
\* of the databases, the three stores give the same answers and hold the same
\* rows (memory.go, sqlite.go, postgres.go), and a write to a vault carries the
\* next revision.
THEOREM DirectoriesStayEqual == DirectorySpec => DirectoriesAgree
<1>1. DirectoryInit => DirectoryInv
  BY DirectoryStarts
<1>2. DirectoryInv /\ [DirectoryNext]_dirVars => DirectoryInv'
  BY DirectoryStep
<1>3. DirectorySpec => []DirectoryInv
  BY <1>1, <1>2, PTL DEF DirectorySpec
<1>4. DirectoryInv => SameDirectoryAnswers /\ SameDirectory
  BY SameQueries DEF DirectoryInv
<1>5. DirectoryInv /\ [DirectoryNext]_dirVars =>
        [\A u \in {First, Second} :
            LET before == SQLiteGetTerminalVault(dirSqlite, u)
                after == SQLiteGetTerminalVault(dirSqlite, u)'
            IN before # after /\ after # Nothing =>
                 after.revision = IF before = Nothing THEN 1 ELSE before.revision + 1]_dirVars
  BY DirectoryStep, NextRevision
<1> QED  BY <1>3, <1>4, <1>5, PTL DEF DirectoriesAgree, VaultRevisionsAdvance, DirectorySpec

(*************************************************************************)
(* StoreConformance                                                      *)
(*************************************************************************)

(* The inductive invariant *)

\* A map of the in-memory store or a set of tables has the fields of one.
HasMaps(m) ==
    m = [conversations |-> m.conversations, preferences |-> m.preferences, messages |-> m.messages,
         sent |-> m.sent, updated |-> m.updated, events |-> m.events, reactions |-> m.reactions,
         reads |-> m.reads, groups |-> m.groups, announcements |-> m.announcements,
         announcementReads |-> m.announcementReads]
HasTables(d) ==
    d = [conversations |-> d.conversations, preferences |-> d.preferences, messages |-> d.messages,
         updated |-> d.updated, events |-> d.events, reactions |-> d.reactions, reads |-> d.reads,
         groups |-> d.groups, members |-> d.members, announcements |-> d.announcements,
         announcementReads |-> d.announcementReads]

\* The two conversations as they are saved.
SavedConversation(c) ==
    [kind |-> IF c = TheGroup THEN "group" ELSE "private", people |-> IF c = TheGroup THEN {} ELSE People]
SavedRow(c) ==
    [id |-> c, kind |-> IF c = TheGroup THEN "group" ELSE "private",
     people |-> IF c = TheGroup THEN {} ELSE People]

ConversationsMatch(map, rows) ==
    /\ DOMAIN map \subseteq Places
    /\ \A c \in DOMAIN map : map[c] = SavedConversation(c)
    /\ rows = {SavedRow(c) : c \in DOMAIN map}

\* What the in-memory store keeps of a row of the table of messages.
MessageOf(r) == [id |-> r.id, sender |-> r.sender, segments |-> r.segments, recalled |-> r.recalled]
KeyOf(r) == [sender |-> r.sender, client |-> r.client, print |-> r.print, message |-> r.id]

\* Every history is in the order of the identifiers, which are instants of
\* the past, and has the rows of its conversation.
Rising(h) == \A i, j \in 1 .. Len(h) : i < j => h[i].id < h[j].id
HistoryHas(h, r) == \E i \in 1 .. Len(h) : h[i] = MessageOf(r)
MessagesMatch(map, rows, now) ==
    /\ DOMAIN map \subseteq Places
    /\ \A c \in DOMAIN map : map[c] \in Seq(StoredMessages) /\ Rising(map[c])
    /\ rows \subseteq MessageRows /\ IsFiniteSet(rows)
    /\ \A r \in rows : r.id \in 1 .. now
    /\ \A r, q \in rows : r.id = q.id => r = q
    /\ \A r \in rows : r.conversation \in DOMAIN map /\ HistoryHas(map[r.conversation], r)
    /\ \A c \in DOMAIN map : \A i \in 1 .. Len(map[c]) :
           \E r \in rows : r.conversation = c /\ map[c][i] = MessageOf(r)

\* The map of idempotency keys has those of the messages that are there, and
\* a user's client identifier names one message.
KeysMatch(sent, rows) ==
    /\ sent = {KeyOf(r) : r \in {r \in rows : r.client # Empty}}
    /\ \A r, q \in rows : r.client # Empty /\ r.client = q.client /\ r.sender = q.sender => r = q

PreferencesNormal(rows) ==
    /\ rows \subseteq PreferenceRows
    /\ \A p \in rows : p.muted = (p.level = "muted")

\* A mark names the message that was the newest at its time.
MarksTyped(rows) == rows \subseteq ReadRows /\ \A r \in rows : r.last # 0 => r.at = r.last

EventsKeyed(rows) ==
    /\ rows \subseteq InteractionRows
    /\ \A e, x \in rows : e.actor = x.actor /\ e.event = x.event => e = x

\* What is kept about a message is about one that is there.
AboutMessages(updated, events, reactions, rows) ==
    /\ updated \subseteq KeyRows
    /\ \A x \in updated : \E r \in rows : r.id = x.message
    /\ \A x \in reactions : \E r \in rows : r.id = x.message
    /\ \A e \in events : \E r \in rows : r.id = e.message /\ r.conversation = e.conversation

ReactionRows == [message : Nat, emoji : {"like"}, user : People]

MemberOf(x) == [user |-> x.user, role |-> x.role, muted |-> x.muted]
GroupRowOf(g) == [id |-> TheGroup, owner |-> g.owner, muteAll |-> g.muteAll, announcement |-> g.announcement]
MemberRowOf(x) == [group |-> TheGroup, user |-> x.user, role |-> x.role, muted |-> x.muted]

\* The owner of the group is the one member with that role.
OneOwner(g) ==
    /\ \E x \in g.members : x.user = g.owner
    /\ \A x \in g.members : x.role = "owner" <=> x.user = g.owner

GroupMatches(groups, rows, members) ==
    /\ DOMAIN groups = {TheGroup}
    /\ groups[TheGroup] \in StoredGroups
    /\ OneOwner(groups[TheGroup])
    /\ rows = {GroupRowOf(groups[TheGroup])}
    /\ members = {MemberRowOf(x) : x \in groups[TheGroup].members}

\* A mark on an announcement is on one that is there.
AnnouncementRows ==
    [id : Nat, group : {TheGroup}, content : {"news", "update"}, pinned : BOOLEAN, at : Nat]
MarkRows == [announcement : Nat, user : People]
AnnouncementsKept(rows, marks) ==
    /\ rows \subseteq AnnouncementRows /\ marks \subseteq MarkRows
    /\ \A x \in marks : \E a \in rows : a.id = x.announcement

GroupGone(groups, rows, members) ==
    DOMAIN groups = {} /\ rows = {} /\ members = {}

\* What a client sees of the two stores.
Shown(m, d, now) ==
    /\ HasMaps(m) /\ HasTables(d)
    /\ ConversationsMatch(m.conversations, d.conversations)
    /\ m.preferences = d.preferences /\ PreferencesNormal(d.preferences)
    /\ MessagesMatch(m.messages, d.messages, now)
    /\ m.updated = d.updated /\ m.events = d.events /\ m.reactions = d.reactions
    /\ d.reactions \subseteq ReactionRows /\ IsFiniteSet(d.reactions)
    /\ EventsKeyed(d.events)
    /\ m.reads = d.reads /\ MarksTyped(d.reads)
    /\ m.announcements = d.announcements /\ m.announcementReads = d.announcementReads

\* The invariant while the group is there.
Together(m, d, now) ==
    /\ Shown(m, d, now)
    /\ TheGroup \in DOMAIN m.conversations
    /\ KeysMatch(m.sent, d.messages)
    /\ AboutMessages(d.updated, d.events, d.reactions, d.messages)
    /\ GroupMatches(m.groups, d.groups, d.members)
    /\ AnnouncementsKept(d.announcements, d.announcementReads)

StoreInv ==
    /\ clock \in Nat
    /\ SameAnswers
    /\ TheGroup \in DOMAIN memory.groups =>
           postgres = sqlite /\ Together(memory, sqlite, clock)
    /\ TheGroup \notin DOMAIN memory.groups =>
           /\ GroupGone(memory.groups, sqlite.groups, sqlite.members)
           /\ TheGroup \notin DOMAIN memory.conversations
           /\ KeptGroups = {} => postgres = sqlite /\ Shown(memory, sqlite, clock)
           /\ OnlyReactionsKeepAGroup

(* Rows, replies and fields *)

LEMMA RowFound ==
    ASSUME NEW rows, Nothing \notin rows
    PROVE  /\ rows = {} => TheRow(rows) = Nothing
           /\ rows # {} => TheRow(rows) \in rows /\ TheRow(rows) # Nothing
BY DEF TheRow

LEMMA TogetherParts ==
    ASSUME NEW m, NEW d, NEW now, Together(m, d, now)
    PROVE  /\ HasMaps(m) /\ HasTables(d)
           /\ ConversationsMatch(m.conversations, d.conversations)
           /\ TheGroup \in DOMAIN m.conversations
           /\ m.preferences = d.preferences /\ PreferencesNormal(d.preferences)
           /\ MessagesMatch(m.messages, d.messages, now)
           /\ KeysMatch(m.sent, d.messages)
           /\ m.updated = d.updated /\ m.events = d.events /\ m.reactions = d.reactions
           /\ d.reactions \subseteq ReactionRows /\ IsFiniteSet(d.reactions)
           /\ EventsKeyed(d.events)
           /\ AboutMessages(d.updated, d.events, d.reactions, d.messages)
           /\ m.reads = d.reads /\ MarksTyped(d.reads)
           /\ GroupMatches(m.groups, d.groups, d.members)
           /\ m.announcements = d.announcements /\ m.announcementReads = d.announcementReads
           /\ AnnouncementsKept(d.announcements, d.announcementReads)
BY DEF Together, Shown

\* A call on two stores that match: the same answer, and they still match.
Sound(a, b, now) == a.answer = b.answer /\ Together(a.store, b.store, now)

LEMMA SoundReply ==
    ASSUME NEW m, NEW d, NEW x, NEW y, NEW now, x = y, Together(m, d, now)
    PROVE  Sound(Reply(m, x), Reply(d, y), now)
BY DEF Sound, Reply

LEMMA StoreStep ==
    ASSUME StoreInv, NEW a, NEW b, NEW p, StoreCall(a, b, p), clock' \in Nat,
           p.store = b.store, p.answer = b.answer, Sound(a, b, clock')
    PROVE  StoreInv'
<1>1. /\ memory' = a.store /\ sqlite' = b.store /\ postgres' = b.store
      /\ replies' = <<a.answer, a.answer, a.answer>>
      /\ Together(memory', sqlite', clock')
  BY DEF StoreCall, Sound
<1>2. SameAnswers'
  BY <1>1 DEF SameAnswers
<1>3. TheGroup \in DOMAIN memory'.groups
  <2>1. GroupMatches(memory'.groups, sqlite'.groups, sqlite'.members)
    BY <1>1, TogetherParts
  <2> QED BY <2>1 DEF GroupMatches
<1> QED BY <1>1, <1>2, <1>3 DEF StoreInv

\* Calls are made while the group is there.
LEMMA CallFacts ==
    ASSUME StoreInv, NEW a, NEW b, NEW p, StoreCall(a, b, p)
    PROVE  postgres = sqlite /\ Together(memory, sqlite, clock) /\ clock \in Nat
BY DEF StoreInv, StoreCall, GroupExists, MemoryGetGroup

(* One table is written *)

LEMMA ConversationsWritten ==
    ASSUME NEW m, NEW d, NEW now, Together(m, d, now), NEW mc, NEW dc,
           ConversationsMatch(mc, dc), TheGroup \in DOMAIN mc
    PROVE  Together([m EXCEPT !.conversations = mc], [d EXCEPT !.conversations = dc], now)
<1> USE TogetherParts
<1>0. HasMaps(m) /\ HasTables(d)
  OBVIOUS
<1>1. PICK n, e : n = [m EXCEPT !.conversations = mc] /\ e = [d EXCEPT !.conversations = dc]
  OBVIOUS
<1>2. /\ HasMaps(n) /\ n.conversations = mc /\ n.preferences = m.preferences /\ n.messages = m.messages
      /\ n.sent = m.sent /\ n.updated = m.updated /\ n.events = m.events /\ n.reactions = m.reactions
      /\ n.reads = m.reads /\ n.groups = m.groups /\ n.announcements = m.announcements
      /\ n.announcementReads = m.announcementReads
  BY ONLY <1>0, <1>1 DEF HasMaps
<1>3. /\ HasTables(e) /\ e.conversations = dc /\ e.preferences = d.preferences /\ e.messages = d.messages
      /\ e.updated = d.updated /\ e.events = d.events /\ e.reactions = d.reactions /\ e.reads = d.reads
      /\ e.groups = d.groups /\ e.members = d.members /\ e.announcements = d.announcements
      /\ e.announcementReads = d.announcementReads
  BY ONLY <1>0, <1>1 DEF HasTables
<1>4. Together(n, e, now)
  BY <1>2, <1>3 DEF Together, Shown
<1> QED BY <1>1, <1>4

LEMMA PreferencesWritten ==
    ASSUME NEW m, NEW d, NEW now, Together(m, d, now), NEW v,
           PreferencesNormal(v)
    PROVE  Together([m EXCEPT !.preferences = v], [d EXCEPT !.preferences = v], now)
<1> USE TogetherParts
<1>0. HasMaps(m) /\ HasTables(d)
  OBVIOUS
<1>1. PICK n, e : n = [m EXCEPT !.preferences = v] /\ e = [d EXCEPT !.preferences = v]
  OBVIOUS
<1>2. /\ HasMaps(n) /\ n.conversations = m.conversations /\ n.preferences = v /\ n.messages = m.messages
      /\ n.sent = m.sent /\ n.updated = m.updated /\ n.events = m.events /\ n.reactions = m.reactions
      /\ n.reads = m.reads /\ n.groups = m.groups /\ n.announcements = m.announcements
      /\ n.announcementReads = m.announcementReads
  BY ONLY <1>0, <1>1 DEF HasMaps
<1>3. /\ HasTables(e) /\ e.conversations = d.conversations /\ e.preferences = v /\ e.messages = d.messages
      /\ e.updated = d.updated /\ e.events = d.events /\ e.reactions = d.reactions /\ e.reads = d.reads
      /\ e.groups = d.groups /\ e.members = d.members /\ e.announcements = d.announcements
      /\ e.announcementReads = d.announcementReads
  BY ONLY <1>0, <1>1 DEF HasTables
<1>4. Together(n, e, now)
  BY <1>2, <1>3 DEF Together, Shown
<1> QED BY <1>1, <1>4

LEMMA ReadsWritten ==
    ASSUME NEW m, NEW d, NEW now, Together(m, d, now), NEW v,
           MarksTyped(v)
    PROVE  Together([m EXCEPT !.reads = v], [d EXCEPT !.reads = v], now)
<1> USE TogetherParts
<1>0. HasMaps(m) /\ HasTables(d)
  OBVIOUS
<1>1. PICK n, e : n = [m EXCEPT !.reads = v] /\ e = [d EXCEPT !.reads = v]
  OBVIOUS
<1>2. /\ HasMaps(n) /\ n.conversations = m.conversations /\ n.preferences = m.preferences
      /\ n.messages = m.messages /\ n.sent = m.sent /\ n.updated = m.updated /\ n.events = m.events
      /\ n.reactions = m.reactions /\ n.reads = v /\ n.groups = m.groups
      /\ n.announcements = m.announcements /\ n.announcementReads = m.announcementReads
  BY ONLY <1>0, <1>1 DEF HasMaps
<1>3. /\ HasTables(e) /\ e.conversations = d.conversations /\ e.preferences = d.preferences
      /\ e.messages = d.messages /\ e.updated = d.updated /\ e.events = d.events
      /\ e.reactions = d.reactions /\ e.reads = v /\ e.groups = d.groups /\ e.members = d.members
      /\ e.announcements = d.announcements /\ e.announcementReads = d.announcementReads
  BY ONLY <1>0, <1>1 DEF HasTables
<1>4. Together(n, e, now)
  BY <1>2, <1>3 DEF Together, Shown
<1> QED BY <1>1, <1>4

LEMMA EventsWritten ==
    ASSUME NEW m, NEW d, NEW now, Together(m, d, now), NEW v,
           EventsKeyed(v), AboutMessages(d.updated, v, d.reactions, d.messages)
    PROVE  Together([m EXCEPT !.events = v], [d EXCEPT !.events = v], now)
<1> USE TogetherParts
<1>0. HasMaps(m) /\ HasTables(d)
  OBVIOUS
<1>1. PICK n, e : n = [m EXCEPT !.events = v] /\ e = [d EXCEPT !.events = v]
  OBVIOUS
<1>2. /\ HasMaps(n) /\ n.conversations = m.conversations /\ n.preferences = m.preferences
      /\ n.messages = m.messages /\ n.sent = m.sent /\ n.updated = m.updated /\ n.events = v
      /\ n.reactions = m.reactions /\ n.reads = m.reads /\ n.groups = m.groups
      /\ n.announcements = m.announcements /\ n.announcementReads = m.announcementReads
  BY ONLY <1>0, <1>1 DEF HasMaps
<1>3. /\ HasTables(e) /\ e.conversations = d.conversations /\ e.preferences = d.preferences
      /\ e.messages = d.messages /\ e.updated = d.updated /\ e.events = v /\ e.reactions = d.reactions
      /\ e.reads = d.reads /\ e.groups = d.groups /\ e.members = d.members
      /\ e.announcements = d.announcements /\ e.announcementReads = d.announcementReads
  BY ONLY <1>0, <1>1 DEF HasTables
<1>4. Together(n, e, now)
  BY <1>2, <1>3 DEF Together, Shown
<1> QED BY <1>1, <1>4

LEMMA ReactionsWritten ==
    ASSUME NEW m, NEW d, NEW now, Together(m, d, now), NEW v,
           v \subseteq ReactionRows, IsFiniteSet(v), AboutMessages(d.updated, d.events, v, d.messages)
    PROVE  Together([m EXCEPT !.reactions = v], [d EXCEPT !.reactions = v], now)
<1> USE TogetherParts
<1>0. HasMaps(m) /\ HasTables(d)
  OBVIOUS
<1>1. PICK n, e : n = [m EXCEPT !.reactions = v] /\ e = [d EXCEPT !.reactions = v]
  OBVIOUS
<1>2. /\ HasMaps(n) /\ n.conversations = m.conversations /\ n.preferences = m.preferences
      /\ n.messages = m.messages /\ n.sent = m.sent /\ n.updated = m.updated /\ n.events = m.events
      /\ n.reactions = v /\ n.reads = m.reads /\ n.groups = m.groups /\ n.announcements = m.announcements
      /\ n.announcementReads = m.announcementReads
  BY ONLY <1>0, <1>1 DEF HasMaps
<1>3. /\ HasTables(e) /\ e.conversations = d.conversations /\ e.preferences = d.preferences
      /\ e.messages = d.messages /\ e.updated = d.updated /\ e.events = d.events /\ e.reactions = v
      /\ e.reads = d.reads /\ e.groups = d.groups /\ e.members = d.members
      /\ e.announcements = d.announcements /\ e.announcementReads = d.announcementReads
  BY ONLY <1>0, <1>1 DEF HasTables
<1>4. Together(n, e, now)
  BY <1>2, <1>3 DEF Together, Shown
<1> QED BY <1>1, <1>4

LEMMA GroupWritten ==
    ASSUME NEW m, NEW d, NEW now, Together(m, d, now), NEW mg, NEW dg,
           GroupMatches(mg, dg, d.members)
    PROVE  Together([m EXCEPT !.groups = mg], [d EXCEPT !.groups = dg], now)
<1> USE TogetherParts
<1>0. HasMaps(m) /\ HasTables(d)
  OBVIOUS
<1>1. PICK n, e : n = [m EXCEPT !.groups = mg] /\ e = [d EXCEPT !.groups = dg]
  OBVIOUS
<1>2. /\ HasMaps(n) /\ n.conversations = m.conversations /\ n.preferences = m.preferences
      /\ n.messages = m.messages /\ n.sent = m.sent /\ n.updated = m.updated /\ n.events = m.events
      /\ n.reactions = m.reactions /\ n.reads = m.reads /\ n.groups = mg
      /\ n.announcements = m.announcements /\ n.announcementReads = m.announcementReads
  BY ONLY <1>0, <1>1 DEF HasMaps
<1>3. /\ HasTables(e) /\ e.conversations = d.conversations /\ e.preferences = d.preferences
      /\ e.messages = d.messages /\ e.updated = d.updated /\ e.events = d.events
      /\ e.reactions = d.reactions /\ e.reads = d.reads /\ e.groups = dg /\ e.members = d.members
      /\ e.announcements = d.announcements /\ e.announcementReads = d.announcementReads
  BY ONLY <1>0, <1>1 DEF HasTables
<1>4. Together(n, e, now)
  BY <1>2, <1>3 DEF Together, Shown
<1> QED BY <1>1, <1>4

LEMMA MembersWritten ==
    ASSUME NEW m, NEW d, NEW now, Together(m, d, now), NEW mg, NEW dm,
           GroupMatches(mg, d.groups, dm)
    PROVE  Together([m EXCEPT !.groups = mg], [d EXCEPT !.members = dm], now)
<1> USE TogetherParts
<1>0. HasMaps(m) /\ HasTables(d)
  OBVIOUS
<1>1. PICK n, e : n = [m EXCEPT !.groups = mg] /\ e = [d EXCEPT !.members = dm]
  OBVIOUS
<1>2. /\ HasMaps(n) /\ n.conversations = m.conversations /\ n.preferences = m.preferences
      /\ n.messages = m.messages /\ n.sent = m.sent /\ n.updated = m.updated /\ n.events = m.events
      /\ n.reactions = m.reactions /\ n.reads = m.reads /\ n.groups = mg
      /\ n.announcements = m.announcements /\ n.announcementReads = m.announcementReads
  BY ONLY <1>0, <1>1 DEF HasMaps
<1>3. /\ HasTables(e) /\ e.conversations = d.conversations /\ e.preferences = d.preferences
      /\ e.messages = d.messages /\ e.updated = d.updated /\ e.events = d.events
      /\ e.reactions = d.reactions /\ e.reads = d.reads /\ e.groups = d.groups /\ e.members = dm
      /\ e.announcements = d.announcements /\ e.announcementReads = d.announcementReads
  BY ONLY <1>0, <1>1 DEF HasTables
<1>4. Together(n, e, now)
  BY <1>2, <1>3 DEF Together, Shown
<1> QED BY <1>1, <1>4

LEMMA GroupAndMembersWritten ==
    ASSUME NEW m, NEW d, NEW now, Together(m, d, now), NEW mg, NEW dg, NEW dm,
           GroupMatches(mg, dg, dm)
    PROVE  Together([m EXCEPT !.groups = mg], [d EXCEPT !.groups = dg, !.members = dm], now)
<1> USE TogetherParts
<1>0. HasMaps(m) /\ HasTables(d)
  OBVIOUS
<1>1. PICK n, e : n = [m EXCEPT !.groups = mg] /\ e = [d EXCEPT !.groups = dg, !.members = dm]
  OBVIOUS
<1>d. e = [conversations |-> d.conversations, preferences |-> d.preferences, messages |-> d.messages,
           updated |-> d.updated, events |-> d.events, reactions |-> d.reactions, reads |-> d.reads,
           groups |-> dg, members |-> dm, announcements |-> d.announcements,
           announcementReads |-> d.announcementReads]
  BY ONLY <1>0, <1>1 DEF HasTables
<1>2. /\ HasMaps(n) /\ n.conversations = m.conversations /\ n.preferences = m.preferences
      /\ n.messages = m.messages /\ n.sent = m.sent /\ n.updated = m.updated /\ n.events = m.events
      /\ n.reactions = m.reactions /\ n.reads = m.reads /\ n.groups = mg
      /\ n.announcements = m.announcements /\ n.announcementReads = m.announcementReads
  BY ONLY <1>0, <1>1 DEF HasMaps
<1>3. /\ HasTables(e) /\ e.conversations = d.conversations /\ e.preferences = d.preferences
      /\ e.messages = d.messages /\ e.updated = d.updated /\ e.events = d.events
      /\ e.reactions = d.reactions /\ e.reads = d.reads /\ e.groups = dg /\ e.members = dm
      /\ e.announcements = d.announcements /\ e.announcementReads = d.announcementReads
  BY ONLY <1>0, <1>d DEF HasTables
<1>4. Together(n, e, now)
  BY <1>2, <1>3 DEF Together, Shown
<1> QED BY <1>1, <1>4

LEMMA AnnouncementsWritten ==
    ASSUME NEW m, NEW d, NEW now, Together(m, d, now), NEW v,
           AnnouncementsKept(v, d.announcementReads)
    PROVE  Together([m EXCEPT !.announcements = v], [d EXCEPT !.announcements = v], now)
<1> USE TogetherParts
<1>0. HasMaps(m) /\ HasTables(d)
  OBVIOUS
<1>1. PICK n, e : n = [m EXCEPT !.announcements = v] /\ e = [d EXCEPT !.announcements = v]
  OBVIOUS
<1>2. /\ HasMaps(n) /\ n.conversations = m.conversations /\ n.preferences = m.preferences
      /\ n.messages = m.messages /\ n.sent = m.sent /\ n.updated = m.updated /\ n.events = m.events
      /\ n.reactions = m.reactions /\ n.reads = m.reads /\ n.groups = m.groups /\ n.announcements = v
      /\ n.announcementReads = m.announcementReads
  BY ONLY <1>0, <1>1 DEF HasMaps
<1>3. /\ HasTables(e) /\ e.conversations = d.conversations /\ e.preferences = d.preferences
      /\ e.messages = d.messages /\ e.updated = d.updated /\ e.events = d.events
      /\ e.reactions = d.reactions /\ e.reads = d.reads /\ e.groups = d.groups /\ e.members = d.members
      /\ e.announcements = v /\ e.announcementReads = d.announcementReads
  BY ONLY <1>0, <1>1 DEF HasTables
<1>4. Together(n, e, now)
  BY <1>2, <1>3 DEF Together, Shown
<1> QED BY <1>1, <1>4

LEMMA AnnouncementReadsWritten ==
    ASSUME NEW m, NEW d, NEW now, Together(m, d, now), NEW v,
           AnnouncementsKept(d.announcements, v)
    PROVE  Together([m EXCEPT !.announcementReads = v], [d EXCEPT !.announcementReads = v], now)
<1> USE TogetherParts
<1>0. HasMaps(m) /\ HasTables(d)
  OBVIOUS
<1>1. PICK n, e : n = [m EXCEPT !.announcementReads = v] /\ e = [d EXCEPT !.announcementReads = v]
  OBVIOUS
<1>2. /\ HasMaps(n) /\ n.conversations = m.conversations /\ n.preferences = m.preferences
      /\ n.messages = m.messages /\ n.sent = m.sent /\ n.updated = m.updated /\ n.events = m.events
      /\ n.reactions = m.reactions /\ n.reads = m.reads /\ n.groups = m.groups
      /\ n.announcements = m.announcements /\ n.announcementReads = v
  BY ONLY <1>0, <1>1 DEF HasMaps
<1>3. /\ HasTables(e) /\ e.conversations = d.conversations /\ e.preferences = d.preferences
      /\ e.messages = d.messages /\ e.updated = d.updated /\ e.events = d.events
      /\ e.reactions = d.reactions /\ e.reads = d.reads /\ e.groups = d.groups /\ e.members = d.members
      /\ e.announcements = d.announcements /\ e.announcementReads = v
  BY ONLY <1>0, <1>1 DEF HasTables
<1>4. Together(n, e, now)
  BY <1>2, <1>3 DEF Together, Shown
<1> QED BY <1>1, <1>4

LEMMA AnnouncementsDeleted ==
    ASSUME NEW m, NEW d, NEW now, Together(m, d, now), NEW v, NEW w,
           AnnouncementsKept(v, w)
    PROVE  Together([m EXCEPT !.announcements = v, !.announcementReads = w], [d EXCEPT !.announcementReads = w, !.announcements = v], now)
<1> USE TogetherParts
<1>0. HasMaps(m) /\ HasTables(d)
  OBVIOUS
<1>1. PICK n, e : n = [m EXCEPT !.announcements = v, !.announcementReads = w] /\ e = [d EXCEPT !.announcementReads = w, !.announcements = v]
  OBVIOUS
<1>m. n = [conversations |-> m.conversations, preferences |-> m.preferences, messages |-> m.messages,
           sent |-> m.sent, updated |-> m.updated, events |-> m.events, reactions |-> m.reactions,
           reads |-> m.reads, groups |-> m.groups, announcements |-> v, announcementReads |-> w]
  BY ONLY <1>0, <1>1 DEF HasMaps
<1>d. e = [conversations |-> d.conversations, preferences |-> d.preferences, messages |-> d.messages,
           updated |-> d.updated, events |-> d.events, reactions |-> d.reactions, reads |-> d.reads,
           groups |-> d.groups, members |-> d.members, announcements |-> v, announcementReads |-> w]
  BY ONLY <1>0, <1>1 DEF HasTables
<1>2. /\ HasMaps(n) /\ n.conversations = m.conversations /\ n.preferences = m.preferences
      /\ n.messages = m.messages /\ n.sent = m.sent /\ n.updated = m.updated /\ n.events = m.events
      /\ n.reactions = m.reactions /\ n.reads = m.reads /\ n.groups = m.groups /\ n.announcements = v
      /\ n.announcementReads = w
  BY ONLY <1>0, <1>m DEF HasMaps
<1>3. /\ HasTables(e) /\ e.conversations = d.conversations /\ e.preferences = d.preferences
      /\ e.messages = d.messages /\ e.updated = d.updated /\ e.events = d.events
      /\ e.reactions = d.reactions /\ e.reads = d.reads /\ e.groups = d.groups /\ e.members = d.members
      /\ e.announcements = v /\ e.announcementReads = w
  BY ONLY <1>0, <1>d DEF HasTables
<1>4. Together(n, e, now)
  BY <1>2, <1>3 DEF Together, Shown
<1> QED BY <1>1, <1>4

LEMMA MessagesWritten ==
    ASSUME NEW m, NEW d, NEW now, Together(m, d, now), NEW mm, NEW dm,
           MessagesMatch(mm, dm, now), KeysMatch(m.sent, dm),
           AboutMessages(d.updated, d.events, d.reactions, dm)
    PROVE  Together([m EXCEPT !.messages = mm], [d EXCEPT !.messages = dm], now)
<1> USE TogetherParts
<1>0. HasMaps(m) /\ HasTables(d)
  OBVIOUS
<1>1. PICK n, e : n = [m EXCEPT !.messages = mm] /\ e = [d EXCEPT !.messages = dm]
  OBVIOUS
<1>2. /\ HasMaps(n) /\ n.conversations = m.conversations /\ n.preferences = m.preferences
      /\ n.messages = mm /\ n.sent = m.sent /\ n.updated = m.updated /\ n.events = m.events
      /\ n.reactions = m.reactions /\ n.reads = m.reads /\ n.groups = m.groups
      /\ n.announcements = m.announcements /\ n.announcementReads = m.announcementReads
  BY ONLY <1>0, <1>1 DEF HasMaps
<1>3. /\ HasTables(e) /\ e.conversations = d.conversations /\ e.preferences = d.preferences
      /\ e.messages = dm /\ e.updated = d.updated /\ e.events = d.events /\ e.reactions = d.reactions
      /\ e.reads = d.reads /\ e.groups = d.groups /\ e.members = d.members
      /\ e.announcements = d.announcements /\ e.announcementReads = d.announcementReads
  BY ONLY <1>0, <1>1 DEF HasTables
<1>4. Together(n, e, now)
  BY <1>2, <1>3 DEF Together, Shown
<1> QED BY <1>1, <1>4

LEMMA UpdatedWritten ==
    ASSUME NEW m, NEW d, NEW now, Together(m, d, now), NEW v,
           AboutMessages(v, d.events, d.reactions, d.messages)
    PROVE  Together([m EXCEPT !.updated = v], [d EXCEPT !.updated = v], now)
<1> USE TogetherParts
<1>0. HasMaps(m) /\ HasTables(d)
  OBVIOUS
<1>1. PICK n, e : n = [m EXCEPT !.updated = v] /\ e = [d EXCEPT !.updated = v]
  OBVIOUS
<1>2. /\ HasMaps(n) /\ n.conversations = m.conversations /\ n.preferences = m.preferences
      /\ n.messages = m.messages /\ n.sent = m.sent /\ n.updated = v /\ n.events = m.events
      /\ n.reactions = m.reactions /\ n.reads = m.reads /\ n.groups = m.groups
      /\ n.announcements = m.announcements /\ n.announcementReads = m.announcementReads
  BY ONLY <1>0, <1>1 DEF HasMaps
<1>3. /\ HasTables(e) /\ e.conversations = d.conversations /\ e.preferences = d.preferences
      /\ e.messages = d.messages /\ e.updated = v /\ e.events = d.events /\ e.reactions = d.reactions
      /\ e.reads = d.reads /\ e.groups = d.groups /\ e.members = d.members
      /\ e.announcements = d.announcements /\ e.announcementReads = d.announcementReads
  BY ONLY <1>0, <1>1 DEF HasTables
<1>4. Together(n, e, now)
  BY <1>2, <1>3 DEF Together, Shown
<1> QED BY <1>1, <1>4

LEMMA MessagesAndKeysWritten ==
    ASSUME NEW m, NEW d, NEW now, Together(m, d, now), NEW mm, NEW ms, NEW dm,
           MessagesMatch(mm, dm, now), KeysMatch(ms, dm),
           AboutMessages(d.updated, d.events, d.reactions, dm)
    PROVE  Together([[m EXCEPT !.messages = mm] EXCEPT !.sent = ms], [d EXCEPT !.messages = dm], now)
<1> USE TogetherParts
<1>0. HasMaps(m) /\ HasTables(d)
  OBVIOUS
<1>1. PICK n, e : n = [[m EXCEPT !.messages = mm] EXCEPT !.sent = ms] /\ e = [d EXCEPT !.messages = dm]
  OBVIOUS
<1>m. n = [conversations |-> m.conversations, preferences |-> m.preferences, messages |-> mm, sent |-> ms,
           updated |-> m.updated, events |-> m.events, reactions |-> m.reactions, reads |-> m.reads,
           groups |-> m.groups, announcements |-> m.announcements,
           announcementReads |-> m.announcementReads]
  BY ONLY <1>0, <1>1 DEF HasMaps
<1>2. /\ HasMaps(n) /\ n.conversations = m.conversations /\ n.preferences = m.preferences
      /\ n.messages = mm /\ n.sent = ms /\ n.updated = m.updated /\ n.events = m.events
      /\ n.reactions = m.reactions /\ n.reads = m.reads /\ n.groups = m.groups
      /\ n.announcements = m.announcements /\ n.announcementReads = m.announcementReads
  BY ONLY <1>0, <1>m DEF HasMaps
<1>3. /\ HasTables(e) /\ e.conversations = d.conversations /\ e.preferences = d.preferences
      /\ e.messages = dm /\ e.updated = d.updated /\ e.events = d.events /\ e.reactions = d.reactions
      /\ e.reads = d.reads /\ e.groups = d.groups /\ e.members = d.members
      /\ e.announcements = d.announcements /\ e.announcementReads = d.announcementReads
  BY ONLY <1>0, <1>1 DEF HasTables
<1>4. Together(n, e, now)
  BY <1>2, <1>3 DEF Together, Shown
<1> QED BY <1>1, <1>4

(* Conversations and preferences *)

LEMMA OneRow ==
    ASSUME NEW x, x # Nothing
    PROVE  TheRow({x}) = x
BY DEF TheRow

LEMMA ConversationsSaved ==
    ASSUME NEW m, NEW d, NEW now, Together(m, d, now)
    PROVE  Sound(MemorySaveConversation(m, PrivateChat, "private", People),
                 SQLiteSaveConversation(d, PrivateChat, "private", People), now)
<1> USE TogetherParts, StoreAssumption
<1>1. PICK mc, dc : /\ mc = Put(m.conversations, PrivateChat, [kind |-> "private", people |-> People])
                    /\ dc = {r \in d.conversations : r.id # PrivateChat} \cup
                              {[id |-> PrivateChat, kind |-> "private", people |-> People]}
  OBVIOUS
<1>2. ConversationsMatch(mc, dc) /\ TheGroup \in DOMAIN mc
  <2>1. DOMAIN mc = DOMAIN m.conversations \cup {PrivateChat}
    BY <1>1 DEF Put
  <2>2. DOMAIN mc \subseteq Places
    BY <2>1 DEF ConversationsMatch, Places
  <2>3. ASSUME NEW c \in DOMAIN mc PROVE mc[c] = SavedConversation(c)
    <3>1. mc[c] = IF c = PrivateChat THEN [kind |-> "private", people |-> People] ELSE m.conversations[c]
      BY <1>1, <2>1 DEF Put
    <3>2. CASE c = PrivateChat
      BY <3>1, <3>2 DEF SavedConversation
    <3>3. CASE c # PrivateChat
      BY <2>1, <3>1, <3>3 DEF ConversationsMatch
    <3> QED BY <3>2, <3>3
  <2>4. PICK row : row = [id |-> PrivateChat, kind |-> "private", people |-> People]
    OBVIOUS
  <2>5. SavedRow(PrivateChat) = row /\ \A c : SavedRow(c).id = c
    BY <2>4 DEF SavedRow
  <2>6. dc = {r \in d.conversations : r.id # PrivateChat} \cup {row}
    BY <1>1, <2>4
  <2>7. d.conversations = {SavedRow(c) : c \in DOMAIN m.conversations}
    BY DEF ConversationsMatch
  <2>8. dc = {SavedRow(c) : c \in DOMAIN mc}
    BY ONLY <2>1, <2>5, <2>6, <2>7
  <2> QED BY <2>1, <2>2, <2>3, <2>8 DEF ConversationsMatch
<1>3. Together([m EXCEPT !.conversations = mc], [d EXCEPT !.conversations = dc], now)
  BY <1>2, ConversationsWritten
<1>4. /\ MemorySaveConversation(m, PrivateChat, "private", People) = Reply([m EXCEPT !.conversations = mc], Accepted)
      /\ SQLiteSaveConversation(d, PrivateChat, "private", People) = Reply([d EXCEPT !.conversations = dc], Accepted)
  BY <1>1 DEF MemorySaveConversation, SQLiteSaveConversation
<1> QED BY <1>3, <1>4, SoundReply

LEMMA ConversationFound ==
    ASSUME NEW m, NEW d, NEW now, Together(m, d, now), NEW c \in DOMAIN m.conversations, NEW kind
    PROVE  Sound(MemoryGetOrCreateConversation(m, c, kind), SQLiteGetOrCreateConversation(d, c, kind), now)
<1> USE TogetherParts
<1>1. {r \in d.conversations : r.id = c} = {SavedRow(c)}
  <2>1. d.conversations = {SavedRow(x) : x \in DOMAIN m.conversations}
    BY DEF ConversationsMatch
  <2>2. \A x : SavedRow(x).id = x
    BY DEF SavedRow
  <2> QED BY ONLY <2>1, <2>2, c \in DOMAIN m.conversations
<1>2. SavedRow(c) \in ConversationRows
  <2>1. c \in Places /\ {} \in SUBSET People /\ People \in SUBSET People
    BY DEF ConversationsMatch
  <2> QED BY ONLY <2>1 DEF SavedRow, ConversationRows
<1>3. ConversationRow(d, c) = SavedRow(c) /\ ConversationRow(d, c) # Nothing
  BY <1>1, <1>2, OneRow, StoreAssumption DEF ConversationRow
<1>4. m.conversations[c] = SQLiteGetConversation(d, c)
  BY <1>3 DEF SQLiteGetConversation, ConversationsMatch, SavedConversation, SavedRow
<1>5. /\ MemoryGetOrCreateConversation(m, c, kind) = Reply(m, m.conversations[c])
      /\ SQLiteGetOrCreateConversation(d, c, kind) = Reply(d, SQLiteGetConversation(d, c))
  BY <1>3 DEF MemoryGetOrCreateConversation, SQLiteGetOrCreateConversation
<1> QED BY <1>4, <1>5, SoundReply

LEMMA PreferenceSet ==
    ASSUME NEW m, NEW d, NEW now, Together(m, d, now), NEW c \in Places, NEW u \in People, NEW level, NEW muted
    PROVE  Sound(MemorySetConversationPreference(m, c, u, level, muted),
                 SQLiteSetConversationPreference(d, c, u, level, muted), now)
<1> USE TogetherParts
<1>1. PICK normal : normal = NormalizeNotificationLevel(level, muted)
  OBVIOUS
<1>2. normal \in {"normal", "mentions_only", "muted"}
  BY <1>1 DEF NormalizeNotificationLevel
<1>3. PICK row : row = [conversation |-> c, user |-> u, level |-> normal, muted |-> normal = "muted"]
  OBVIOUS
<1>4. PICK v : v = {p \in d.preferences : p.conversation # c \/ p.user # u} \cup {row}
  OBVIOUS
<1>5. row \in PreferenceRows /\ row.muted = (row.level = "muted")
  BY <1>2, <1>3 DEF PreferenceRows
<1>6. PreferencesNormal(v)
  BY <1>4, <1>5 DEF PreferencesNormal
<1>7. Together([m EXCEPT !.preferences = v], [d EXCEPT !.preferences = v], now)
  BY <1>6, PreferencesWritten
<1>8. /\ MemorySetConversationPreference(m, c, u, level, muted) = Reply([m EXCEPT !.preferences = v], Accepted)
      /\ SQLiteSetConversationPreference(d, c, u, level, muted) = Reply([d EXCEPT !.preferences = v], Accepted)
  BY <1>1, <1>3, <1>4 DEF MemorySetConversationPreference, SQLiteSetConversationPreference
<1> QED BY <1>7, <1>8, SoundReply

(* Announcements *)

LEMMA AnnouncementCreated ==
    ASSUME NEW m, NEW d, NEW now \in Nat, Together(m, d, now), NEW pinned \in BOOLEAN
    PROVE  Sound(MemoryCreateGroupAnnouncement(m, TheGroup, "news", pinned, now),
                 SQLiteCreateGroupAnnouncement(d, TheGroup, "news", pinned, now), now)
<1> USE TogetherParts
<1>1. PICK row : row = [id |-> now, group |-> TheGroup, content |-> "news", pinned |-> pinned, at |-> now]
  OBVIOUS
<1>2. PICK v : v = d.announcements \cup {row}
  OBVIOUS
<1>3. row \in AnnouncementRows
  BY <1>1 DEF AnnouncementRows
<1>4. AnnouncementsKept(v, d.announcementReads)
  BY <1>2, <1>3 DEF AnnouncementsKept
<1>5. Together([m EXCEPT !.announcements = v], [d EXCEPT !.announcements = v], now)
  BY <1>4, AnnouncementsWritten
<1>6. TheGroup \in DOMAIN m.groups
  BY DEF GroupMatches
<1>7. /\ MemoryCreateGroupAnnouncement(m, TheGroup, "news", pinned, now) = Reply([m EXCEPT !.announcements = v], now)
      /\ SQLiteCreateGroupAnnouncement(d, TheGroup, "news", pinned, now) = Reply([d EXCEPT !.announcements = v], now)
  BY <1>1, <1>2, <1>6 DEF MemoryCreateGroupAnnouncement, SQLiteCreateGroupAnnouncement
<1> QED BY <1>5, <1>7, SoundReply

LEMMA AnnouncementUpdated ==
    ASSUME NEW m, NEW d, NEW now \in Nat, Together(m, d, now), NEW pinned \in BOOLEAN, NEW id
    PROVE  Sound(MemoryUpdateGroupAnnouncement(m, id, "update", pinned, now),
                 SQLiteUpdateGroupAnnouncement(d, id, "update", pinned, now), now)
<1> USE TogetherParts
<1>1. PICK v : v = {IF a.id = id THEN [a EXCEPT !.content = "update", !.pinned = pinned, !.at = now] ELSE a
                      : a \in d.announcements}
  OBVIOUS
<1>2. ASSUME NEW a \in AnnouncementRows, NEW b,
             b = IF a.id = id THEN [a EXCEPT !.content = "update", !.pinned = pinned, !.at = now] ELSE a
      PROVE  b \in AnnouncementRows /\ b.id = a.id
  BY ONLY <1>2, now \in Nat, pinned \in BOOLEAN DEF AnnouncementRows
<1>3. d.announcements \subseteq AnnouncementRows
  BY DEF AnnouncementsKept
<1>4. AnnouncementsKept(v, d.announcementReads)
  <2>1. v \subseteq AnnouncementRows
    BY ONLY <1>1, <1>2, <1>3
  <2>2. ASSUME NEW a \in d.announcements PROVE \E b \in v : b.id = a.id
    <3>1. PICK b : b = IF a.id = id THEN [a EXCEPT !.content = "update", !.pinned = pinned, !.at = now] ELSE a
      OBVIOUS
    <3>2. b \in v
      BY ONLY <1>1, <3>1, a \in d.announcements
    <3> QED BY <1>2, <1>3, <3>1, <3>2
  <2> QED BY <2>1, <2>2 DEF AnnouncementsKept
<1>5. Together([m EXCEPT !.announcements = v], [d EXCEPT !.announcements = v], now)
  BY <1>4, AnnouncementsWritten
<1>6. CASE \E a \in d.announcements : a.id = id
  <2>1. /\ MemoryUpdateGroupAnnouncement(m, id, "update", pinned, now) = Reply([m EXCEPT !.announcements = v], id)
        /\ SQLiteUpdateGroupAnnouncement(d, id, "update", pinned, now) = Reply([d EXCEPT !.announcements = v], id)
    BY <1>1, <1>6 DEF MemoryUpdateGroupAnnouncement, SQLiteUpdateGroupAnnouncement
  <2> QED BY <1>5, <2>1, SoundReply
<1>7. CASE ~ \E a \in d.announcements : a.id = id
  <2>1. /\ MemoryUpdateGroupAnnouncement(m, id, "update", pinned, now) = Reply(m, Nothing)
        /\ SQLiteUpdateGroupAnnouncement(d, id, "update", pinned, now) = Reply(d, Nothing)
    BY <1>7 DEF MemoryUpdateGroupAnnouncement, SQLiteUpdateGroupAnnouncement
  <2> QED BY <2>1, SoundReply
<1> QED BY <1>6, <1>7

LEMMA AnnouncementDeleted ==
    ASSUME NEW m, NEW d, NEW now, Together(m, d, now), NEW id
    PROVE  Sound(MemoryDeleteGroupAnnouncement(m, id), SQLiteDeleteGroupAnnouncement(d, id), now)
<1> USE TogetherParts
<1>1. PICK v, w : /\ v = {a \in d.announcements : a.id # id}
                  /\ w = {x \in d.announcementReads : x.announcement # id}
  OBVIOUS
<1>2. AnnouncementsKept(v, w)
  BY <1>1 DEF AnnouncementsKept
<1>3. PICK n, e : /\ n = [m EXCEPT !.announcements = v, !.announcementReads = w]
                  /\ e = [d EXCEPT !.announcementReads = w, !.announcements = v]
  OBVIOUS
<1>4. Together(n, e, now)
  BY <1>2, <1>3, AnnouncementsDeleted
<1>5. SQLiteDeleteGroupAnnouncement(d, id) = Reply(e, \E a \in d.announcements : a.id = id)
  BY <1>1, <1>3 DEF SQLiteDeleteGroupAnnouncement
<1>6. CASE \E a \in d.announcements : a.id = id
  <2>1. MemoryDeleteGroupAnnouncement(m, id) = Reply(n, TRUE)
    BY <1>1, <1>3, <1>6 DEF MemoryDeleteGroupAnnouncement
  <2>2. (\E a \in d.announcements : a.id = id) = TRUE
    BY <1>6
  <2> QED BY <1>4, <1>5, <2>1, <2>2, SoundReply
<1>7. CASE ~ \E a \in d.announcements : a.id = id
  <2>1. MemoryDeleteGroupAnnouncement(m, id) = Reply(m, FALSE)
    BY <1>7 DEF MemoryDeleteGroupAnnouncement
  <2>2. (\E a \in d.announcements : a.id = id) = FALSE
    BY <1>7
  <2>3. v = d.announcements /\ w = d.announcementReads
    BY <1>1, <1>7 DEF AnnouncementsKept
  <2>4. e = d
    BY ONLY <1>3, <2>3, HasTables(d) DEF HasTables
  <2> QED BY <1>5, <2>1, <2>2, <2>4, SoundReply
<1> QED BY <1>6, <1>7

LEMMA AnnouncementMarked ==
    ASSUME NEW m, NEW d, NEW now, Together(m, d, now), NEW id \in Nat, NEW u \in People,
           \E a \in m.announcements : a.id = id
    PROVE  Sound(MemoryMarkGroupAnnouncementRead(m, id, u), SQLiteMarkGroupAnnouncementRead(d, id, u), now)
<1> USE TogetherParts
<1>1. PICK w : w = d.announcementReads \cup {[announcement |-> id, user |-> u]}
  OBVIOUS
<1>2. AnnouncementsKept(d.announcements, w)
  BY <1>1 DEF AnnouncementsKept, MarkRows
<1>3. Together([m EXCEPT !.announcementReads = w], [d EXCEPT !.announcementReads = w], now)
  BY <1>2, AnnouncementReadsWritten
<1>4. /\ MemoryMarkGroupAnnouncementRead(m, id, u) = Reply([m EXCEPT !.announcementReads = w], Accepted)
      /\ SQLiteMarkGroupAnnouncementRead(d, id, u) = Reply([d EXCEPT !.announcementReads = w], Accepted)
  BY <1>1 DEF MemoryMarkGroupAnnouncementRead, SQLiteMarkGroupAnnouncementRead
<1> QED BY <1>3, <1>4, SoundReply

(* Groups *)

StoredMembers == [user : People, role : {"owner", "admin", "member"}, muted : BOOLEAN]

LEMMA GroupFacts ==
    ASSUME NEW m, NEW d, NEW now, Together(m, d, now)
    PROVE  /\ DOMAIN m.groups = {TheGroup} /\ m.groups[TheGroup] \in StoredGroups
           /\ m.groups[TheGroup].members \subseteq StoredMembers
           /\ OneOwner(m.groups[TheGroup])
           /\ d.groups = {GroupRowOf(m.groups[TheGroup])}
           /\ d.members = {MemberRowOf(x) : x \in m.groups[TheGroup].members}
           /\ \A u : SQLiteIsGroupMember(d, TheGroup, u) <=> MemoryIsGroupMember(m, TheGroup, u)
           /\ \A u : MemoryIsGroupMember(m, TheGroup, u) <=> \E x \in m.groups[TheGroup].members : x.user = u
           /\ GroupRow(d, TheGroup) = GroupRowOf(m.groups[TheGroup]) /\ GroupRow(d, TheGroup) # Nothing
<1>1. GroupMatches(m.groups, d.groups, d.members)
  BY TogetherParts
<1>2. PICK g : g = m.groups[TheGroup]
  OBVIOUS
<1>3. /\ DOMAIN m.groups = {TheGroup} /\ g \in StoredGroups /\ OneOwner(g)
      /\ d.groups = {GroupRowOf(g)} /\ d.members = {MemberRowOf(x) : x \in g.members}
  BY <1>1, <1>2 DEF GroupMatches
<1>4. g.members \subseteq StoredMembers
  BY <1>3 DEF StoredGroups, StoredMembers
<1>5. ASSUME NEW u
      PROVE  /\ SQLiteIsGroupMember(d, TheGroup, u) <=> MemoryIsGroupMember(m, TheGroup, u)
             /\ MemoryIsGroupMember(m, TheGroup, u) <=> \E x \in g.members : x.user = u
  <2>1. MemoryIsGroupMember(m, TheGroup, u) <=> \E x \in g.members : x.user = u
    BY <1>2, <1>3 DEF MemoryIsGroupMember
  <2>2. \A x : MemberRowOf(x).group = TheGroup /\ MemberRowOf(x).user = x.user
    BY DEF MemberRowOf
  <2>3. SQLiteIsGroupMember(d, TheGroup, u) <=> \E x \in g.members : x.user = u
    BY <1>3, <2>2 DEF SQLiteIsGroupMember
  <2> QED BY <2>1, <2>3
<1>6. GroupRowOf(g) \in ChatGroupRows /\ GroupRowOf(g).id = TheGroup
  BY <1>3 DEF GroupRowOf, ChatGroupRows, StoredGroups
<1>7. {r \in d.groups : r.id = TheGroup} = {GroupRowOf(g)}
  BY <1>3, <1>6
<1>8. GroupRow(d, TheGroup) = GroupRowOf(g) /\ GroupRow(d, TheGroup) # Nothing
  BY <1>6, <1>7, OneRow, StoreAssumption DEF GroupRow
<1> QED BY <1>2, <1>3, <1>4, <1>5, <1>8

LEMMA RowRewritten ==
    ASSUME NEW i, NEW o, NEW b, NEW a, NEW c, NEW w, NEW r, NEW e,
           r = [id |-> i, owner |-> o, muteAll |-> b, announcement |-> a],
           e = [r EXCEPT !.announcement = c, !.muteAll = w]
    PROVE  e = [id |-> i, owner |-> o, muteAll |-> w, announcement |-> c]
OBVIOUS

LEMMA GroupUpdated ==
    ASSUME NEW m, NEW d, NEW now, Together(m, d, now), NEW text \in {Empty, "news"}, NEW muteAll \in BOOLEAN
    PROVE  Sound(MemoryUpdateGroup(m, TheGroup, text, muteAll),
                 SQLiteUpdateGroup(d, TheGroup, text, muteAll), now)
<1> USE GroupFacts
<1>1. PICK g, h : g = m.groups[TheGroup] /\ h = [g EXCEPT !.announcement = text, !.muteAll = muteAll]
  OBVIOUS
<1>2. PICK mg : mg = [m.groups EXCEPT ![TheGroup] = h]
  OBVIOUS
<1>3. g \in StoredGroups
  BY <1>1
<1>4. h \in StoredGroups /\ h.owner = g.owner /\ h.members = g.members /\ h.announcement = text /\ h.muteAll = muteAll
  BY ONLY <1>1, <1>3, text \in {Empty, "news"}, muteAll \in BOOLEAN DEF StoredGroups
<1>5. DOMAIN mg = {TheGroup} /\ mg[TheGroup] = h
  BY <1>2
<1>6. PICK dg : dg = {IF r.id = TheGroup THEN [r EXCEPT !.announcement = text, !.muteAll = muteAll] ELSE r : r \in d.groups}
  OBVIOUS
<1>7. dg = {GroupRowOf(h)}
  <2>1. PICK r : r = GroupRowOf(g)
    OBVIOUS
  <2>2. d.groups = {r}
    BY <1>1, <2>1
  <2>3. r.id = TheGroup /\ [r EXCEPT !.announcement = text, !.muteAll = muteAll] = GroupRowOf(h)
    <3>1. PICK o, b, a : r = [id |-> TheGroup, owner |-> o, muteAll |-> b, announcement |-> a] /\ o = h.owner
      BY ONLY <1>4, <2>1 DEF GroupRowOf
    <3>2. [r EXCEPT !.announcement = text, !.muteAll = muteAll]
            = [id |-> TheGroup, owner |-> o, muteAll |-> muteAll, announcement |-> text]
      <4>1. PICK e : e = [r EXCEPT !.announcement = text, !.muteAll = muteAll]
        OBVIOUS
      <4>2. e = [id |-> TheGroup, owner |-> o, muteAll |-> muteAll, announcement |-> text]
        BY ONLY <3>1, <4>1, RowRewritten, Zenon
      <4> QED BY ONLY <4>1, <4>2, Zenon
    <3>3. GroupRowOf(h) = [id |-> TheGroup, owner |-> o, muteAll |-> muteAll, announcement |-> text]
      BY ONLY <1>4, <3>1 DEF GroupRowOf
    <3> QED BY ONLY <3>1, <3>2, <3>3
  <2> QED BY ONLY <1>6, <2>2, <2>3
<1>8. OneOwner(h)
  BY <1>1, <1>4 DEF OneOwner
<1>9. GroupMatches(mg, dg, d.members)
  BY <1>1, <1>4, <1>5, <1>7, <1>8 DEF GroupMatches
<1>10. Together([m EXCEPT !.groups = mg], [d EXCEPT !.groups = dg], now)
  BY <1>9, GroupWritten
<1>11. [m EXCEPT !.groups[TheGroup] = [@ EXCEPT !.announcement = text, !.muteAll = muteAll]]
         = [m EXCEPT !.groups = mg]
  BY ONLY <1>1, <1>2
<1>12. /\ MemoryUpdateGroup(m, TheGroup, text, muteAll) = Reply([m EXCEPT !.groups = mg], Accepted)
       /\ SQLiteUpdateGroup(d, TheGroup, text, muteAll) = Reply([d EXCEPT !.groups = dg], Accepted)
  BY <1>6, <1>11 DEF MemoryUpdateGroup, SQLiteUpdateGroup
<1> QED BY ONLY <1>10, <1>12, SoundReply

\* The members of the group are others.
LEMMA NewMembers ==
    ASSUME NEW m, NEW d, NEW now, Together(m, d, now), NEW M, NEW D, M \subseteq StoredMembers,
           D = {MemberRowOf(x) : x \in M},
           \E x \in M : x.user = m.groups[TheGroup].owner,
           \A x \in M : x.role = "owner" <=> x.user = m.groups[TheGroup].owner
    PROVE  Together([m EXCEPT !.groups[TheGroup].members = M], [d EXCEPT !.members = D], now)
<1> USE GroupFacts
<1>1. PICK g, h : g = m.groups[TheGroup] /\ h = [g EXCEPT !.members = M]
  OBVIOUS
<1>2. PICK mg : mg = [m.groups EXCEPT ![TheGroup] = h]
  OBVIOUS
<1>3. g \in StoredGroups
  BY <1>1
<1>4. h \in StoredGroups /\ h.owner = g.owner /\ h.members = M /\ GroupRowOf(h) = GroupRowOf(g)
  BY ONLY <1>1, <1>3, M \subseteq StoredMembers DEF StoredGroups, StoredMembers, GroupRowOf
<1>5. DOMAIN mg = {TheGroup} /\ mg[TheGroup] = h
  BY <1>2
<1>6. OneOwner(h)
  BY <1>1, <1>4 DEF OneOwner
<1>7. GroupMatches(mg, d.groups, D)
  BY <1>1, <1>4, <1>5, <1>6 DEF GroupMatches
<1>8. Together([m EXCEPT !.groups = mg], [d EXCEPT !.members = D], now)
  BY <1>7, MembersWritten
<1>9. [m EXCEPT !.groups[TheGroup].members = M] = [m EXCEPT !.groups = mg]
  BY ONLY <1>1, <1>2
<1> QED BY <1>8, <1>9

LEMMA RoleSet ==
    ASSUME NEW m, NEW d, NEW now, Together(m, d, now), NEW u \in People, NEW role \in {"admin", "member"},
           ~ \E x \in d.members : x.user = u /\ x.role = "owner"
    PROVE  Sound(MemorySetGroupMemberRole(m, TheGroup, u, role), SQLiteSetGroupMemberRole(d, TheGroup, u, role), now)
<1> USE GroupFacts
<1>1. PICK N : N = m.groups[TheGroup].members
  OBVIOUS
<1>2. PICK M : M = {IF x.user = u THEN [x EXCEPT !.role = role] ELSE x : x \in N}
  OBVIOUS
<1>3. ASSUME NEW x \in StoredMembers, NEW y, y = IF x.user = u THEN [x EXCEPT !.role = role] ELSE x
      PROVE  /\ y \in StoredMembers /\ y.user = x.user /\ (x.user = u => y.role = role) /\ (x.user # u => y = x)
             /\ MemberRowOf(y) = IF MemberRowOf(x).group = TheGroup /\ MemberRowOf(x).user = u
                                   THEN [MemberRowOf(x) EXCEPT !.role = role] ELSE MemberRowOf(x)
  BY ONLY <1>3, role \in {"admin", "member"} DEF StoredMembers, MemberRowOf
<1>4. PICK o : o = m.groups[TheGroup].owner
  OBVIOUS
<1>5. /\ N \subseteq StoredMembers /\ d.members = {MemberRowOf(x) : x \in N}
      /\ \E x \in N : x.user = o
      /\ \A x \in N : x.role = "owner" <=> x.user = o
  BY <1>1, <1>4 DEF OneOwner
<1>6. u # o
  <2>1. PICK x \in N : x.user = o /\ x.role = "owner"
    BY <1>5
  <2>2. MemberRowOf(x) \in d.members /\ MemberRowOf(x).user = o /\ MemberRowOf(x).role = "owner"
    BY ONLY <1>5, <2>1 DEF MemberRowOf
  <2> QED BY <2>2
<1>7. /\ M \subseteq StoredMembers /\ \E x \in M : x.user = o
      /\ \A x \in M : x.role = "owner" <=> x.user = o
  <2>1. ASSUME NEW y \in M PROVE y \in StoredMembers /\ (y.role = "owner" <=> y.user = o)
    <3>1. PICK x \in N : y = IF x.user = u THEN [x EXCEPT !.role = role] ELSE x
      BY ONLY <1>2, y \in M
    <3> QED BY ONLY <1>3, <1>5, <1>6, <3>1, role \in {"admin", "member"}
  <2>2. PICK x \in N : x.user = o
    BY <1>5
  <2>3. x \in M
    BY ONLY <1>2, <1>6, <2>2
  <2> QED BY ONLY <2>1, <2>2, <2>3
<1>8. {MemberRowOf(x) : x \in M} = RoleUpdated(d.members, TheGroup, u, role)
  <2>1. PICK F, H : /\ F = [x \in N |-> IF x.user = u THEN [x EXCEPT !.role = role] ELSE x]
                    /\ H = [x \in N |-> IF MemberRowOf(x).group = TheGroup /\ MemberRowOf(x).user = u
                                          THEN [MemberRowOf(x) EXCEPT !.role = role] ELSE MemberRowOf(x)]
    OBVIOUS
  <2>2. \A x \in N : MemberRowOf(F[x]) = H[x]
    BY ONLY <1>3, <1>5, <2>1
  <2>3. M = {F[x] : x \in N}
    BY ONLY <1>2, <2>1
  <2>4. RoleUpdated(d.members, TheGroup, u, role) = {H[x] : x \in N}
    BY ONLY <1>5, <2>1 DEF RoleUpdated
  <2> QED BY ONLY <2>2, <2>3, <2>4
<1>9. Together([m EXCEPT !.groups[TheGroup].members = M], [d EXCEPT !.members = RoleUpdated(d.members, TheGroup, u, role)], now)
  BY ONLY <1>4, <1>7, <1>8, NewMembers, Together(m, d, now)
<1>10. CASE MemoryIsGroupMember(m, TheGroup, u)
  <2>1. /\ MemorySetGroupMemberRole(m, TheGroup, u, role) = Reply([m EXCEPT !.groups[TheGroup].members = M], Accepted)
        /\ SQLiteSetGroupMemberRole(d, TheGroup, u, role)
             = Reply([d EXCEPT !.members = RoleUpdated(d.members, TheGroup, u, role)], Accepted)
    BY <1>1, <1>2, <1>10 DEF MemorySetGroupMemberRole, SQLiteSetGroupMemberRole
  <2> QED BY ONLY <1>9, <2>1, SoundReply
<1>11. CASE ~ MemoryIsGroupMember(m, TheGroup, u)
  <2>1. /\ MemorySetGroupMemberRole(m, TheGroup, u, role) = Reply(m, Refused)
        /\ SQLiteSetGroupMemberRole(d, TheGroup, u, role) = Reply(d, Refused)
    BY <1>11 DEF MemorySetGroupMemberRole, SQLiteSetGroupMemberRole
  <2> QED BY ONLY <2>1, SoundReply, Together(m, d, now), Zenon
<1> QED BY <1>10, <1>11

LEMMA MuteSet ==
    ASSUME NEW m, NEW d, NEW now, Together(m, d, now), NEW u \in People, NEW muted \in BOOLEAN
    PROVE  Sound(MemorySetGroupMemberMute(m, TheGroup, u, muted), SQLiteSetGroupMemberMute(d, TheGroup, u, muted), now)
<1> USE GroupFacts
<1>1. PICK N : N = m.groups[TheGroup].members
  OBVIOUS
<1>2. PICK M : M = {IF x.user = u THEN [x EXCEPT !.muted = muted] ELSE x : x \in N}
  OBVIOUS
<1>3. ASSUME NEW x \in StoredMembers, NEW y, y = IF x.user = u THEN [x EXCEPT !.muted = muted] ELSE x
      PROVE  /\ y \in StoredMembers /\ y.user = x.user /\ y.role = x.role
             /\ MemberRowOf(y) = IF MemberRowOf(x).group = TheGroup /\ MemberRowOf(x).user = u
                                   THEN [MemberRowOf(x) EXCEPT !.muted = muted] ELSE MemberRowOf(x)
  BY ONLY <1>3, muted \in BOOLEAN DEF StoredMembers, MemberRowOf
<1>4. PICK o : o = m.groups[TheGroup].owner
  OBVIOUS
<1>5. /\ N \subseteq StoredMembers /\ d.members = {MemberRowOf(x) : x \in N}
      /\ \E x \in N : x.user = o
      /\ \A x \in N : x.role = "owner" <=> x.user = o
  BY <1>1, <1>4 DEF OneOwner
<1>6. PICK F, H : /\ F = [x \in N |-> IF x.user = u THEN [x EXCEPT !.muted = muted] ELSE x]
                  /\ H = [x \in N |-> IF MemberRowOf(x).group = TheGroup /\ MemberRowOf(x).user = u
                                        THEN [MemberRowOf(x) EXCEPT !.muted = muted] ELSE MemberRowOf(x)]
  OBVIOUS
<1>7. ASSUME NEW x \in N PROVE MemberRowOf(F[x]) = H[x] /\ F[x] \in StoredMembers /\ F[x].user = x.user /\ F[x].role = x.role
  BY ONLY <1>3, <1>5, <1>6, x \in N
<1>8. M = {F[x] : x \in N}
  BY ONLY <1>2, <1>6
<1>9. /\ M \subseteq StoredMembers /\ \E x \in M : x.user = o
      /\ \A x \in M : x.role = "owner" <=> x.user = o
  BY ONLY <1>5, <1>7, <1>8
<1>10. {MemberRowOf(x) : x \in M} = MuteUpdated(d.members, TheGroup, u, muted)
  <2>1. MuteUpdated(d.members, TheGroup, u, muted) = {H[x] : x \in N}
    BY ONLY <1>5, <1>6 DEF MuteUpdated
  <2> QED BY ONLY <1>7, <1>8, <2>1
<1>11. Together([m EXCEPT !.groups[TheGroup].members = M], [d EXCEPT !.members = MuteUpdated(d.members, TheGroup, u, muted)], now)
  BY ONLY <1>4, <1>9, <1>10, NewMembers, Together(m, d, now)
<1>12. CASE MemoryIsGroupMember(m, TheGroup, u)
  <2>1. /\ MemorySetGroupMemberMute(m, TheGroup, u, muted) = Reply([m EXCEPT !.groups[TheGroup].members = M], Accepted)
        /\ SQLiteSetGroupMemberMute(d, TheGroup, u, muted)
             = Reply([d EXCEPT !.members = MuteUpdated(d.members, TheGroup, u, muted)], Accepted)
    BY <1>1, <1>2, <1>12 DEF MemorySetGroupMemberMute, SQLiteSetGroupMemberMute
  <2> QED BY ONLY <1>11, <2>1, SoundReply
<1>13. CASE ~ MemoryIsGroupMember(m, TheGroup, u)
  <2>1. /\ MemorySetGroupMemberMute(m, TheGroup, u, muted) = Reply(m, Refused)
        /\ SQLiteSetGroupMemberMute(d, TheGroup, u, muted) = Reply(d, Refused)
    BY <1>13 DEF MemorySetGroupMemberMute, SQLiteSetGroupMemberMute
  <2> QED BY ONLY <2>1, SoundReply, Together(m, d, now), Zenon
<1> QED BY <1>12, <1>13

LEMMA MemberAdded ==
    ASSUME NEW m, NEW d, NEW now, Together(m, d, now), NEW u \in People
    PROVE  Sound(MemoryAddGroupMember(m, TheGroup, u), SQLiteAddGroupMember(d, TheGroup, u), now)
<1> USE GroupFacts
<1>1. CASE MemoryIsGroupMember(m, TheGroup, u)
  <2>1. /\ MemoryAddGroupMember(m, TheGroup, u) = Reply(m, FALSE)
        /\ SQLiteAddGroupMember(d, TheGroup, u) = Reply(d, FALSE)
    BY <1>1 DEF MemoryAddGroupMember, SQLiteAddGroupMember
  <2> QED BY ONLY <2>1, SoundReply, Together(m, d, now), Zenon
<1>2. CASE ~ MemoryIsGroupMember(m, TheGroup, u)
  <2>1. PICK N, o, x : /\ N = m.groups[TheGroup].members /\ o = m.groups[TheGroup].owner
                       /\ x = [user |-> u, role |-> "member", muted |-> FALSE]
    OBVIOUS
  <2>2. PICK M : M = N \cup {x}
    OBVIOUS
  <2>3. /\ N \subseteq StoredMembers /\ d.members = {MemberRowOf(z) : z \in N}
        /\ \E z \in N : z.user = o
        /\ \A z \in N : z.role = "owner" <=> z.user = o
    BY <2>1 DEF OneOwner
  <2>4. x \in StoredMembers /\ x.role # "owner" /\ x.user = u
        /\ MemberRowOf(x) = [group |-> TheGroup, user |-> u, role |-> "member", muted |-> FALSE]
    BY ONLY <2>1, u \in People DEF StoredMembers, MemberRowOf
  <2>5. u # o
    BY <1>2, <2>1, <2>3
  <2>6. /\ M \subseteq StoredMembers /\ \E z \in M : z.user = o
        /\ \A z \in M : z.role = "owner" <=> z.user = o
    BY ONLY <2>2, <2>3, <2>4, <2>5
  <2>7. {MemberRowOf(z) : z \in M} = d.members \cup {MemberRowOf(x)}
    BY ONLY <2>2, <2>3
  <2>8. Together([m EXCEPT !.groups[TheGroup].members = M], [d EXCEPT !.members = d.members \cup {MemberRowOf(x)}], now)
    BY ONLY <2>1, <2>6, <2>7, NewMembers, Together(m, d, now)
  <2>n. PICK n, e : /\ n = [m EXCEPT !.groups[TheGroup].members = M]
                    /\ e = [d EXCEPT !.members = d.members \cup {MemberRowOf(x)}]
    OBVIOUS
  <2>t. Together(n, e, now)
    BY ONLY <2>n, <2>8
  <2>9. MemoryAddGroupMember(m, TheGroup, u) = Reply(n, TRUE)
    BY <1>2, <2>1, <2>2, <2>n DEF MemoryAddGroupMember
  <2>10. SQLiteAddGroupMember(d, TheGroup, u) = Reply(e, TRUE)
    BY <1>2, <2>4, <2>n DEF SQLiteAddGroupMember
  <2> QED BY ONLY <2>t, <2>9, <2>10, SoundReply, Together(m, d, now), Zenon
<1> QED BY <1>1, <1>2

LEMMA MemberRemoved ==
    ASSUME NEW m, NEW d, NEW now, Together(m, d, now), NEW u \in People,
           ~ \E x \in d.members : x.user = u /\ x.role = "owner"
    PROVE  Sound(MemoryRemoveGroupMember(m, TheGroup, u), SQLiteRemoveGroupMember(d, TheGroup, u), now)
<1> USE GroupFacts
<1>1. PICK N, o : N = m.groups[TheGroup].members /\ o = m.groups[TheGroup].owner
  OBVIOUS
<1>2. PICK M : M = {x \in N : x.user # u}
  OBVIOUS
<1>3. /\ N \subseteq StoredMembers /\ d.members = {MemberRowOf(x) : x \in N}
      /\ \E x \in N : x.user = o
      /\ \A x \in N : x.role = "owner" <=> x.user = o
  BY <1>1 DEF OneOwner
<1>4. \A x : MemberRowOf(x).group = TheGroup /\ MemberRowOf(x).user = x.user /\ MemberRowOf(x).role = x.role
  BY DEF MemberRowOf
<1>5. u # o
  <2>1. PICK x \in N : x.user = o /\ x.role = "owner"
    BY <1>3
  <2>2. MemberRowOf(x) \in d.members /\ MemberRowOf(x).user = o /\ MemberRowOf(x).role = "owner"
    BY ONLY <1>3, <1>4, <2>1
  <2> QED BY <2>2
<1>6. /\ M \subseteq StoredMembers /\ \E x \in M : x.user = o
      /\ \A x \in M : x.role = "owner" <=> x.user = o
  BY ONLY <1>2, <1>3, <1>5
<1>7. {MemberRowOf(x) : x \in M} = {x \in d.members : x.group # TheGroup \/ x.user # u}
  BY ONLY <1>2, <1>3, <1>4
<1>8. Together([m EXCEPT !.groups[TheGroup].members = M],
               [d EXCEPT !.members = {x \in d.members : x.group # TheGroup \/ x.user # u}], now)
  BY ONLY <1>1, <1>6, <1>7, NewMembers, Together(m, d, now)
<1>n. PICK n, e : /\ n = [m EXCEPT !.groups[TheGroup].members = M]
                  /\ e = [d EXCEPT !.members = {x \in d.members : x.group # TheGroup \/ x.user # u}]
  OBVIOUS
<1>t. Together(n, e, now)
  BY ONLY <1>n, <1>8
<1>9. SQLiteRemoveGroupMember(d, TheGroup, u) = Reply(e, SQLiteIsGroupMember(d, TheGroup, u))
  BY <1>n DEF SQLiteRemoveGroupMember
<1>10. CASE MemoryIsGroupMember(m, TheGroup, u)
  <2>1. MemoryRemoveGroupMember(m, TheGroup, u) = Reply(n, TRUE)
    BY <1>1, <1>2, <1>10, <1>n DEF MemoryRemoveGroupMember
  <2>2. SQLiteIsGroupMember(d, TheGroup, u) = TRUE
    BY <1>10 DEF SQLiteIsGroupMember
  <2> QED BY ONLY <1>t, <1>9, <2>1, <2>2, SoundReply, Zenon
<1>11. CASE ~ MemoryIsGroupMember(m, TheGroup, u)
  <2>1. MemoryRemoveGroupMember(m, TheGroup, u) = Reply(m, FALSE)
    BY <1>11 DEF MemoryRemoveGroupMember
  <2>2. SQLiteIsGroupMember(d, TheGroup, u) = FALSE
    BY <1>11 DEF SQLiteIsGroupMember
  <2>3. {x \in d.members : x.group # TheGroup \/ x.user # u} = d.members
    BY <1>1, <1>3, <1>4, <1>11
  <2>4. HasTables(d)
    BY TogetherParts
  <2>5. e = d
    BY ONLY <1>n, <2>3, <2>4 DEF HasTables
  <2> QED BY ONLY <1>9, <2>1, <2>2, <2>5, SoundReply, Together(m, d, now), Zenon
<1> QED BY <1>10, <1>11

\* A transfer: the stores refuse the same ones, and agree on the two rows.
LEMMA OwnershipTransferred ==
    ASSUME NEW m, NEW d, NEW now, Together(m, d, now), NEW from \in People, NEW to \in People
    PROVE  Sound(MemoryTransferGroupOwnership(m, TheGroup, from, to),
                 SQLiteTransferGroupOwnership(d, TheGroup, from, to), now)
<1> USE GroupFacts
<1>1. PICK g : g = m.groups[TheGroup]
  OBVIOUS
<1>2. PICK N, o : N = g.members /\ o = g.owner
  OBVIOUS
<1>3. /\ N \subseteq StoredMembers /\ d.members = {MemberRowOf(x) : x \in N} /\ g \in StoredGroups
      /\ \E x \in N : x.user = o
      /\ \A x \in N : x.role = "owner" <=> x.user = o
      /\ d.groups = {GroupRowOf(g)} /\ DOMAIN m.groups = {TheGroup}
  BY <1>1, <1>2 DEF OneOwner
<1>4. \A x : MemberRowOf(x).group = TheGroup /\ MemberRowOf(x).user = x.user /\ MemberRowOf(x).role = x.role
  BY DEF MemberRowOf
<1>5. PICK R : R = {x \in d.members : x.group = TheGroup /\ x.user = to}
  OBVIOUS
<1>6. R \subseteq MemberRows
  <2>1. \A x \in StoredMembers : MemberRowOf(x) \in MemberRows
    BY DEF StoredMembers, MemberRowOf, MemberRows
  <2> QED BY ONLY <1>3, <1>5, <2>1
<1>7. /\ R = {} => TheRow(R) = Nothing
      /\ R # {} => TheRow(R) \in R /\ TheRow(R) # Nothing
  BY <1>6, RowFound, StoreAssumption
<1>8. (\E r \in d.groups : r.id = TheGroup /\ r.owner = from) <=> o = from
  <2>1. GroupRowOf(g).id = TheGroup /\ GroupRowOf(g).owner = o
    BY <1>2 DEF GroupRowOf
  <2> QED BY ONLY <1>3, <2>1
<1>9. PICK dg, dm : /\ dg = {IF r.id = TheGroup THEN [r EXCEPT !.owner = to] ELSE r : r \in d.groups}
                    /\ dm = MuteUpdated(RoleUpdated(RoleUpdated(d.members, TheGroup, from, "member"), TheGroup, to, "owner"),
                                        TheGroup, to, FALSE)
  OBVIOUS
<1>10. ASSUME o = from, from # to, \E x \in N : x.user = to
       PROVE  /\ \E x \in N : x.user = to /\ x.role # "owner"
              /\ TheRow(R) # Nothing /\ TheRow(R).role \in {"member", "admin"}
  <2>1. PICK x \in N : x.user = to
    BY <1>10
  <2>2. x.role # "owner"
    BY <1>3, <1>10, <2>1
  <2>3. MemberRowOf(x) \in R
    BY ONLY <1>3, <1>4, <1>5, <2>1
  <2>4. TheRow(R) \in R /\ TheRow(R) # Nothing
    BY <1>7, <2>3
  <2>5. PICK y \in N : TheRow(R) = MemberRowOf(y) /\ y.user = to
    BY ONLY <1>3, <1>4, <1>5, <2>4
  <2>6. y \in StoredMembers /\ y.role # "owner"
    BY <1>3, <1>10, <2>5
  <2>7. TheRow(R).role \in {"member", "admin"}
    BY ONLY <1>4, <2>5, <2>6 DEF StoredMembers
  <2> QED BY <2>1, <2>2, <2>4, <2>7
<1>11. ASSUME ~ (o = from /\ from # to /\ \E x \in N : x.user = to)
       PROVE  /\ o # from \/ from = to \/ ~ \E x \in N : x.user = to /\ x.role # "owner"
              /\ o # from \/ TheRow(R) = Nothing \/ TheRow(R).role \notin {"member", "admin"}
  <2>1. CASE o # from
    BY <2>1
  <2>2. CASE o = from /\ from = to
    <3>1. R = {} \/ TheRow(R) \in R
      BY <1>7
    <3>2. CASE TheRow(R) \in R
      <4>1. PICK y \in N : TheRow(R) = MemberRowOf(y) /\ y.user = to
        BY ONLY <1>3, <1>4, <1>5, <3>2
      <4>2. y.role = "owner"
        BY ONLY <1>3, <2>2, <4>1
      <4>3. TheRow(R).role = "owner"
        BY ONLY <1>4, <4>1, <4>2
      <4> QED BY <2>2, <4>3
    <3> QED BY <1>7, <2>2, <3>1, <3>2
  <2>3. CASE ~ \E x \in N : x.user = to
    <3>1. R = {}
      BY ONLY <1>3, <1>4, <1>5, <2>3
    <3> QED BY <1>7, <2>3, <3>1
  <2> QED BY <1>11, <2>1, <2>2, <2>3
<1>12. CASE ~ (o = from /\ from # to /\ \E x \in N : x.user = to)
  <2>1. MemoryTransferGroupOwnership(m, TheGroup, from, to) = Reply(m, Refused)
    BY <1>1, <1>2, <1>11, <1>12 DEF MemoryTransferGroupOwnership
  <2>2. SQLiteTransferGroupOwnership(d, TheGroup, from, to) = Reply(d, Refused)
    BY ONLY <1>5, <1>8, <1>11, <1>12 DEF SQLiteTransferGroupOwnership
  <2> QED BY ONLY <2>1, <2>2, SoundReply, Together(m, d, now)
<1>13. CASE o = from /\ from # to /\ \E x \in N : x.user = to
  <2>1. PICK F : F = [x \in N |-> CASE x.user = from -> [x EXCEPT !.role = "member"]
                                    [] x.user = to -> [x EXCEPT !.role = "owner", !.muted = FALSE]
                                    [] OTHER -> x]
    OBVIOUS
  <2>2. PICK M : M = {F[x] : x \in N}
    OBVIOUS
  <2>3. PICK h, mg : h = [g EXCEPT !.owner = to, !.members = M] /\ mg = [m.groups EXCEPT ![TheGroup] = h]
    OBVIOUS
  <2>4. ASSUME NEW x \in N
        PROVE  /\ F[x] \in StoredMembers /\ F[x].user = x.user
               /\ F[x].role = "owner" <=> x.user = to
    <3>1. x \in StoredMembers
      BY <1>3
    <3>2. CASE x.user = from
      <4>1. F[x] = [x EXCEPT !.role = "member"]
        BY ONLY <1>13, <2>1, <3>2
      <4> QED BY ONLY <1>13, <3>1, <3>2, <4>1 DEF StoredMembers
    <3>3. CASE x.user = to
      <4>1. F[x] = [x EXCEPT !.role = "owner", !.muted = FALSE]
        BY ONLY <1>13, <2>1, <3>3
      <4> QED BY ONLY <3>1, <3>3, <4>1 DEF StoredMembers
    <3>4. CASE x.user # from /\ x.user # to
      <4>1. F[x] = x
        BY ONLY <2>1, <3>4
      <4> QED BY ONLY <1>3, <1>13, <3>1, <3>4, <4>1
    <3> QED BY <3>2, <3>3, <3>4
  <2>5. M \subseteq StoredMembers
    BY ONLY <2>2, <2>4
  <2>6. h \in StoredGroups /\ h.owner = to /\ h.members = M /\ h.muteAll = g.muteAll /\ h.announcement = g.announcement
    BY ONLY <1>3, <2>3, <2>5, to \in People DEF StoredGroups, StoredMembers
  <2>7. OneOwner(h)
    BY ONLY <1>13, <2>2, <2>4, <2>6 DEF OneOwner
  <2>8. DOMAIN mg = {TheGroup} /\ mg[TheGroup] = h
    BY ONLY <1>3, <2>3
  <2>9. dg = {GroupRowOf(h)}
    <3>1. PICK r : r = GroupRowOf(g)
      OBVIOUS
    <3>2. r.id = TheGroup /\ [r EXCEPT !.owner = to] = GroupRowOf(h)
      BY ONLY <2>6, <3>1 DEF GroupRowOf
    <3>3. d.groups = {r}
      BY <1>3, <3>1
    <3> QED BY ONLY <1>9, <3>2, <3>3
  <2>10. dm = {MemberRowOf(x) : x \in M}
    <3>1. PICK A, B : /\ A = [x \in N |-> MemberRowOf(x)]
                      /\ B = [x \in N |-> IF A[x].group = TheGroup /\ A[x].user = from
                                            THEN [A[x] EXCEPT !.role = "member"] ELSE A[x]]
      OBVIOUS
    <3>2. PICK C : C = [x \in N |-> IF B[x].group = TheGroup /\ B[x].user = to
                                      THEN [B[x] EXCEPT !.role = "owner"] ELSE B[x]]
      OBVIOUS
    <3>0. PICK f : f = FALSE
      OBVIOUS
    <3>3. PICK D : D = [x \in N |-> IF C[x].group = TheGroup /\ C[x].user = to
                                      THEN [C[x] EXCEPT !.muted = f] ELSE C[x]]
      OBVIOUS
    <3>4. d.members = {A[x] : x \in N}
      BY ONLY <1>3, <3>1
    <3>5. RoleUpdated(d.members, TheGroup, from, "member") = {B[x] : x \in N}
      BY ONLY <3>1, <3>4 DEF RoleUpdated
    <3>6. RoleUpdated(RoleUpdated(d.members, TheGroup, from, "member"), TheGroup, to, "owner") = {C[x] : x \in N}
      BY ONLY <3>2, <3>5 DEF RoleUpdated
    <3>7. dm = {D[x] : x \in N}
      <4>1. PICK S : S = {C[x] : x \in N}
        OBVIOUS
      <4>2. dm = MuteUpdated(S, TheGroup, to, f)
        BY ONLY <1>9, <3>0, <3>6, <4>1, Zenon
      <4> QED BY ONLY <3>3, <4>1, <4>2 DEF MuteUpdated
    <3>8. ASSUME NEW x \in N PROVE D[x] = MemberRowOf(F[x])
      <4>1. x \in StoredMembers
        BY <1>3
      <4>2. A[x] = [group |-> TheGroup, user |-> x.user, role |-> x.role, muted |-> x.muted]
        BY ONLY <3>1, x \in N DEF MemberRowOf
      <4>3. CASE x.user = from
        <5>1. F[x] = [x EXCEPT !.role = "member"]
          BY ONLY <1>13, <2>1, <4>3
        <5>2. B[x] = [group |-> TheGroup, user |-> from, role |-> "member", muted |-> x.muted]
          BY ONLY <3>1, <4>2, <4>3
        <5>3. C[x] = B[x] /\ D[x] = B[x]
          BY ONLY <1>13, <3>2, <3>3, <5>2
        <5> QED BY ONLY <4>1, <4>3, <5>1, <5>2, <5>3 DEF MemberRowOf, StoredMembers
      <4>4. CASE x.user = to
        <5>1. F[x] = [x EXCEPT !.role = "owner", !.muted = FALSE]
          BY ONLY <1>13, <2>1, <4>4
        <5>2. B[x] = [group |-> TheGroup, user |-> to, role |-> x.role, muted |-> x.muted]
          BY ONLY <1>13, <3>1, <4>2, <4>4
        <5>3. C[x] = [group |-> TheGroup, user |-> to, role |-> "owner", muted |-> x.muted]
          BY ONLY <3>2, <5>2, x \in N
        <5>4. D[x] = [group |-> TheGroup, user |-> to, role |-> "owner", muted |-> f]
          BY ONLY <3>3, <5>3, x \in N
        <5>6. F[x].user = to /\ F[x].role = "owner" /\ F[x].muted = FALSE
          BY ONLY <4>1, <4>4, <5>1 DEF StoredMembers
        <5>5. F[x].user = to /\ F[x].role = "owner" /\ F[x].muted = f
          BY ONLY <3>0, <5>6, Zenon
        <5> QED BY ONLY <5>4, <5>5 DEF MemberRowOf
      <4>5. CASE x.user # from /\ x.user # to
        <5>1. F[x] = x
          BY ONLY <2>1, <4>5
        <5>2. B[x] = A[x]
          BY ONLY <3>1, <4>2, <4>5
        <5>3. C[x] = A[x]
          BY ONLY <3>2, <4>2, <4>5, <5>2
        <5>4. D[x] = A[x]
          BY ONLY <3>3, <4>2, <4>5, <5>3
        <5> QED BY ONLY <3>1, <5>1, <5>4
      <4> QED BY <4>3, <4>4, <4>5
    <3> QED BY ONLY <2>2, <3>7, <3>8
  <2>11. GroupMatches(mg, dg, dm)
    BY ONLY <2>6, <2>7, <2>8, <2>9, <2>10 DEF GroupMatches
  <2>12. PICK n, e : n = [m EXCEPT !.groups = mg] /\ e = [d EXCEPT !.groups = dg, !.members = dm]
    OBVIOUS
  <2>13. Together(n, e, now)
    BY ONLY <2>11, <2>12, GroupAndMembersWritten, Together(m, d, now)
  <2>14. MemoryTransferGroupOwnership(m, TheGroup, from, to) = Reply(n, Accepted)
    <3>1. g.members = N /\ g.owner = from
      BY <1>2, <1>13
    <3>2. M = {CASE x.user = from -> [x EXCEPT !.role = "member"]
                 [] x.user = to -> [x EXCEPT !.role = "owner", !.muted = FALSE]
                 [] OTHER -> x : x \in g.members}
      BY ONLY <2>1, <2>2, <3>1
    <3>3. h = HandedOver(g, from, to)
      BY ONLY <2>3, <3>2 DEF HandedOver
    <3>5. n = [m EXCEPT !.groups[TheGroup] = HandedOver(@, from, to)]
      BY ONLY <1>1, <2>3, <2>12, <3>3
    <3>4. /\ MemoryIsGroupMember(m, TheGroup, from) /\ TheGroup \in DOMAIN m.groups
          /\ m.groups[TheGroup].owner = from /\ from # to
          /\ \E x \in m.groups[TheGroup].members : x.user = to /\ x.role # "owner"
      BY <1>1, <1>2, <1>3, <1>10, <1>13
    <3> QED BY ONLY <3>4, <3>5 DEF MemoryTransferGroupOwnership
  <2>15. SQLiteTransferGroupOwnership(d, TheGroup, from, to) = Reply(e, Accepted)
    BY ONLY <1>5, <1>8, <1>9, <1>10, <1>13, <2>12 DEF SQLiteTransferGroupOwnership
  <2> QED BY ONLY <2>13, <2>14, <2>15, SoundReply
<1> QED BY <1>12, <1>13

(* Messages *)

LEMMA MessageFacts ==
    ASSUME NEW map, NEW rows, NEW now, MessagesMatch(map, rows, now)
    PROVE  /\ DOMAIN map \subseteq Places
           /\ \A c \in DOMAIN map : map[c] \in Seq(StoredMessages) /\ Rising(map[c])
           /\ \A c \in DOMAIN map : Len(map[c]) \in Nat /\ DOMAIN map[c] = 1 .. Len(map[c])
           /\ rows \subseteq MessageRows /\ IsFiniteSet(rows)
           /\ \A r \in rows : r.id \in 1 .. now
           /\ \A r, q \in rows : r.id = q.id => r = q
           /\ \A r \in rows : r.conversation \in DOMAIN map /\ HistoryHas(map[r.conversation], r)
           /\ \A c \in DOMAIN map : \A i \in 1 .. Len(map[c]) :
                  \E r \in rows : r.conversation = c /\ map[c][i] = MessageOf(r)
<1>1. \A c \in DOMAIN map : map[c] \in Seq(StoredMessages)
  BY DEF MessagesMatch
<1>2. \A c \in DOMAIN map : Len(map[c]) \in Nat /\ DOMAIN map[c] = 1 .. Len(map[c])
  BY <1>1
<1> QED BY <1>2 DEF MessagesMatch

LEMMA MessageFields ==
    ASSUME NEW r
    PROVE  /\ MessageOf(r).id = r.id /\ MessageOf(r).sender = r.sender
           /\ MessageOf(r).segments = r.segments /\ MessageOf(r).recalled = r.recalled
BY DEF MessageOf

\* A message is found in a history exactly when it has a row.
LEMMA MessageFound ==
    ASSUME NEW m, NEW d, NEW now, MessagesMatch(m.messages, d.messages, now), NEW r \in d.messages
    PROVE  /\ FindMessageIn(m, r.id) = MessageOf(r) /\ FindMessageIn(m, r.id) # Nothing
           /\ MessageRow(d, r.id) = r /\ MessageRow(d, r.id) # Nothing
           /\ MessageOf(r) \in StoredMessages /\ r \in MessageRows
<1> USE MessageFacts, MessageFields
<1>1. r \in MessageRows
  OBVIOUS
<1>2. MessageOf(r) \in StoredMessages
  BY ONLY <1>1 DEF MessageRows, MessageOf, StoredMessages
<1>3. {x \in d.messages : x.id = r.id} = {r}
  OBVIOUS
<1>4. MessageRow(d, r.id) = r /\ r # Nothing
  <2>1. r # Nothing
    BY ONLY <1>1, StoreAssumption
  <2> QED BY ONLY <1>3, <2>1, OneRow DEF MessageRow
<1>5. PICK found : found = UNION {{x \in ToSet(m.messages[c]) : x.id = r.id} : c \in DOMAIN m.messages}
  OBVIOUS
<1>6. MessageOf(r) \in found
  <2>1. r.conversation \in DOMAIN m.messages /\ HistoryHas(m.messages[r.conversation], r)
    OBVIOUS
  <2>2. PICK i \in 1 .. Len(m.messages[r.conversation]) : m.messages[r.conversation][i] = MessageOf(r)
    BY <2>1 DEF HistoryHas
  <2>3. MessageOf(r) \in ToSet(m.messages[r.conversation])
    BY <2>1, <2>2 DEF ToSet
  <2> QED BY ONLY <1>5, <2>1, <2>3, MessageFields
<1>7. ASSUME NEW x \in found PROVE x = MessageOf(r)
  <2>1. PICK c \in DOMAIN m.messages : x \in ToSet(m.messages[c]) /\ x.id = r.id
    BY ONLY <1>5, <1>7
  <2>2. PICK i \in 1 .. Len(m.messages[c]) : x = m.messages[c][i]
    BY <2>1 DEF ToSet
  <2>3. PICK q \in d.messages : x = MessageOf(q)
    BY <2>2
  <2> QED BY <2>1, <2>3
<1>8. found = {MessageOf(r)}
  BY ONLY <1>6, <1>7
<1>9. FindMessageIn(m, r.id) = MessageOf(r)
  BY ONLY <1>5, <1>8 DEF FindMessageIn
<1> QED BY <1>1, <1>2, <1>4, <1>9, StoreAssumption

LEMMA MessageMissing ==
    ASSUME NEW m, NEW d, NEW now, MessagesMatch(m.messages, d.messages, now), NEW id,
           ~ \E r \in d.messages : r.id = id
    PROVE  FindMessageIn(m, id) = Nothing /\ MessageRow(d, id) = Nothing
<1> USE MessageFacts, MessageFields
<1>1. MessageRow(d, id) = Nothing
  BY DEF MessageRow, TheRow
<1>2. PICK found : found = UNION {{x \in ToSet(m.messages[c]) : x.id = id} : c \in DOMAIN m.messages}
  OBVIOUS
<1>3. ASSUME NEW x \in found PROVE FALSE
  <2>1. PICK c \in DOMAIN m.messages : x \in ToSet(m.messages[c]) /\ x.id = id
    BY ONLY <1>2, <1>3
  <2>2. PICK i \in 1 .. Len(m.messages[c]) : x = m.messages[c][i]
    BY <2>1 DEF ToSet
  <2>3. PICK q \in d.messages : x = MessageOf(q)
    BY <2>2
  <2> QED BY <2>1, <2>3
<1>4. found = {}
  BY ONLY <1>3
<1>5. FindMessageIn(m, id) = Nothing
  BY ONLY <1>2, <1>4 DEF FindMessageIn
<1> QED BY <1>1, <1>5

LEMMA LoadedSame ==
    ASSUME NEW r, NEW reactions
    PROVE  Loaded(MessageOf(r), reactions) = Loaded(r, reactions)
BY MessageFields DEF Loaded

LEMMA LoadedIsNotNothing ==
    ASSUME NEW r \in MessageRows, NEW reactions, reactions \subseteq ReactionRows, IsFiniteSet(reactions)
    PROVE  Loaded(r, reactions) \in LoadedMessages /\ Loaded(r, reactions) # Nothing
<1>1. PICK S : S = {x.emoji : x \in reactions}
  OBVIOUS
<1>2. S \in SUBSET {"like"}
  BY <1>1 DEF ReactionRows
<1>3. ASSUME NEW e \in S PROVE Cardinality({x \in reactions : x.emoji = e}) \in Nat
  <2>1. IsFiniteSet({x \in reactions : x.emoji = e})
    BY FS_Subset
  <2> QED BY <2>1, FS_CardinalityType
<1>4. PICK f : f = [e \in S |-> Cardinality({x \in reactions : x.emoji = e})]
  OBVIOUS
<1>5. f \in [S -> Nat]
  BY ONLY <1>3, <1>4
<1>6. f \in UNION {[T -> Nat] : T \in SUBSET {"like"}}
  BY ONLY <1>2, <1>5
<1>7. Loaded(r, reactions) = [id |-> r.id, sender |-> r.sender, segments |-> r.segments, recalled |-> r.recalled, counts |-> f]
  BY ONLY <1>1, <1>4 DEF Loaded
<1>8. r.id \in Nat /\ r.sender \in People /\ r.segments \in StoredSegments /\ r.recalled \in BOOLEAN
  BY DEF MessageRows
<1>9. Loaded(r, reactions) \in LoadedMessages
  BY ONLY <1>6, <1>7, <1>8 DEF LoadedMessages
<1> QED BY <1>9, StoreAssumption

\* The stores return the same message.
LEMMA SameMessage ==
    ASSUME NEW m, NEW d, NEW now, MessagesMatch(m.messages, d.messages, now), NEW id,
           m.reactions = d.reactions, d.reactions \subseteq ReactionRows, IsFiniteSet(d.reactions)
    PROVE  /\ MemoryGetMessage(m, id) = SQLiteGetMessage(d, id)
           /\ MemoryGetMessage(m, id) # Nothing <=> \E r \in d.messages : r.id = id
           /\ MemoryGetMessage(m, id) \in LoadedMessages \cup {Nothing}
<1>0. PICK R : R = {x \in d.reactions : x.message = id}
  OBVIOUS
<1>1. ReactionsTo(m, id) = R /\ RowReactions(d, id) = R
  BY <1>0 DEF ReactionsTo, RowReactions
<1>2. R \subseteq ReactionRows /\ IsFiniteSet(R)
  BY <1>0, FS_Subset
<1>3. CASE \E r \in d.messages : r.id = id
  <2>1. PICK r \in d.messages : r.id = id
    BY <1>3
  <2>2. /\ FindMessageIn(m, id) = MessageOf(r) /\ FindMessageIn(m, id) # Nothing
        /\ MessageRow(d, id) = r /\ MessageRow(d, id) # Nothing /\ r \in MessageRows
    BY <2>1, MessageFound
  <2>3. MemoryGetMessage(m, id) = Loaded(MessageOf(r), R) /\ SQLiteGetMessage(d, id) = Loaded(r, R)
    BY ONLY <1>1, <2>2 DEF MemoryGetMessage, SQLiteGetMessage
  <2>4. Loaded(r, R) \in LoadedMessages /\ Loaded(r, R) # Nothing
    BY ONLY <1>2, <2>2, LoadedIsNotNothing
  <2> QED BY <1>3, <2>3, <2>4, LoadedSame
<1>4. CASE ~ \E r \in d.messages : r.id = id
  <2>1. FindMessageIn(m, id) = Nothing /\ MessageRow(d, id) = Nothing
    BY ONLY <1>4, MessageMissing, MessagesMatch(m.messages, d.messages, now)
  <2> QED BY <1>4, <2>1 DEF MemoryGetMessage, SQLiteGetMessage
<1> QED BY <1>3, <1>4

LEMMA TimePasses ==
    ASSUME NEW m, NEW d, NEW now \in Nat, NEW next \in Nat, now <= next, Together(m, d, now)
    PROVE  Together(m, d, next)
<1>1. MessagesMatch(m.messages, d.messages, now)
  BY TogetherParts
<1>2. \A r \in d.messages : r.id \in 1 .. next
  BY <1>1 DEF MessagesMatch
<1>3. MessagesMatch(m.messages, d.messages, next)
  BY <1>1, <1>2 DEF MessagesMatch
<1> QED BY <1>3 DEF Together, Shown

\* One message has changed, but for its key, its sender and its place.
LEMMA MessageChanged ==
    ASSUME NEW m, NEW d, NEW now, Together(m, d, now), NEW r \in d.messages, NEW q \in MessageRows,
           q.id = r.id, q.conversation = r.conversation, q.sender = r.sender, q.client = r.client, q.print = r.print,
           NEW D, D = {IF x.id = r.id THEN q ELSE x : x \in d.messages}
    PROVE  Together(Changed(m, r.id, MessageOf(q)), [d EXCEPT !.messages = D], now)
<1> USE MessageFields
<1>1. MessagesMatch(m.messages, d.messages, now)
  BY TogetherParts
<1>2. PICK map, rows : map = m.messages /\ rows = d.messages
  OBVIOUS
<1>3. /\ DOMAIN map \subseteq Places
      /\ \A c \in DOMAIN map : map[c] \in Seq(StoredMessages) /\ Rising(map[c])
      /\ \A c \in DOMAIN map : Len(map[c]) \in Nat /\ DOMAIN map[c] = 1 .. Len(map[c])
      /\ rows \subseteq MessageRows /\ IsFiniteSet(rows)
      /\ \A x \in rows : x.id \in 1 .. now
      /\ \A x, y \in rows : x.id = y.id => x = y
      /\ \A x \in rows : x.conversation \in DOMAIN map /\ HistoryHas(map[x.conversation], x)
      /\ \A c \in DOMAIN map : \A i \in 1 .. Len(map[c]) :
             \E x \in rows : x.conversation = c /\ map[c][i] = MessageOf(x)
  <2>1. MessagesMatch(map, rows, now)
    BY ONLY <1>1, <1>2
  <2> QED BY ONLY <2>1, MessageFacts
<1>4. D = (rows \ {r}) \cup {q} /\ r \in rows
  BY ONLY <1>2, <1>3, r \in d.messages, D = {IF x.id = r.id THEN q ELSE x : x \in d.messages}
<1>5. PICK new : new = [c \in DOMAIN map |-> [i \in DOMAIN map[c] |-> IF map[c][i].id = r.id THEN MessageOf(q) ELSE map[c][i]]]
  OBVIOUS
<1>6. MessageOf(q) \in StoredMessages /\ MessageOf(q).id = r.id
  BY ONLY q \in MessageRows, q.id = r.id DEF MessageRows, MessageOf, StoredMessages
<1>7. ASSUME NEW c \in DOMAIN map
      PROVE  /\ new[c] \in Seq(StoredMessages) /\ Len(new[c]) = Len(map[c])
             /\ \A i \in 1 .. Len(map[c]) : new[c][i] = IF map[c][i].id = r.id THEN MessageOf(q) ELSE map[c][i]
             /\ \A i \in 1 .. Len(map[c]) : new[c][i].id = map[c][i].id
  <2>1. PICK h, n : h = map[c] /\ n = Len(h)
    OBVIOUS
  <2>2. h \in Seq(StoredMessages) /\ n \in Nat /\ DOMAIN h = 1 .. n
    BY <1>3, <2>1
  <2>3. new[c] = [i \in 1 .. n |-> IF h[i].id = r.id THEN MessageOf(q) ELSE h[i]]
    BY ONLY <1>5, <2>1, <2>2, c \in DOMAIN map
  <2>4. \A i \in 1 .. n : h[i] \in StoredMessages
    BY ONLY <2>1, <2>2
  <2>5. \A i \in 1 .. n : (IF h[i].id = r.id THEN MessageOf(q) ELSE h[i]) \in StoredMessages
    BY ONLY <1>6, <2>4
  <2>6. new[c] \in Seq(StoredMessages) /\ Len(new[c]) = n
    BY ONLY <2>2, <2>3, <2>5
  <2>7. \A i \in 1 .. n : new[c][i] = IF h[i].id = r.id THEN MessageOf(q) ELSE h[i]
    BY ONLY <2>3
  <2>8. \A i \in 1 .. n : new[c][i].id = h[i].id
    BY ONLY <1>6, <2>7
  <2> QED BY ONLY <2>1, <2>6, <2>7, <2>8
<1>8. DOMAIN new = DOMAIN map
  BY ONLY <1>5
<1>9. MessagesMatch(new, D, now)
  <2>1. \A c \in DOMAIN new : new[c] \in Seq(StoredMessages) /\ Rising(new[c])
    BY ONLY <1>3, <1>7, <1>8 DEF Rising
  <2>2. D \subseteq MessageRows /\ IsFiniteSet(D)
    <3>1. IsFiniteSet(rows \ {r})
      BY ONLY <1>3, FS_Difference
    <3>2. IsFiniteSet((rows \ {r}) \cup {q})
      BY ONLY <3>1, FS_AddElement
    <3> QED BY ONLY <1>3, <1>4, <3>2, q \in MessageRows
  <2>3. \A x \in D : x.id \in 1 .. now
    BY ONLY <1>3, <1>4, q.id = r.id
  <2>4. \A x, y \in D : x.id = y.id => x = y
    BY ONLY <1>3, <1>4, q.id = r.id
  <2>5. ASSUME NEW x \in D PROVE x.conversation \in DOMAIN new /\ HistoryHas(new[x.conversation], x)
    <3>1. PICK y \in rows : y.id = x.id /\ y.conversation = x.conversation /\ (y.id = r.id => x = q) /\ (y.id # r.id => x = y)
      BY ONLY <1>3, <1>4, <2>5, q.id = r.id, q.conversation = r.conversation
    <3>2. PICK c : c = x.conversation
      OBVIOUS
    <3>3. c \in DOMAIN map /\ HistoryHas(map[c], y)
      BY ONLY <1>3, <3>1, <3>2
    <3>4. PICK i \in 1 .. Len(map[c]) : map[c][i] = MessageOf(y)
      BY ONLY <3>3 DEF HistoryHas
    <3>5. new[c][i] = MessageOf(x)
      BY ONLY <1>7, <3>1, <3>3, <3>4, MessageFields
    <3> QED BY ONLY <1>7, <1>8, <3>2, <3>3, <3>4, <3>5 DEF HistoryHas
  <2>6. ASSUME NEW c \in DOMAIN new, NEW i \in 1 .. Len(new[c])
        PROVE  \E x \in D : x.conversation = c /\ new[c][i] = MessageOf(x)
    <3>1. c \in DOMAIN map /\ i \in 1 .. Len(map[c])
      BY ONLY <1>7, <1>8, <2>6
    <3>2. PICK y \in rows : y.conversation = c /\ map[c][i] = MessageOf(y)
      BY ONLY <1>3, <3>1
    <3>3. CASE y.id = r.id
      <4>1. y = r
        BY ONLY <1>3, <1>4, <3>3
      <4>2. new[c][i] = MessageOf(q)
        BY ONLY <1>7, <3>1, <3>2, <3>3, MessageFields
      <4> QED BY ONLY <1>4, <3>2, <4>1, <4>2, q.conversation = r.conversation
    <3>4. CASE y.id # r.id
      <4>1. new[c][i] = MessageOf(y)
        BY ONLY <1>7, <3>1, <3>2, <3>4, MessageFields
      <4> QED BY ONLY <1>4, <3>2, <3>4, <4>1
    <3> QED BY <3>3, <3>4
  <2> QED BY ONLY <1>3, <1>8, <2>1, <2>2, <2>3, <2>4, <2>5, <2>6 DEF MessagesMatch
<1>10. KeysMatch(m.sent, D)
  <2>1. KeyOf(q) = KeyOf(r)
    BY DEF KeyOf
  <2>2. KeysMatch(m.sent, rows)
    BY <1>2, TogetherParts
  <2>3. {KeyOf(x) : x \in {x \in D : x.client # Empty}} = {KeyOf(x) : x \in {x \in rows : x.client # Empty}}
    BY ONLY <1>4, <2>1, q.client = r.client
  <2>4. \A x, y \in D : x.client # Empty /\ x.client = y.client /\ x.sender = y.sender => x = y
    BY ONLY <1>4, <2>2, q.client = r.client, q.sender = r.sender DEF KeysMatch
  <2> QED BY ONLY <2>2, <2>3, <2>4 DEF KeysMatch
<1>11. AboutMessages(d.updated, d.events, d.reactions, D)
  <2>1. AboutMessages(d.updated, d.events, d.reactions, rows)
    BY <1>2, TogetherParts
  <2>2. \A x \in rows : \E y \in D : y.id = x.id /\ y.conversation = x.conversation
    BY ONLY <1>4, q.id = r.id, q.conversation = r.conversation
  <2> QED BY ONLY <2>1, <2>2 DEF AboutMessages
<1>12. Changed(m, r.id, MessageOf(q)) = [m EXCEPT !.messages = new]
  BY ONLY <1>2, <1>5 DEF Changed
<1> QED BY ONLY <1>9, <1>10, <1>11, <1>12, MessagesWritten, Together(m, d, now)

\* New segments for a message, or no message.
LEMMA SegmentsUpdated ==
    ASSUME NEW m, NEW d, NEW now, Together(m, d, now), NEW id, NEW segments \in StoredSegments
    PROVE  /\ Sound(MemoryUpdateMessageSegments(m, id, segments), SQLiteUpdateMessageSegments(d, id, segments), now)
           /\ MemoryUpdateMessageSegments(m, id, segments).answer = Nothing <=> ~ \E r \in d.messages : r.id = id
           /\ MemoryUpdateMessageSegments(m, id, segments).answer \in LoadedMessages \cup {Nothing}
           /\ \A x \in d.messages :
                \E y \in SQLiteUpdateMessageSegments(d, id, segments).store.messages :
                    y.id = x.id /\ y.conversation = x.conversation
           /\ SQLiteUpdateMessageSegments(d, id, segments).store.events = d.events
           /\ SQLiteUpdateMessageSegments(d, id, segments).store.updated = d.updated
           /\ SQLiteUpdateMessageSegments(d, id, segments).store.reactions = d.reactions
           /\ (~ \E r \in d.messages : r.id = id) => SQLiteUpdateMessageSegments(d, id, segments).store = d
<1>1. PICK D, e : /\ D = {IF x.id = id THEN [x EXCEPT !.segments = segments] ELSE x : x \in d.messages}
                  /\ e = [d EXCEPT !.messages = D]
  OBVIOUS
<1>2. SQLiteUpdateMessageSegments(d, id, segments) = Reply(e, SQLiteGetMessage(e, id))
  BY ONLY <1>1 DEF SQLiteUpdateMessageSegments
<1>3. HasTables(d) /\ MessagesMatch(m.messages, d.messages, now)
  BY TogetherParts
<1>4. e.messages = D /\ e.events = d.events /\ e.updated = d.updated /\ e.reactions = d.reactions
  BY ONLY <1>1, <1>3 DEF HasTables
<1>5. ASSUME NEW x \in MessageRows, NEW y, y = IF x.id = id THEN [x EXCEPT !.segments = segments] ELSE x
      PROVE  y \in MessageRows /\ y.id = x.id /\ y.conversation = x.conversation
  BY ONLY <1>5, segments \in StoredSegments DEF MessageRows
<1>6. d.messages \subseteq MessageRows
  BY <1>3, MessageFacts
<1>7. ASSUME NEW x \in d.messages PROVE \E y \in D : y.id = x.id /\ y.conversation = x.conversation
  <2>1. PICK y : y = IF x.id = id THEN [x EXCEPT !.segments = segments] ELSE x
    OBVIOUS
  <2>2. y \in D
    BY ONLY <1>1, <2>1, x \in d.messages
  <2> QED BY ONLY <1>5, <1>6, <2>1, <2>2, x \in d.messages
<1>8. CASE \E r \in d.messages : r.id = id
  <2>1. PICK r \in d.messages : r.id = id
    BY <1>8
  <2>2. /\ FindMessageIn(m, id) = MessageOf(r) /\ FindMessageIn(m, id) # Nothing /\ r \in MessageRows
    BY ONLY <1>3, <2>1, MessageFound
  <2>3. PICK q : q = [r EXCEPT !.segments = segments]
    OBVIOUS
  <2>4. /\ q \in MessageRows /\ q.id = r.id /\ q.conversation = r.conversation /\ q.sender = r.sender
        /\ q.client = r.client /\ q.print = r.print /\ q.recalled = r.recalled /\ q.segments = segments
    BY ONLY <2>2, <2>3, segments \in StoredSegments DEF MessageRows
  <2>5. [MessageOf(r) EXCEPT !.segments = segments] = MessageOf(q)
    BY ONLY <2>4 DEF MessageOf
  <2>6. \A x, y \in d.messages : x.id = y.id => x = y
    BY ONLY <1>3, MessageFacts
  <2>7. D = {IF x.id = r.id THEN q ELSE x : x \in d.messages}
    <3>1. PICK F, H : /\ F = [x \in d.messages |-> IF x.id = id THEN [x EXCEPT !.segments = segments] ELSE x]
                      /\ H = [x \in d.messages |-> IF x.id = r.id THEN q ELSE x]
      OBVIOUS
    <3>2. \A x \in d.messages : F[x] = H[x]
      BY ONLY <2>1, <2>3, <2>6, <3>1
    <3>3. D = {F[x] : x \in d.messages}
      BY ONLY <1>1, <3>1
    <3>4. {IF x.id = r.id THEN q ELSE x : x \in d.messages} = {H[x] : x \in d.messages}
      BY ONLY <3>1
    <3> QED BY ONLY <3>2, <3>3, <3>4
  <2>8. PICK n : n = Changed(m, id, MessageOf(q))
    OBVIOUS
  <2>9. Together(n, e, now)
    BY ONLY <1>1, <2>1, <2>4, <2>7, <2>8, MessageChanged, Together(m, d, now)
  <2>10. MemoryUpdateMessageSegments(m, id, segments) = Reply(n, MemoryGetMessage(n, id))
    BY ONLY <2>2, <2>5, <2>8 DEF MemoryUpdateMessageSegments
  <2>11. /\ MessagesMatch(n.messages, e.messages, now) /\ n.reactions = e.reactions
         /\ e.reactions \subseteq ReactionRows /\ IsFiniteSet(e.reactions)
    BY ONLY <2>9, TogetherParts
  <2>12. /\ MemoryGetMessage(n, id) = SQLiteGetMessage(e, id)
         /\ MemoryGetMessage(n, id) # Nothing <=> \E x \in e.messages : x.id = id
         /\ MemoryGetMessage(n, id) \in LoadedMessages \cup {Nothing}
    BY ONLY <2>11, SameMessage
  <2>13. \E x \in e.messages : x.id = id
    BY ONLY <1>4, <1>7, <2>1
  <2>14. Sound(MemoryUpdateMessageSegments(m, id, segments), SQLiteUpdateMessageSegments(d, id, segments), now)
    BY ONLY <1>2, <2>9, <2>10, <2>12, SoundReply
  <2>15. MemoryUpdateMessageSegments(m, id, segments).answer = MemoryGetMessage(n, id)
         /\ SQLiteUpdateMessageSegments(d, id, segments).store = e
    BY ONLY <1>2, <2>10 DEF Reply
  <2> QED BY ONLY <1>4, <1>7, <1>8, <2>12, <2>13, <2>14, <2>15
<1>9. CASE ~ \E r \in d.messages : r.id = id
  <2>1. FindMessageIn(m, id) = Nothing /\ MessageRow(d, id) = Nothing
    BY ONLY <1>3, <1>9, MessageMissing
  <2>2. D = d.messages
    BY ONLY <1>1, <1>9
  <2>3. e = d
    BY ONLY <1>1, <1>3, <2>2 DEF HasTables
  <2>4. SQLiteGetMessage(e, id) = Nothing
    BY ONLY <2>1, <2>3 DEF SQLiteGetMessage
  <2>5. MemoryUpdateMessageSegments(m, id, segments) = Reply(m, Nothing)
    BY ONLY <2>1 DEF MemoryUpdateMessageSegments
  <2>6. Sound(MemoryUpdateMessageSegments(m, id, segments), SQLiteUpdateMessageSegments(d, id, segments), now)
    BY ONLY <1>2, <2>3, <2>4, <2>5, SoundReply, Together(m, d, now)
  <2>7. MemoryUpdateMessageSegments(m, id, segments).answer = Nothing
        /\ SQLiteUpdateMessageSegments(d, id, segments).store = d
    BY ONLY <1>2, <2>3, <2>5 DEF Reply
  <2> QED BY ONLY <1>9, <2>6, <2>7
<1> QED BY <1>8, <1>9

LEMMA MessageRecalled ==
    ASSUME NEW m, NEW d, NEW now, Together(m, d, now), NEW id
    PROVE  Sound(MemoryRecallMessage(m, id), SQLiteRecallMessage(d, id), now)
<1>1. PICK D, e : /\ D = {IF x.id = id THEN [x EXCEPT !.recalled = TRUE] ELSE x : x \in d.messages}
                  /\ e = [d EXCEPT !.messages = D]
  OBVIOUS
<1>2. SQLiteRecallMessage(d, id) = Reply(e, MessageRow(d, id) # Nothing)
  BY ONLY <1>1 DEF SQLiteRecallMessage
<1>3. HasTables(d) /\ MessagesMatch(m.messages, d.messages, now)
  BY TogetherParts
<1>4. CASE \E r \in d.messages : r.id = id
  <2>1. PICK r \in d.messages : r.id = id
    BY <1>4
  <2>2. /\ FindMessageIn(m, id) = MessageOf(r) /\ FindMessageIn(m, id) # Nothing /\ r \in MessageRows
        /\ MessageRow(d, id) # Nothing
    BY ONLY <1>3, <2>1, MessageFound
  <2>3. PICK q : q = [r EXCEPT !.recalled = TRUE]
    OBVIOUS
  <2>4. /\ q \in MessageRows /\ q.id = r.id /\ q.conversation = r.conversation /\ q.sender = r.sender
        /\ q.client = r.client /\ q.print = r.print /\ q.recalled = TRUE /\ q.segments = r.segments
    BY ONLY <2>2, <2>3 DEF MessageRows
  <2>5. [MessageOf(r) EXCEPT !.recalled = TRUE] = MessageOf(q)
    <3>1. PICK yes : yes = TRUE
      OBVIOUS
    <3>2. [MessageOf(r) EXCEPT !.recalled = yes] = [id |-> r.id, sender |-> r.sender, segments |-> r.segments, recalled |-> yes]
      BY ONLY DEF MessageOf
    <3>3. q.recalled = yes
      BY ONLY <2>4, <3>1, Zenon
    <3>4. MessageOf(q) = [id |-> r.id, sender |-> r.sender, segments |-> r.segments, recalled |-> yes]
      BY ONLY <2>4, <3>3 DEF MessageOf
    <3>5. [MessageOf(r) EXCEPT !.recalled = yes] = [MessageOf(r) EXCEPT !.recalled = TRUE]
      BY ONLY <3>1
    <3> QED BY ONLY <3>2, <3>4, <3>5
  <2>6. \A x, y \in d.messages : x.id = y.id => x = y
    BY ONLY <1>3, MessageFacts
  <2>7. D = {IF x.id = r.id THEN q ELSE x : x \in d.messages}
    <3>1. PICK F, H : /\ F = [x \in d.messages |-> IF x.id = id THEN [x EXCEPT !.recalled = TRUE] ELSE x]
                      /\ H = [x \in d.messages |-> IF x.id = r.id THEN q ELSE x]
      OBVIOUS
    <3>2. \A x \in d.messages : F[x] = H[x]
      BY ONLY <2>1, <2>3, <2>6, <3>1
    <3>3. D = {F[x] : x \in d.messages}
      BY ONLY <1>1, <3>1
    <3>4. {IF x.id = r.id THEN q ELSE x : x \in d.messages} = {H[x] : x \in d.messages}
      BY ONLY <3>1
    <3> QED BY ONLY <3>2, <3>3, <3>4
  <2>8. PICK n : n = Changed(m, id, MessageOf(q))
    OBVIOUS
  <2>9. Together(n, e, now)
    BY ONLY <1>1, <2>1, <2>4, <2>7, <2>8, MessageChanged, Together(m, d, now)
  <2>10. MemoryRecallMessage(m, id) = Reply(n, TRUE)
    BY ONLY <2>2, <2>5, <2>8 DEF MemoryRecallMessage
  <2>11. (MessageRow(d, id) # Nothing) = TRUE
    BY ONLY <2>2
  <2>12. SQLiteRecallMessage(d, id) = Reply(e, TRUE)
    BY ONLY <1>2, <2>11, Zenon
  <2> QED BY ONLY <2>9, <2>10, <2>12, SoundReply, Zenon
<1>5. CASE ~ \E r \in d.messages : r.id = id
  <2>1. FindMessageIn(m, id) = Nothing /\ MessageRow(d, id) = Nothing
    BY ONLY <1>3, <1>5, MessageMissing
  <2>2. D = d.messages
    BY ONLY <1>1, <1>5
  <2>3. e = d
    BY ONLY <1>1, <1>3, <2>2 DEF HasTables
  <2>4. MemoryRecallMessage(m, id) = Reply(m, FALSE)
    BY ONLY <2>1 DEF MemoryRecallMessage
  <2>5. (MessageRow(d, id) # Nothing) = FALSE
    BY ONLY <2>1
  <2>6. SQLiteRecallMessage(d, id) = Reply(d, FALSE)
    BY ONLY <1>2, <2>3, <2>5, Zenon
  <2> QED BY ONLY <2>4, <2>6, SoundReply, Together(m, d, now), Zenon
<1> QED BY <1>4, <1>5

(* Interaction events *)

LEMMA EventAppended ==
    ASSUME NEW m, NEW d, NEW now, Together(m, d, now), NEW e \in InteractionRows,
           \/ \E x \in d.events : x.actor = e.actor /\ x.event = e.event
           \/ \E r \in d.messages : r.id = e.message /\ r.conversation = e.conversation
    PROVE  Sound(MemoryAppendDynamicInteractionEvent(m, e), SQLiteAppendDynamicInteractionEvent(d, e), now)
<1>1. /\ m.events = d.events /\ EventsKeyed(d.events)
      /\ AboutMessages(d.updated, d.events, d.reactions, d.messages)
  BY TogetherParts
<1>2. PICK K : K = {x \in d.events : x.actor = e.actor /\ x.event = e.event}
  OBVIOUS
<1>3. K = {x \in m.events : x.actor = e.actor /\ x.event = e.event}
  BY ONLY <1>1, <1>2
<1>4. Nothing \notin K
  BY <1>1, <1>2, StoreAssumption DEF EventsKeyed
<1>5. CASE K = {}
  <2>1. PICK v : v = d.events \cup {e}
    OBVIOUS
  <2>2. EventsKeyed(v)
    BY ONLY <1>1, <1>2, <1>5, <2>1, e \in InteractionRows DEF EventsKeyed
  <2>3. \E r \in d.messages : r.id = e.message /\ r.conversation = e.conversation
    BY <1>2, <1>5
  <2>4. AboutMessages(d.updated, v, d.reactions, d.messages)
    BY ONLY <1>1, <2>1, <2>3 DEF AboutMessages
  <2>5. Together([m EXCEPT !.events = v], [d EXCEPT !.events = v], now)
    BY ONLY <2>2, <2>4, EventsWritten, Together(m, d, now)
  <2>6. TheRow(K) = Nothing
    BY ONLY <1>5 DEF TheRow
  <2>7. MemoryAppendDynamicInteractionEvent(m, e) = Reply([m EXCEPT !.events = v], Accepted)
    BY ONLY <1>1, <1>3, <1>5, <2>1 DEF MemoryAppendDynamicInteractionEvent
  <2>8. SQLiteAppendDynamicInteractionEvent(d, e) = Reply([d EXCEPT !.events = v], Accepted)
    BY ONLY <1>2, <2>1, <2>6 DEF SQLiteAppendDynamicInteractionEvent
  <2> QED BY ONLY <2>5, <2>7, <2>8, SoundReply
<1>6. CASE K # {}
  <2>1. TheRow(K) \in K /\ TheRow(K) # Nothing
    BY ONLY <1>4, <1>6, RowFound
  <2>2. \A x \in K : x = TheRow(K)
    BY ONLY <1>1, <1>2, <2>1 DEF EventsKeyed
  <2>3. PICK a : a = IF EventFingerprint(TheRow(K)) = EventFingerprint(e) THEN Duplicate ELSE Conflict
    OBVIOUS
  <2>4. (\E x \in K : EventFingerprint(x) = EventFingerprint(e)) <=> EventFingerprint(TheRow(K)) = EventFingerprint(e)
    BY ONLY <2>1, <2>2
  <2>5. MemoryAppendDynamicInteractionEvent(m, e) = Reply(m, a)
    BY ONLY <1>3, <1>6, <2>3, <2>4 DEF MemoryAppendDynamicInteractionEvent
  <2>6. SQLiteAppendDynamicInteractionEvent(d, e) = Reply(d, a)
    BY ONLY <1>2, <2>1, <2>3 DEF SQLiteAppendDynamicInteractionEvent
  <2> QED BY ONLY <2>5, <2>6, SoundReply, Together(m, d, now)
<1> QED BY <1>5, <1>6

LEMMA EventCommitted ==
    ASSUME NEW m, NEW d, NEW now, Together(m, d, now), NEW e \in InteractionRows, NEW segments \in StoredSegments,
           \A r \in d.messages : r.id = e.message => r.conversation = e.conversation
    PROVE  Sound(MemoryCommitDynamicInteractionEvent(m, e, segments),
                 SQLiteCommitDynamicInteractionEvent(d, e, segments), now)
<1>1. /\ m.events = d.events /\ EventsKeyed(d.events)
      /\ MessagesMatch(m.messages, d.messages, now)
  BY TogetherParts
<1>2. PICK K : K = {x \in d.events : x.actor = e.actor /\ x.event = e.event}
  OBVIOUS
<1>3. K = {x \in m.events : x.actor = e.actor /\ x.event = e.event}
  BY ONLY <1>1, <1>2
<1>4. Nothing \notin K
  BY <1>1, <1>2, StoreAssumption DEF EventsKeyed
<1>5. CASE K # {}
  <2>1. TheRow(K) # Nothing
    BY ONLY <1>4, <1>5, RowFound
  <2>2. MemoryCommitDynamicInteractionEvent(m, e, segments) = MemoryAppendDynamicInteractionEvent(m, e)
    BY ONLY <1>3, <1>5 DEF MemoryCommitDynamicInteractionEvent
  <2>3. SQLiteCommitDynamicInteractionEvent(d, e, segments) = SQLiteAppendDynamicInteractionEvent(d, e)
    BY ONLY <1>2, <2>1 DEF SQLiteCommitDynamicInteractionEvent
  <2>4. \E x \in d.events : x.actor = e.actor /\ x.event = e.event
    BY ONLY <1>2, <1>5
  <2> QED BY ONLY <2>2, <2>3, <2>4, EventAppended, Together(m, d, now), e \in InteractionRows
<1>6. CASE K = {} /\ ~ \E r \in d.messages : r.id = e.message
  <2>1. FindMessageIn(m, e.message) = Nothing /\ MessageRow(d, e.message) = Nothing
    BY ONLY <1>1, <1>6, MessageMissing
  <2>2. TheRow(K) = Nothing
    BY ONLY <1>6 DEF TheRow
  <2>3. MemoryCommitDynamicInteractionEvent(m, e, segments) = Reply(m, Refused)
    BY ONLY <1>3, <1>6, <2>1 DEF MemoryCommitDynamicInteractionEvent
  <2>4. SQLiteCommitDynamicInteractionEvent(d, e, segments) = Reply(d, Refused)
    BY ONLY <1>2, <2>1, <2>2 DEF SQLiteCommitDynamicInteractionEvent
  <2> QED BY ONLY <2>3, <2>4, SoundReply, Together(m, d, now)
<1>7. CASE K = {} /\ \E r \in d.messages : r.id = e.message
  <2>1. PICK r \in d.messages : r.id = e.message
    BY <1>7
  <2>2. FindMessageIn(m, e.message) # Nothing /\ MessageRow(d, e.message) # Nothing
    BY ONLY <1>1, <2>1, MessageFound
  <2>3. PICK n, t : /\ n = MemoryUpdateMessageSegments(m, e.message, segments).store
                    /\ t = SQLiteUpdateMessageSegments(d, e.message, segments).store
    OBVIOUS
  <2>4. Together(n, t, now) /\ t.events = d.events
        /\ \A x \in d.messages : \E y \in t.messages : y.id = x.id /\ y.conversation = x.conversation
    BY ONLY <2>3, SegmentsUpdated, Together(m, d, now), segments \in StoredSegments DEF Sound
  <2>5. /\ n.events = t.events /\ EventsKeyed(t.events)
        /\ AboutMessages(t.updated, t.events, t.reactions, t.messages)
    BY ONLY <2>4, TogetherParts
  <2>6. PICK v : v = t.events \cup {e}
    OBVIOUS
  <2>7. EventsKeyed(v)
    BY ONLY <1>2, <1>7, <2>4, <2>5, <2>6, e \in InteractionRows DEF EventsKeyed
  <2>8. \E y \in t.messages : y.id = e.message /\ y.conversation = e.conversation
    BY <2>1, <2>4
  <2>9. AboutMessages(t.updated, v, t.reactions, t.messages)
    BY ONLY <2>5, <2>6, <2>8 DEF AboutMessages
  <2>10. Together([n EXCEPT !.events = v], [t EXCEPT !.events = v], now)
    BY ONLY <2>4, <2>7, <2>9, EventsWritten
  <2>11. MemoryCommitDynamicInteractionEvent(m, e, segments) = Reply([n EXCEPT !.events = v], Accepted)
    BY ONLY <1>3, <1>7, <2>2, <2>3, <2>5, <2>6 DEF MemoryCommitDynamicInteractionEvent
  <2>12. TheRow(K) = Nothing
    BY ONLY <1>7 DEF TheRow
  <2>13. SQLiteCommitDynamicInteractionEvent(d, e, segments) = Reply([t EXCEPT !.events = v], Accepted)
    BY ONLY <1>2, <2>2, <2>3, <2>6, <2>12 DEF SQLiteCommitDynamicInteractionEvent
  <2> QED BY ONLY <2>10, <2>11, <2>13, SoundReply
<1> QED BY <1>5, <1>6, <1>7

(* Dynamic updates *)

LEMMA UpdateLookedUp ==
    ASSUME NEW m, NEW d, NEW now, Together(m, d, now), NEW u, NEW k, NEW print
    PROVE  MemoryLookupDynamicUpdate(m, u, k, print) = SQLiteLookupDynamicUpdate(d, u, k, print)
<1>1. /\ m.updated = d.updated /\ MessagesMatch(m.messages, d.messages, now)
      /\ m.reactions = d.reactions /\ d.reactions \subseteq ReactionRows /\ IsFiniteSet(d.reactions)
      /\ d.updated \subseteq KeyRows
  BY TogetherParts DEF AboutMessages
<1>2. PICK K : K = {x \in d.updated : x.sender = u /\ x.client = k}
  OBVIOUS
<1>3. K = {x \in m.updated : x.sender = u /\ x.client = k} /\ Nothing \notin K
  BY <1>1, <1>2, StoreAssumption
<1>4. CASE k = Empty \/ K = {}
  <2>1. MemoryLookupDynamicUpdate(m, u, k, print) = Nothing
    BY ONLY <1>3, <1>4 DEF MemoryLookupDynamicUpdate
  <2>2. k = Empty \/ TheRow(K) = Nothing
    BY ONLY <1>4 DEF TheRow
  <2>3. SQLiteLookupDynamicUpdate(d, u, k, print) = Nothing
    BY ONLY <1>2, <2>2 DEF SQLiteLookupDynamicUpdate
  <2> QED BY <2>1, <2>3
<1>5. CASE k # Empty /\ K # {}
  <2>1. PICK r : r = CHOOSE x \in K : TRUE
    OBVIOUS
  <2>2. TheRow(K) = r /\ r # Nothing
    BY ONLY <1>3, <1>5, <2>1 DEF TheRow
  <2>3. MemoryGetMessage(m, r.message) = SQLiteGetMessage(d, r.message)
    <3>1. PICK id : id = r.message
      OBVIOUS
    <3>2. /\ MemoryGetMessage(m, id) = SQLiteGetMessage(d, id)
          /\ MemoryGetMessage(m, id) # Nothing <=> \E x \in d.messages : x.id = id
          /\ MemoryGetMessage(m, id) \in LoadedMessages \cup {Nothing}
      BY ONLY <1>1, SameMessage
    <3> QED BY ONLY <3>1, <3>2
  <2>4. MemoryLookupDynamicUpdate(m, u, k, print)
          = IF r.print # print THEN Conflict ELSE [duplicate |-> TRUE, message |-> MemoryGetMessage(m, r.message)]
    BY ONLY <1>3, <1>5, <2>1 DEF MemoryLookupDynamicUpdate
  <2>5. SQLiteLookupDynamicUpdate(d, u, k, print)
          = IF r.print # print THEN Conflict ELSE [duplicate |-> TRUE, message |-> SQLiteGetMessage(d, r.message)]
    BY ONLY <1>2, <1>5, <2>2 DEF SQLiteLookupDynamicUpdate
  <2> QED BY ONLY <2>3, <2>4, <2>5
<1> QED BY <1>4, <1>5

LEMMA UpdateStored ==
    ASSUME NEW m, NEW d, NEW now, Together(m, d, now), NEW u \in People, NEW k \in ClientKeys,
           NEW id \in Nat, NEW segments \in StoredSegments, NEW print \in StorePrints
    PROVE  Sound(MemoryStoreDynamicUpdateIdempotent(m, u, k, print, id, segments),
                 SQLiteStoreDynamicUpdateIdempotent(d, u, k, print, id, segments), now)
<1>1. PICK known : known = MemoryLookupDynamicUpdate(m, u, k, print)
  OBVIOUS
<1>2. known = SQLiteLookupDynamicUpdate(d, u, k, print)
  BY ONLY <1>1, UpdateLookedUp, Together(m, d, now)
<1>3. PICK a, b : /\ a = MemoryUpdateMessageSegments(m, id, segments)
                  /\ b = SQLiteUpdateMessageSegments(d, id, segments)
  OBVIOUS
<1>4. /\ Sound(a, b, now) /\ (a.answer = Nothing <=> ~ \E r \in d.messages : r.id = id)
      /\ \A x \in d.messages : \E y \in b.store.messages : y.id = x.id /\ y.conversation = x.conversation
  BY ONLY <1>3, SegmentsUpdated, Together(m, d, now), segments \in StoredSegments
<1>5. a.answer = b.answer /\ Together(a.store, b.store, now)
  BY ONLY <1>4 DEF Sound
<1>6. CASE known # Nothing
  <2>1. MemoryStoreDynamicUpdateIdempotent(m, u, k, print, id, segments) = Reply(m, known)
    BY ONLY <1>1, <1>6 DEF MemoryStoreDynamicUpdateIdempotent
  <2>2. SQLiteStoreDynamicUpdateIdempotent(d, u, k, print, id, segments) = Reply(d, known)
    BY ONLY <1>2, <1>6 DEF SQLiteStoreDynamicUpdateIdempotent
  <2> QED BY ONLY <2>1, <2>2, SoundReply, Together(m, d, now)
<1>7. CASE known = Nothing /\ a.answer = Nothing
  <2>1. MemoryStoreDynamicUpdateIdempotent(m, u, k, print, id, segments) = Reply(m, Nothing)
    BY ONLY <1>1, <1>3, <1>7 DEF MemoryStoreDynamicUpdateIdempotent
  <2>2. SQLiteStoreDynamicUpdateIdempotent(d, u, k, print, id, segments) = Reply(d, Nothing)
    BY ONLY <1>2, <1>3, <1>5, <1>7 DEF SQLiteStoreDynamicUpdateIdempotent
  <2> QED BY ONLY <2>1, <2>2, SoundReply, Together(m, d, now)
<1>8. CASE known = Nothing /\ a.answer # Nothing
  <2>1. PICK key, v : /\ key = [sender |-> u, client |-> k, print |-> print, message |-> id]
                      /\ v = b.store.updated \cup {key}
    OBVIOUS
  <2>2. /\ a.store.updated = b.store.updated
        /\ AboutMessages(b.store.updated, b.store.events, b.store.reactions, b.store.messages)
    BY ONLY <1>5, TogetherParts
  <2>3. key \in KeyRows /\ key.message = id
    BY ONLY <2>1, u \in People, k \in ClientKeys, print \in StorePrints, id \in Nat DEF KeyRows
  <2>4. \E y \in b.store.messages : y.id = id
    BY ONLY <1>4, <1>8
  <2>5. AboutMessages(v, b.store.events, b.store.reactions, b.store.messages)
    BY ONLY <2>1, <2>2, <2>3, <2>4 DEF AboutMessages
  <2>6. Together([a.store EXCEPT !.updated = v], [b.store EXCEPT !.updated = v], now)
    BY ONLY <1>5, <2>5, UpdatedWritten
  <2>7. PICK n, e : /\ n = IF k = Empty THEN a.store ELSE [a.store EXCEPT !.updated = v]
                    /\ e = IF k = Empty THEN b.store ELSE [b.store EXCEPT !.updated = v]
    OBVIOUS
  <2>8. Together(n, e, now)
    BY ONLY <1>5, <2>6, <2>7
  <2>9. PICK x : x = [duplicate |-> FALSE, message |-> a.answer]
    OBVIOUS
  <2>10. MemoryStoreDynamicUpdateIdempotent(m, u, k, print, id, segments) = Reply(n, x)
    BY ONLY <1>1, <1>3, <1>8, <2>1, <2>2, <2>7, <2>9 DEF MemoryStoreDynamicUpdateIdempotent
  <2>11. SQLiteStoreDynamicUpdateIdempotent(d, u, k, print, id, segments) = Reply(e, x)
    BY ONLY <1>2, <1>3, <1>5, <1>8, <2>1, <2>7, <2>9 DEF SQLiteStoreDynamicUpdateIdempotent
  <2> QED BY ONLY <2>8, <2>10, <2>11, SoundReply
<1> QED BY <1>6, <1>7, <1>8

(* Reactions *)

LEMMA MessageReacted ==
    ASSUME NEW m, NEW d, NEW now, Together(m, d, now), NEW id \in Nat, NEW u \in People, NEW remove \in BOOLEAN
    PROVE  Sound(MemoryReactToMessage(m, id, u, "like", remove), SQLiteReactToMessage(d, id, u, "like", remove), now)
<1>1. /\ MessagesMatch(m.messages, d.messages, now) /\ HasMaps(m) /\ HasTables(d)
      /\ m.reactions = d.reactions /\ d.reactions \subseteq ReactionRows /\ IsFiniteSet(d.reactions)
      /\ AboutMessages(d.updated, d.events, d.reactions, d.messages)
  BY TogetherParts
<1>2. PICK x, v : /\ x = [message |-> id, emoji |-> "like", user |-> u]
                  /\ v = IF remove THEN d.reactions \ {x} ELSE d.reactions \cup {x}
  OBVIOUS
<1>3. x \in ReactionRows /\ x.message = id
  BY ONLY <1>2, id \in Nat, u \in People DEF ReactionRows
<1>4. PICK n, e : n = [m EXCEPT !.reactions = v] /\ e = [d EXCEPT !.reactions = v]
  OBVIOUS
<1>5. CASE \E r \in d.messages : r.id = id /\ ~ r.recalled
  <2>1. PICK r \in d.messages : r.id = id /\ ~ r.recalled
    BY <1>5
  <2>2. FindMessageIn(m, id) = MessageOf(r) /\ FindMessageIn(m, id) # Nothing
    BY ONLY <1>1, <2>1, MessageFound
  <2>3. v \subseteq ReactionRows /\ IsFiniteSet(v)
    <3>1. IsFiniteSet(d.reactions \ {x}) /\ IsFiniteSet(d.reactions \cup {x})
      BY ONLY <1>1, FS_Difference, FS_AddElement
    <3>2. CASE remove
      BY ONLY <1>1, <1>2, <3>1, <3>2
    <3>3. CASE ~ remove
      BY ONLY <1>1, <1>2, <1>3, <3>1, <3>3
    <3> QED BY <3>2, <3>3
  <2>4. AboutMessages(d.updated, d.events, v, d.messages)
    BY ONLY <1>1, <1>2, <1>3, <2>1 DEF AboutMessages
  <2>5. Together(n, e, now)
    BY ONLY <1>4, <2>3, <2>4, ReactionsWritten, Together(m, d, now)
  <2>6. /\ MessagesMatch(n.messages, e.messages, now)
        /\ n.reactions = e.reactions /\ e.reactions \subseteq ReactionRows /\ IsFiniteSet(e.reactions)
    BY ONLY <2>5, TogetherParts
  <2>7. /\ MemoryGetMessage(n, id) = SQLiteGetMessage(e, id)
        /\ MemoryGetMessage(n, id) # Nothing <=> \E y \in e.messages : y.id = id
        /\ MemoryGetMessage(n, id) \in LoadedMessages \cup {Nothing}
    BY ONLY <2>6, SameMessage
  <2>8. n = [m EXCEPT !.reactions = IF remove THEN m.reactions \ {x} ELSE m.reactions \cup {x}]
    BY ONLY <1>1, <1>2, <1>4
  <2>9. ~ FindMessageIn(m, id).recalled
    BY ONLY <2>1, <2>2, MessageFields
  <2>10. MemoryReactToMessage(m, id, u, "like", remove) = Reply(n, MemoryGetMessage(n, id))
    BY ONLY <1>2, <2>2, <2>8, <2>9 DEF MemoryReactToMessage
  <2>11. SQLiteReactToMessage(d, id, u, "like", remove) = Reply(e, SQLiteGetMessage(e, id))
    BY ONLY <1>2, <1>4, <1>5 DEF SQLiteReactToMessage
  <2> QED BY ONLY <2>5, <2>7, <2>10, <2>11, SoundReply
<1>6. CASE ~ \E r \in d.messages : r.id = id /\ ~ r.recalled
  <2>1. FindMessageIn(m, id) = Nothing \/ FindMessageIn(m, id).recalled
    <3>1. CASE \E r \in d.messages : r.id = id
      <4>1. PICK r \in d.messages : r.id = id
        BY <3>1
      <4>2. FindMessageIn(m, id) = MessageOf(r) /\ r.recalled
        BY ONLY <1>1, <1>6, <4>1, MessageFound
      <4> QED BY ONLY <4>2, MessageFields
    <3>2. CASE ~ \E r \in d.messages : r.id = id
      BY ONLY <1>1, <3>2, MessageMissing
    <3> QED BY <3>1, <3>2
  <2>2. MemoryReactToMessage(m, id, u, "like", remove) = Reply(m, Nothing)
    BY ONLY <2>1 DEF MemoryReactToMessage
  <2>3. SQLiteReactToMessage(d, id, u, "like", remove) = Reply(d, Nothing)
    BY ONLY <1>6 DEF SQLiteReactToMessage
  <2> QED BY ONLY <2>2, <2>3, SoundReply, Together(m, d, now)
<1> QED BY <1>5, <1>6

(* Read marks *)

LEMMA HistoryFacts ==
    ASSUME NEW m, NEW d, NEW now \in Nat, MessagesMatch(m.messages, d.messages, now), NEW c \in Places
    PROVE  /\ MemoryHistory(m, c) \in Seq(StoredMessages) /\ Len(MemoryHistory(m, c)) \in Nat
           /\ DOMAIN MemoryHistory(m, c) = 1 .. Len(MemoryHistory(m, c))
           /\ Rising(MemoryHistory(m, c))
           /\ \A i \in 1 .. Len(MemoryHistory(m, c)) :
                \E r \in d.messages : r.conversation = c /\ MemoryHistory(m, c)[i] = MessageOf(r)
           /\ \A r \in d.messages : r.conversation = c => HistoryHas(MemoryHistory(m, c), r)
<1> USE MessageFacts
<1>1. CASE c \in DOMAIN m.messages
  <2>1. MemoryHistory(m, c) = m.messages[c]
    BY ONLY <1>1 DEF MemoryHistory
  <2> QED BY <1>1, <2>1
<1>2. CASE c \notin DOMAIN m.messages
  <2>1. MemoryHistory(m, c) = <<>>
    BY ONLY <1>2 DEF MemoryHistory
  <2>2. ~ \E r \in d.messages : r.conversation = c
    BY <1>2
  <2>3. <<>> \in Seq(StoredMessages) /\ Len(<<>>) = 0 /\ DOMAIN <<>> = 1 .. 0
    OBVIOUS
  <2>4. Rising(<<>>)
    BY ONLY <2>3 DEF Rising
  <2> QED BY ONLY <2>1, <2>2, <2>3, <2>4
<1> QED BY <1>1, <1>2

LEMMA ConversationRead ==
    ASSUME NEW m, NEW d, NEW now \in Nat, Together(m, d, now), NEW c \in Places, NEW u \in People
    PROVE  Sound(MemoryMarkConversationRead(m, c, u, now), SQLiteMarkConversationRead(d, c, u, now), now)
<1>1. /\ MessagesMatch(m.messages, d.messages, now) /\ m.reads = d.reads /\ MarksTyped(d.reads)
  BY TogetherParts
<1>2. PICK h, n : h = MemoryHistory(m, c) /\ n = Len(h)
  OBVIOUS
<1>3. /\ h \in Seq(StoredMessages) /\ n \in Nat /\ DOMAIN h = 1 .. n /\ Rising(h)
      /\ \A i \in 1 .. n : \E r \in d.messages : r.conversation = c /\ h[i] = MessageOf(r)
      /\ \A r \in d.messages : r.conversation = c => HistoryHas(h, r)
  BY ONLY <1>1, <1>2, HistoryFacts, now \in Nat, c \in Places
<1>4. PICK last, at : /\ last = IF h = <<>> THEN 0 ELSE h[n].id
                      /\ at = IF h = <<>> THEN now ELSE h[n].id
  OBVIOUS
<1>5. /\ last \in Nat /\ at \in Nat /\ (last # 0 => at = last)
      /\ SQLiteNewestMessage(d, c, now) = [last |-> last, at |-> at]
  <2>1. PICK ids : ids = IdsIn(d, c)
    OBVIOUS
  <2>2. \A i : i \in ids <=> \E j \in 1 .. n : h[j].id = i
    <3>1. \A i : i \in ids <=> \E r \in d.messages : r.conversation = c /\ r.id = i
      BY ONLY <2>1 DEF IdsIn
    <3>2. \A r \in d.messages : r.conversation = c => \E j \in 1 .. n : h[j].id = r.id
      BY ONLY <1>2, <1>3, MessageFields DEF HistoryHas
    <3>3. \A j \in 1 .. n : \E r \in d.messages : r.conversation = c /\ r.id = h[j].id
      BY ONLY <1>3, MessageFields
    <3> QED BY ONLY <3>1, <3>2, <3>3
  <2>3. CASE h = <<>>
    <3>1. n = 0
      BY ONLY <1>2, <2>3
    <3>2. ids = {}
      BY ONLY <2>2, <3>1
    <3> QED BY ONLY <1>4, <2>1, <2>3, <3>2, now \in Nat DEF SQLiteNewestMessage
  <2>4. CASE h # <<>>
    <3>1. n \in 1 .. n /\ n > 0
      BY ONLY <1>2, <1>3, <2>4, EmptySeq
    <3>2. \A i \in 1 .. n : h[i].id \in Nat
      <4>1. \A i \in 1 .. n : h[i] \in StoredMessages
        BY ONLY <1>2, <1>3
      <4>2. \A x \in StoredMessages : x.id \in Nat
        BY ONLY DEF StoredMessages
      <4> QED BY ONLY <4>1, <4>2
    <3>3. \A i \in 1 .. n : h[n].id >= h[i].id
      BY ONLY <1>2, <1>3, <3>1, <3>2 DEF Rising
    <3>4. h[n].id \in ids /\ \A j \in ids : h[n].id >= j
      BY ONLY <2>2, <3>1, <3>3
    <3>5. \A i \in ids : (\A j \in ids : i >= j) => i = h[n].id
      BY ONLY <2>2, <3>1, <3>2, <3>4
    <3>6. (CHOOSE i \in ids : \A j \in ids : i >= j) = h[n].id
      BY ONLY <3>4, <3>5
    <3>7. ids # {}
      BY ONLY <3>4
    <3>8. last = h[n].id /\ at = h[n].id
      BY ONLY <1>4, <2>4
    <3> QED BY ONLY <2>1, <3>1, <3>2, <3>6, <3>7, <3>8 DEF SQLiteNewestMessage
  <2> QED BY <2>3, <2>4
<1>6. PICK x, v : /\ x = [conversation |-> c, user |-> u, last |-> last, at |-> at]
                  /\ v = {r \in d.reads : r.conversation # c \/ r.user # u} \cup {x}
  OBVIOUS
<1>7. x \in ReadRows /\ x.last = last /\ x.at = at
  BY ONLY <1>5, <1>6, c \in Places, u \in People DEF ReadRows
<1>8. MarksTyped(v)
  BY ONLY <1>1, <1>5, <1>6, <1>7 DEF MarksTyped
<1>9. Together([m EXCEPT !.reads = v], [d EXCEPT !.reads = v], now)
  BY ONLY <1>8, ReadsWritten, Together(m, d, now)
<1>10. MemoryMarkConversationRead(m, c, u, now) = Reply([m EXCEPT !.reads = v], x)
  BY ONLY <1>1, <1>2, <1>4, <1>6 DEF MemoryMarkConversationRead, Last
<1>11. SQLiteMarkConversationRead(d, c, u, now) = Reply([d EXCEPT !.reads = v], x)
  BY ONLY <1>5, <1>6 DEF SQLiteMarkConversationRead
<1> QED BY ONLY <1>9, <1>10, <1>11, SoundReply

(* A message is stored *)

LEMMA MessageAdded ==
    ASSUME NEW m, NEW d, NEW now \in Nat, MessagesMatch(m.messages, d.messages, now),
           NEW r \in MessageRows, r.id = now + 1
    PROVE  MessagesMatch(Put(m.messages, r.conversation, Append(MemoryHistory(m, r.conversation), MessageOf(r))),
                         d.messages \cup {r}, now + 1)
<1>1. PICK map, rows, c : map = m.messages /\ rows = d.messages /\ c = r.conversation
  OBVIOUS
<1>2. c \in Places
  BY ONLY <1>1, r \in MessageRows DEF MessageRows
<1>3. PICK h, n : h = MemoryHistory(m, c) /\ n = Len(h)
  OBVIOUS
<1>4. /\ h \in Seq(StoredMessages) /\ n \in Nat /\ DOMAIN h = 1 .. n
      /\ Rising(h)
      /\ \A i \in 1 .. n : \E x \in rows : x.conversation = c /\ h[i] = MessageOf(x)
      /\ \A x \in rows : x.conversation = c => HistoryHas(h, x)
  BY ONLY <1>1, <1>2, <1>3, HistoryFacts, now \in Nat, MessagesMatch(m.messages, d.messages, now)
<1>5. /\ DOMAIN map \subseteq Places
      /\ \A p \in DOMAIN map : map[p] \in Seq(StoredMessages) /\ Rising(map[p])
      /\ rows \subseteq MessageRows /\ IsFiniteSet(rows)
      /\ \A x \in rows : x.id \in 1 .. now
      /\ \A x, y \in rows : x.id = y.id => x = y
      /\ \A x \in rows : x.conversation \in DOMAIN map /\ HistoryHas(map[x.conversation], x)
      /\ \A p \in DOMAIN map : \A i \in 1 .. Len(map[p]) :
             \E x \in rows : x.conversation = p /\ map[p][i] = MessageOf(x)
  BY ONLY <1>1, MessageFacts, MessagesMatch(m.messages, d.messages, now)
<1>6. PICK q, g : q = MessageOf(r) /\ g = Append(h, q)
  OBVIOUS
<1>7. q \in StoredMessages /\ q.id = now + 1
  BY ONLY <1>6, r \in MessageRows, r.id = now + 1 DEF MessageRows, MessageOf, StoredMessages
<1>8. g \in Seq(StoredMessages) /\ Len(g) = n + 1 /\ g[n + 1] = q /\ \A i \in 1 .. n : g[i] = h[i]
  BY ONLY <1>3, <1>4, <1>6, <1>7
<1>9. \A i \in 1 .. n : h[i].id \in 1 .. now
  BY ONLY <1>4, <1>5, MessageFields
<1>10. Rising(g)
  <2>1. \A i, j \in 1 .. n : i < j => h[i].id < h[j].id
    BY ONLY <1>3, <1>4 DEF Rising
  <2>2. ASSUME NEW i \in 1 .. n + 1, NEW j \in 1 .. n + 1, i < j PROVE g[i].id < g[j].id
    <3>1. i \in 1 .. n
      BY ONLY <1>4, <2>2
    <3>2. CASE j \in 1 .. n
      BY ONLY <1>8, <2>1, <2>2, <3>1, <3>2
    <3>3. CASE j = n + 1
      BY ONLY <1>7, <1>8, <1>9, <3>1, <3>3, now \in Nat
    <3> QED BY ONLY <1>4, <3>2, <3>3, j \in 1 .. n + 1
  <2> QED BY ONLY <1>8, <2>2 DEF Rising
<1>11. PICK new, D : new = Put(map, c, g) /\ D = rows \cup {r}
  OBVIOUS
<1>12. DOMAIN new = DOMAIN map \cup {c} /\ new[c] = g /\ \A p \in DOMAIN map : p # c => new[p] = map[p]
  BY ONLY <1>11 DEF Put
<1>13. \A p \in DOMAIN new : new[p] \in Seq(StoredMessages) /\ Rising(new[p])
  BY ONLY <1>5, <1>8, <1>10, <1>12
<1>14. D \subseteq MessageRows /\ IsFiniteSet(D)
  BY ONLY <1>5, <1>11, r \in MessageRows, FS_AddElement
<1>15. \A x \in D : x.id \in 1 .. now + 1
  BY ONLY <1>5, <1>11, r.id = now + 1, now \in Nat
<1>16. \A x, y \in D : x.id = y.id => x = y
  BY ONLY <1>5, <1>11, r.id = now + 1, now \in Nat
<1>17. ASSUME NEW x \in D PROVE x.conversation \in DOMAIN new /\ HistoryHas(new[x.conversation], x)
  <2>1. CASE x = r
    <3>1. n + 1 \in 1 .. n + 1
      BY ONLY <1>4
    <3>2. HistoryHas(g, r)
      BY ONLY <1>6, <1>8, <3>1 DEF HistoryHas
    <3> QED BY ONLY <1>1, <1>12, <2>1, <3>2
  <2>2. CASE x \in rows /\ x.conversation = c
    <3>1. PICK i \in 1 .. n : h[i] = MessageOf(x)
      BY ONLY <1>3, <1>4, <2>2 DEF HistoryHas
    <3>2. i \in 1 .. n + 1
      BY ONLY <1>4, <3>1
    <3>3. HistoryHas(g, x)
      BY ONLY <1>8, <3>1, <3>2 DEF HistoryHas
    <3> QED BY ONLY <1>12, <2>2, <3>3
  <2>3. CASE x \in rows /\ x.conversation # c
    BY ONLY <1>5, <1>12, <2>3
  <2> QED BY ONLY <1>11, <1>17, <2>1, <2>2, <2>3
<1>18. ASSUME NEW p \in DOMAIN new, NEW i \in 1 .. Len(new[p])
       PROVE  \E x \in D : x.conversation = p /\ new[p][i] = MessageOf(x)
  <2>1. CASE p = c /\ i = n + 1
    BY ONLY <1>1, <1>6, <1>8, <1>11, <1>12, <2>1
  <2>2. CASE p = c /\ i # n + 1
    <3>1. i \in 1 .. n
      BY ONLY <1>4, <1>8, <1>12, <2>2, i \in 1 .. Len(new[p])
    <3> QED BY ONLY <1>4, <1>8, <1>11, <1>12, <2>2, <3>1
  <2>3. CASE p # c
    BY ONLY <1>5, <1>11, <1>12, <1>18, <2>3
  <2> QED BY <2>1, <2>2, <2>3
<1>19. DOMAIN new \subseteq Places
  BY ONLY <1>2, <1>5, <1>12
<1>20. MessagesMatch(new, D, now + 1)
  BY ONLY <1>13, <1>14, <1>15, <1>16, <1>17, <1>18, <1>19 DEF MessagesMatch
<1> QED BY ONLY <1>1, <1>3, <1>6, <1>11, <1>20

LEMMA MessageStored ==
    ASSUME NEW m, NEW d, NEW now \in Nat, Together(m, d, now), NEW c \in Places, NEW u \in People,
           NEW k \in ClientKeys, NEW segments \in StoredSegments
    PROVE  Sound(MemoryStoreMessageIdempotent(m, c, u, k, segments, now + 1),
                 SQLiteStoreMessageIdempotent(d, c, u, k, segments, now + 1), now + 1)
<1>1. /\ MessagesMatch(m.messages, d.messages, now) /\ KeysMatch(m.sent, d.messages)
      /\ AboutMessages(d.updated, d.events, d.reactions, d.messages)
  BY TogetherParts
<1>2. Together(m, d, now + 1)
  <2>1. now + 1 \in Nat /\ now <= now + 1
    OBVIOUS
  <2> QED BY ONLY <2>1, TimePasses, now \in Nat, Together(m, d, now)
<1>3. PICK print : print = MessageFingerprint(c, segments)
  OBVIOUS
<1>4. print \in StorePrints
  BY ONLY <1>3, c \in Places, segments \in StoredSegments DEF StorePrints, MessageFingerprint
<1>5. PICK f : f = FALSE
  OBVIOUS
<1>6. PICK r, kept : /\ kept = IF k = Empty THEN <<>> ELSE print
                     /\ r = [id |-> now + 1, conversation |-> c, sender |-> u, segments |-> segments,
                             client |-> k, print |-> kept, recalled |-> f]
  OBVIOUS
<1>7. /\ r.id = now + 1 /\ r.conversation = c /\ r.sender = u /\ r.segments = segments /\ r.client = k
      /\ r.print = kept /\ r.recalled = f
  BY ONLY <1>6
<1>8. kept \in StorePrints
  BY ONLY <1>4, <1>6 DEF StorePrints
<1>9. f \in BOOLEAN
  BY ONLY <1>5, Zenon
<1>10. r \in MessageRows
  BY ONLY <1>6, <1>8, <1>9, now \in Nat, c \in Places, u \in People, k \in ClientKeys,
          segments \in StoredSegments DEF MessageRows
<1>11. PICK mm, D : /\ mm = Put(m.messages, c, Append(MemoryHistory(m, c), MessageOf(r)))
                    /\ D = d.messages \cup {r}
  OBVIOUS
<1>12. MessagesMatch(mm, D, now + 1)
  BY ONLY <1>1, <1>7, <1>10, <1>11, MessageAdded, now \in Nat
<1>13. AboutMessages(d.updated, d.events, d.reactions, D)
  BY ONLY <1>1, <1>11 DEF AboutMessages
<1>14. [id |-> now + 1, sender |-> u, segments |-> segments, recalled |-> FALSE] = MessageOf(r)
  <2>1. MessageOf(r) = [id |-> now + 1, sender |-> u, segments |-> segments, recalled |-> f]
    BY ONLY <1>7 DEF MessageOf
  <2> QED BY ONLY <1>5, <2>1, Zenon
<1>15. [id |-> now + 1, conversation |-> c, sender |-> u, segments |-> segments, client |-> k,
        print |-> kept, recalled |-> FALSE] = r
  BY ONLY <1>5, <1>6, Zenon
<1>16. PICK a : a = [duplicate |-> FALSE, message |-> now + 1]
  OBVIOUS
<1>17. PICK K, J : /\ K = {x \in m.sent : x.sender = u /\ x.client = k}
                   /\ J = {x \in d.messages : x.sender = u /\ x.client = k}
  OBVIOUS
<1>18. PICK known : known = SQLiteIdempotentMessage(d, u, k, print)
  OBVIOUS
<1>19. CASE k = Empty
  <2>1. KeysMatch(m.sent, D)
    <3>1. {x \in D : x.client # Empty} = {x \in d.messages : x.client # Empty}
      BY ONLY <1>7, <1>11, <1>19
    <3>2. m.sent = {KeyOf(x) : x \in {x \in D : x.client # Empty}}
      BY ONLY <1>1, <3>1 DEF KeysMatch
    <3>3. \A x, y \in D : x.client # Empty /\ x.client = y.client /\ x.sender = y.sender => x = y
      BY ONLY <1>1, <1>7, <1>11, <1>19 DEF KeysMatch
    <3> QED BY ONLY <3>2, <3>3 DEF KeysMatch
  <2>2. Together([m EXCEPT !.messages = mm], [d EXCEPT !.messages = D], now + 1)
    BY ONLY <1>2, <1>12, <1>13, <2>1, MessagesWritten
  <2>3. MemoryStoreMessageIdempotent(m, c, u, k, segments, now + 1) = Reply([m EXCEPT !.messages = mm], a)
    BY ONLY <1>11, <1>14, <1>16, <1>19 DEF MemoryStoreMessageIdempotent
  <2>4. SQLiteStoreMessageIdempotent(d, c, u, k, segments, now + 1) = Reply([d EXCEPT !.messages = D], a)
    BY ONLY <1>3, <1>6, <1>11, <1>15, <1>16, <1>19 DEF SQLiteStoreMessageIdempotent
  <2> QED BY ONLY <2>2, <2>3, <2>4, SoundReply
<1>20. CASE k # Empty /\ J = {}
  <2>1. KeyOf(r) = [sender |-> u, client |-> k, print |-> print, message |-> now + 1]
    BY ONLY <1>6, <1>7, <1>20 DEF KeyOf
  <2>2. PICK ms : ms = m.sent \cup {KeyOf(r)}
    OBVIOUS
  <2>3. KeysMatch(ms, D)
    <3>1. {x \in D : x.client # Empty} = {x \in d.messages : x.client # Empty} \cup {r}
      BY ONLY <1>7, <1>11, <1>20
    <3>2. ms = {KeyOf(x) : x \in {x \in D : x.client # Empty}}
      BY ONLY <1>1, <2>2, <3>1 DEF KeysMatch
    <3>3. \A x, y \in D : x.client # Empty /\ x.client = y.client /\ x.sender = y.sender => x = y
      BY ONLY <1>1, <1>7, <1>11, <1>17, <1>20 DEF KeysMatch
    <3> QED BY ONLY <3>2, <3>3 DEF KeysMatch
  <2>4. K = {}
    BY ONLY <1>1, <1>17, <1>20 DEF KeysMatch, KeyOf
  <2>5. known = Nothing
    <3>1. TheRow(J) = Nothing
      BY ONLY <1>20 DEF TheRow
    <3> QED BY ONLY <1>17, <1>18, <3>1 DEF SQLiteIdempotentMessage
  <2>6. PICK n, e : n = [[m EXCEPT !.messages = mm] EXCEPT !.sent = ms] /\ e = [d EXCEPT !.messages = D]
    OBVIOUS
  <2>7. Together(n, e, now + 1)
    BY ONLY <1>2, <1>12, <1>13, <2>3, <2>6, MessagesAndKeysWritten
  <2>8. [m EXCEPT !.messages = mm].sent = m.sent
    <3>1. HasMaps(m)
      BY TogetherParts
    <3> QED BY ONLY <3>1 DEF HasMaps
  <2>9. MemoryStoreMessageIdempotent(m, c, u, k, segments, now + 1) = Reply(n, a)
    <3>1. MemoryStoreMessageIdempotent(m, c, u, k, segments, now + 1)
            = Reply([[m EXCEPT !.messages = mm] EXCEPT !.sent = @ \cup {KeyOf(r)}], a)
      BY ONLY <1>3, <1>11, <1>14, <1>16, <1>17, <1>20, <2>1, <2>4 DEF MemoryStoreMessageIdempotent
    <3> QED BY ONLY <2>2, <2>6, <2>8, <3>1
  <2>10. SQLiteStoreMessageIdempotent(d, c, u, k, segments, now + 1) = Reply(e, a)
    BY ONLY <1>3, <1>6, <1>11, <1>15, <1>16, <1>18, <1>20, <2>5, <2>6 DEF SQLiteStoreMessageIdempotent
  <2> QED BY ONLY <2>7, <2>9, <2>10, SoundReply
<1>21. CASE k # Empty /\ J # {}
  <2>1. PICK x \in d.messages : x.sender = u /\ x.client = k
    BY ONLY <1>17, <1>21
  <2>2. J = {x}
    BY ONLY <1>1, <1>17, <1>21, <2>1 DEF KeysMatch
  <2>3. x \in MessageRows
    BY ONLY <1>1, <2>1, MessageFacts
  <2>4. TheRow(J) = x /\ x # Nothing
    <3>1. x # Nothing
      BY ONLY <2>3, StoreAssumption
    <3> QED BY ONLY <2>2, <3>1, OneRow
  <2>5. KeyOf(x).sender = u /\ KeyOf(x).client = k /\ KeyOf(x).print = x.print /\ KeyOf(x).message = x.id
    BY ONLY <2>1 DEF KeyOf
  <2>6. K = {KeyOf(x)}
    <3>1. \A y \in d.messages : KeyOf(y).sender = y.sender /\ KeyOf(y).client = y.client
      BY ONLY DEF KeyOf
    <3>2. \A y \in J : y = x
      BY ONLY <2>2
    <3>3. KeyOf(x) \in K
      BY ONLY <1>1, <1>17, <1>21, <2>1, <2>5 DEF KeysMatch
    <3>4. \A z \in K : z = KeyOf(x)
      BY ONLY <1>1, <1>17, <3>1, <3>2 DEF KeysMatch
    <3> QED BY ONLY <3>3, <3>4
  <2>7. PICK b : b = IF x.print # print THEN Conflict ELSE [duplicate |-> TRUE, message |-> x.id]
    OBVIOUS
  <2>8. known = b
    BY ONLY <1>17, <1>18, <2>4, <2>7 DEF SQLiteIdempotentMessage
  <2>9. b # Nothing
    <3>1. PICK t, w : t = TRUE /\ w = [duplicate |-> t, message |-> x.id]
      OBVIOUS
    <3>2. t \in BOOLEAN
      BY ONLY <3>1, Zenon
    <3>3. x.id \in Nat
      BY ONLY <2>3 DEF MessageRows
    <3>4. w \in [duplicate : BOOLEAN, message : Nat \cup {Nothing} \cup LoadedMessages]
      BY ONLY <3>1, <3>2, <3>3
    <3>5. w # Nothing /\ Conflict # Nothing
      BY ONLY <3>4, StoreAssumption
    <3>6. w = [duplicate |-> TRUE, message |-> x.id]
      BY ONLY <3>1, Zenon
    <3> QED BY ONLY <2>7, <3>5, <3>6
  <2>10. (CHOOSE y \in K : TRUE) = KeyOf(x)
    BY ONLY <2>6
  <2>11. MemoryStoreMessageIdempotent(m, c, u, k, segments, now + 1) = Reply(m, b)
    <3>1. K # {}
      BY ONLY <2>6
    <3>2. MemoryStoreMessageIdempotent(m, c, u, k, segments, now + 1)
            = Reply(m, IF (CHOOSE y \in K : TRUE).print # print THEN Conflict
                       ELSE [duplicate |-> TRUE, message |-> (CHOOSE y \in K : TRUE).message])
      BY ONLY <1>3, <1>17, <1>21, <3>1 DEF MemoryStoreMessageIdempotent
    <3> QED BY ONLY <2>5, <2>7, <2>10, <3>2
  <2>12. SQLiteStoreMessageIdempotent(d, c, u, k, segments, now + 1) = Reply(d, b)
    BY ONLY <1>3, <1>18, <1>21, <2>8, <2>9 DEF SQLiteStoreMessageIdempotent
  <2> QED BY ONLY <1>2, <2>11, <2>12, SoundReply
<1> QED BY <1>19, <1>20, <1>21

(* Deletions *)

\* What is kept about the messages that stay.
LEMMA KeysPurged ==
    ASSUME NEW sent, NEW rows, NEW ids, KeysMatch(sent, rows)
    PROVE  KeysMatch({x \in sent : x.message \notin ids}, {r \in rows : r.id \notin ids})
<1>1. PICK D : D = {r \in rows : r.id \notin ids}
  OBVIOUS
<1>2. \A r \in rows : KeyOf(r).message = r.id
  BY ONLY DEF KeyOf
<1>3. {x \in sent : x.message \notin ids} = {KeyOf(r) : r \in {r \in D : r.client # Empty}}
  BY ONLY <1>1, <1>2, KeysMatch(sent, rows) DEF KeysMatch
<1>4. \A r, q \in D : r.client # Empty /\ r.client = q.client /\ r.sender = q.sender => r = q
  BY ONLY <1>1, KeysMatch(sent, rows) DEF KeysMatch
<1>5. KeysMatch({x \in sent : x.message \notin ids}, D)
  BY ONLY <1>3, <1>4 DEF KeysMatch
<1> QED BY ONLY <1>1, <1>5

\* A history without one of its messages.
LEMMA MessageTakenOut ==
    ASSUME NEW h \in Seq(StoredMessages), Rising(h), NEW id
    PROVE  /\ Without(h, id) \in Seq(StoredMessages) /\ Rising(Without(h, id))
           /\ \A i \in 1 .. Len(Without(h, id)) : \E j \in 1 .. Len(h) : Without(h, id)[i] = h[j] /\ h[j].id # id
           /\ \A j \in 1 .. Len(h) : h[j].id # id => \E i \in 1 .. Len(Without(h, id)) : Without(h, id)[i] = h[j]
<1>1. PICK n, g, at : n = Len(h) /\ g = Without(h, id) /\ at = {i \in DOMAIN h : h[i].id = id}
  OBVIOUS
<1>2. n \in Nat /\ DOMAIN h = 1 .. n /\ \A i \in 1 .. n : h[i] \in StoredMessages
  BY ONLY <1>1, h \in Seq(StoredMessages)
<1>3. \A i \in 1 .. n : h[i].id \in Nat
  <2>1. \A x \in StoredMessages : x.id \in Nat
    BY ONLY DEF StoredMessages
  <2> QED BY ONLY <1>2, <2>1
<1>4. CASE at = {}
  <2>1. g = h
    BY ONLY <1>1, <1>4 DEF Without
  <2> QED BY ONLY <1>1, <1>2, <1>4, <2>1, h \in Seq(StoredMessages), Rising(h)
<1>5. CASE at # {}
  <2>1. PICK k : k = CHOOSE i \in at : TRUE
    OBVIOUS
  <2>2. k \in 1 .. n /\ h[k].id = id
    BY ONLY <1>1, <1>2, <1>5, <2>1
  <2>3. g = SubSeq(h, 1, k - 1) \o SubSeq(h, k + 1, n)
    BY ONLY <1>1, <1>5, <2>1 DEF Without, RemoveAt
  <2>4. PICK a, b : a = SubSeq(h, 1, k - 1) /\ b = SubSeq(h, k + 1, n)
    OBVIOUS
  <2>5. a \in Seq(StoredMessages) /\ Len(a) = k - 1 /\ \A i \in 1 .. k - 1 : a[i] = h[i]
    <3>1. \A i \in 1 .. (k - 1) - 1 + 1 : h[1 + i - 1] \in StoredMessages
      BY ONLY <1>2, <2>2
    <3> QED BY ONLY <1>1, <1>2, <2>2, <2>4, <3>1, h \in Seq(StoredMessages)
  <2>6. b \in Seq(StoredMessages) /\ Len(b) = n - k /\ \A i \in 1 .. n - k : b[i] = h[k + i]
    BY ONLY <1>1, <1>2, <2>2, <2>4, h \in Seq(StoredMessages)
  <2>7. g \in Seq(StoredMessages) /\ Len(g) = n - 1
    BY ONLY <1>2, <2>2, <2>3, <2>4, <2>5, <2>6
  <2>8. \A i \in 1 .. n - 1 : g[i] = IF i < k THEN h[i] ELSE h[i + 1]
    BY ONLY <1>2, <2>2, <2>3, <2>4, <2>5, <2>6
  <2>9. \A i, j \in 1 .. n : i < j => h[i].id < h[j].id
    BY ONLY <1>1, Rising(h) DEF Rising
  <2>10. Rising(g)
    <3>1. ASSUME NEW i \in 1 .. n - 1, NEW j \in 1 .. n - 1, i < j PROVE g[i].id < g[j].id
      <4>1. PICK x, y : x = (IF i < k THEN i ELSE i + 1) /\ y = (IF j < k THEN j ELSE j + 1)
        OBVIOUS
      <4>2. x \in 1 .. n /\ y \in 1 .. n /\ x < y
        BY ONLY <1>2, <2>2, <3>1, <4>1
      <4>3. g[i] = h[x] /\ g[j] = h[y]
        BY ONLY <2>8, <3>1, <4>1
      <4> QED BY ONLY <2>9, <4>2, <4>3
    <3> QED BY ONLY <2>7, <3>1 DEF Rising
  <2>11. ASSUME NEW i \in 1 .. n - 1 PROVE \E j \in 1 .. n : g[i] = h[j] /\ h[j].id # id
    <3>1. PICK x : x = (IF i < k THEN i ELSE i + 1)
      OBVIOUS
    <3>2. x \in 1 .. n /\ (x < k \/ k < x) /\ g[i] = h[x]
      BY ONLY <1>2, <2>2, <2>8, <2>11, <3>1
    <3>3. h[x].id < h[k].id \/ h[k].id < h[x].id
      BY ONLY <2>2, <2>9, <3>2
    <3>4. h[x].id # id
      BY ONLY <1>3, <2>2, <3>2, <3>3
    <3> QED BY ONLY <3>2, <3>4
  <2>12. ASSUME NEW j \in 1 .. n, h[j].id # id PROVE \E i \in 1 .. n - 1 : g[i] = h[j]
    <3>1. PICK x : x = (IF j < k THEN j ELSE j - 1)
      OBVIOUS
    <3>2. j # k
      BY ONLY <2>2, <2>12
    <3>3. x \in 1 .. n - 1 /\ (j < k => x < k /\ x = j) /\ (~ (j < k) => ~ (x < k) /\ x + 1 = j)
      BY ONLY <1>2, <2>2, <2>12, <3>1, <3>2
    <3>4. g[x] = h[j]
      BY ONLY <2>8, <3>3
    <3> QED BY ONLY <3>3, <3>4
  <2> QED BY ONLY <1>1, <2>7, <2>10, <2>11, <2>12
<1> QED BY <1>4, <1>5

\* The history of a conversation goes, with the rows of its messages.
LEMMA HistoryDropped ==
    ASSUME NEW map, NEW rows, NEW now, MessagesMatch(map, rows, now), NEW c
    PROVE  MessagesMatch(Restrict(map, DOMAIN map \ {c}), {r \in rows : r.conversation # c}, now)
<1>1. PICK new, D : new = Restrict(map, DOMAIN map \ {c}) /\ D = {r \in rows : r.conversation # c}
  OBVIOUS
<1>2. DOMAIN new = DOMAIN map \ {c} /\ \A p \in DOMAIN new : new[p] = map[p]
  BY ONLY <1>1 DEF Restrict
<1>3. IsFiniteSet(D)
  BY ONLY <1>1, MessageFacts, FS_Subset, MessagesMatch(map, rows, now)
<1>4. MessagesMatch(new, D, now)
  <2>1. /\ DOMAIN map \subseteq Places
        /\ \A p \in DOMAIN map : map[p] \in Seq(StoredMessages) /\ Rising(map[p])
        /\ rows \subseteq MessageRows /\ \A r \in rows : r.id \in 1 .. now
        /\ \A r, q \in rows : r.id = q.id => r = q
        /\ \A r \in rows : r.conversation \in DOMAIN map /\ HistoryHas(map[r.conversation], r)
        /\ \A p \in DOMAIN map : \A i \in 1 .. Len(map[p]) :
               \E r \in rows : r.conversation = p /\ map[p][i] = MessageOf(r)
    BY ONLY MessageFacts, MessagesMatch(map, rows, now)
  <2>2. \A p \in DOMAIN new : new[p] \in Seq(StoredMessages) /\ Rising(new[p])
    BY ONLY <1>2, <2>1
  <2>3. D \subseteq MessageRows /\ \A r \in D : r.id \in 1 .. now
    BY ONLY <1>1, <2>1
  <2>4. \A r, q \in D : r.id = q.id => r = q
    BY ONLY <1>1, <2>1
  <2>5. \A r \in D : r.conversation \in DOMAIN new /\ HistoryHas(new[r.conversation], r)
    BY ONLY <1>1, <1>2, <2>1
  <2>6. ASSUME NEW p \in DOMAIN new, NEW i \in 1 .. Len(new[p])
        PROVE  \E r \in D : r.conversation = p /\ new[p][i] = MessageOf(r)
    <3>1. p \in DOMAIN map /\ p # c /\ new[p] = map[p]
      BY ONLY <1>2, <2>6
    <3>2. PICK r \in rows : r.conversation = p /\ map[p][i] = MessageOf(r)
      BY ONLY <2>1, <2>6, <3>1
    <3> QED BY ONLY <1>1, <3>1, <3>2
  <2>7. DOMAIN new \subseteq Places
    BY ONLY <1>2, <2>1
  <2> QED BY ONLY <1>3, <2>2, <2>3, <2>4, <2>5, <2>6, <2>7 DEF MessagesMatch
<1> QED BY ONLY <1>1, <1>4

LEMMA ConversationDropped ==
    ASSUME NEW map, NEW rows, ConversationsMatch(map, rows), NEW c
    PROVE  ConversationsMatch(Restrict(map, DOMAIN map \ {c}), {r \in rows : r.id # c})
<1>1. PICK new, D : new = Restrict(map, DOMAIN map \ {c}) /\ D = {r \in rows : r.id # c}
  OBVIOUS
<1>2. DOMAIN new = DOMAIN map \ {c} /\ \A p \in DOMAIN new : new[p] = map[p]
  BY ONLY <1>1 DEF Restrict
<1>3. \A p : SavedRow(p).id = p
  BY ONLY DEF SavedRow
<1>4. D = {SavedRow(p) : p \in DOMAIN new}
  BY ONLY <1>1, <1>2, <1>3, ConversationsMatch(map, rows) DEF ConversationsMatch
<1>5. ConversationsMatch(new, D)
  BY ONLY <1>2, <1>4, ConversationsMatch(map, rows) DEF ConversationsMatch
<1> QED BY ONLY <1>1, <1>5

LEMMA ForgottenFields ==
    ASSUME NEW m, HasMaps(m), NEW ids, NEW n, n = ForgottenMessage(m, ids)
    PROVE  n = [conversations |-> m.conversations, preferences |-> m.preferences, messages |-> m.messages,
                sent |-> {x \in m.sent : x.message \notin ids}, updated |-> {x \in m.updated : x.message \notin ids},
                events |-> {x \in m.events : x.message \notin ids},
                reactions |-> {x \in m.reactions : x.message \notin ids},
                reads |-> m.reads, groups |-> m.groups, announcements |-> m.announcements,
                announcementReads |-> m.announcementReads]
<1>1. PICK a, b, c, e : /\ a = {x \in m.sent : x.message \notin ids} /\ b = {x \in m.updated : x.message \notin ids}
                        /\ c = {x \in m.events : x.message \notin ids} /\ e = {x \in m.reactions : x.message \notin ids}
  OBVIOUS
<1>2. n = [m EXCEPT !.reactions = e, !.sent = a, !.updated = b, !.events = c]
  BY ONLY <1>1, n = ForgottenMessage(m, ids) DEF ForgottenMessage
<1>3. n = [conversations |-> m.conversations, preferences |-> m.preferences, messages |-> m.messages,
           sent |-> a, updated |-> b, events |-> c, reactions |-> e, reads |-> m.reads, groups |-> m.groups,
           announcements |-> m.announcements, announcementReads |-> m.announcementReads]
  BY ONLY <1>2, HasMaps(m) DEF HasMaps
<1> QED BY ONLY <1>1, <1>3

LEMMA ClearedFields ==
    ASSUME NEW d, HasTables(d), NEW ids, NEW n, n = WithoutRecordsOf(d, ids)
    PROVE  n = [conversations |-> d.conversations, preferences |-> d.preferences, messages |-> d.messages,
                updated |-> {x \in d.updated : x.message \notin ids}, events |-> d.events,
                reactions |-> {x \in d.reactions : x.message \notin ids}, reads |-> d.reads, groups |-> d.groups,
                members |-> d.members, announcements |-> d.announcements, announcementReads |-> d.announcementReads]
<1>1. PICK b, e : /\ b = {x \in d.updated : x.message \notin ids} /\ e = {x \in d.reactions : x.message \notin ids}
  OBVIOUS
<1>2. n = [d EXCEPT !.reactions = e, !.updated = b]
  BY ONLY <1>1, n = WithoutRecordsOf(d, ids) DEF WithoutRecordsOf
<1>3. n = [conversations |-> d.conversations, preferences |-> d.preferences, messages |-> d.messages,
           updated |-> b, events |-> d.events, reactions |-> e, reads |-> d.reads, groups |-> d.groups,
           members |-> d.members, announcements |-> d.announcements, announcementReads |-> d.announcementReads]
  BY ONLY <1>2, HasTables(d) DEF HasTables
<1> QED BY ONLY <1>1, <1>3

\* The reactions are gone before PostgreSQL deletes the message.
LEMMA PostgresDeletesMessage ==
    ASSUME NEW d, HasTables(d), NEW id
    PROVE  PostgresDeleteMessage(d, id) = SQLiteDeleteMessage(d, id)
<1>1. PICK w : w = WithoutRecordsOf(d, {id})
  OBVIOUS
<1>2. w = [conversations |-> d.conversations, preferences |-> d.preferences, messages |-> d.messages,
           updated |-> {x \in d.updated : x.message \notin {id}}, events |-> d.events,
           reactions |-> {x \in d.reactions : x.message \notin {id}}, reads |-> d.reads, groups |-> d.groups,
           members |-> d.members, announcements |-> d.announcements, announcementReads |-> d.announcementReads]
  BY ONLY <1>1, ClearedFields, HasTables(d)
<1>3. HasTables(w) /\ w.reactions = {x \in d.reactions : x.message \notin {id}} /\ w.messages = d.messages
  BY ONLY <1>2 DEF HasTables
<1>4. PICK v, D : v = {x \in w.events : x.message # id} /\ D = {x \in w.messages : x.id # id}
  OBVIOUS
<1>5. PICK c : c = [w EXCEPT !.events = v]
  OBVIOUS
<1>6. c.reactions = w.reactions /\ c.messages = w.messages
  BY ONLY <1>3, <1>5 DEF HasTables
<1>7. ~ DeletionRefused(c, {id})
  BY ONLY <1>3, <1>6 DEF DeletionRefused
<1>8. [c EXCEPT !.messages = D] = [w EXCEPT !.events = v, !.messages = D]
  BY ONLY <1>3, <1>5 DEF HasTables
<1>9. PICK a : a = (MessageRow(d, id) # Nothing)
  OBVIOUS
<1>10. PostgresDeleteMessage(d, id) = Reply([c EXCEPT !.messages = D], a)
  BY ONLY <1>1, <1>4, <1>5, <1>6, <1>7, <1>9 DEF PostgresDeleteMessage
<1>11. SQLiteDeleteMessage(d, id) = Reply([w EXCEPT !.events = v, !.messages = D], a)
  BY ONLY <1>1, <1>4, <1>9 DEF SQLiteDeleteMessage
<1> QED BY ONLY <1>8, <1>10, <1>11

LEMMA MessageDeleted ==
    ASSUME NEW m, NEW d, NEW now, Together(m, d, now), NEW id
    PROVE  Sound(MemoryDeleteMessage(m, id), SQLiteDeleteMessage(d, id), now)
<1>1. /\ HasMaps(m) /\ HasTables(d) /\ MessagesMatch(m.messages, d.messages, now)
      /\ KeysMatch(m.sent, d.messages) /\ AboutMessages(d.updated, d.events, d.reactions, d.messages)
      /\ m.updated = d.updated /\ m.events = d.events /\ m.reactions = d.reactions
      /\ d.reactions \subseteq ReactionRows /\ IsFiniteSet(d.reactions) /\ EventsKeyed(d.events)
  BY ONLY TogetherParts, Together(m, d, now)
<1>0. PICK ids : ids = {id}
  OBVIOUS
<1>2. PICK S, U, E, R, D : /\ S = {x \in m.sent : x.message \notin ids}
                           /\ U = {x \in d.updated : x.message \notin ids} /\ E = {x \in d.events : x.message \notin ids}
                           /\ R = {x \in d.reactions : x.message \notin ids} /\ D = {x \in d.messages : x.id \notin ids}
  OBVIOUS
<1>3. /\ KeysMatch(S, D) /\ AboutMessages(U, E, R, D) /\ EventsKeyed(E) /\ R \subseteq ReactionRows /\ IsFiniteSet(R)
  <2>1. KeysMatch(S, D)
    BY ONLY <1>1, <1>2, KeysPurged
  <2>2. AboutMessages(U, E, R, D)
    BY ONLY <1>1, <1>2 DEF AboutMessages
  <2>3. EventsKeyed(E)
    BY ONLY <1>1, <1>2 DEF EventsKeyed
  <2>4. R \subseteq ReactionRows /\ IsFiniteSet(R)
    <3>1. R \subseteq d.reactions
      BY ONLY <1>2
    <3> QED BY ONLY <1>1, <3>1, FS_Subset
  <2> QED BY ONLY <2>1, <2>2, <2>3, <2>4
<1>4. PICK w, e : w = WithoutRecordsOf(d, ids) /\ e = [w EXCEPT !.events = E, !.messages = D]
  OBVIOUS
<1>5. w = [conversations |-> d.conversations, preferences |-> d.preferences, messages |-> d.messages,
           updated |-> U, events |-> d.events, reactions |-> R, reads |-> d.reads, groups |-> d.groups,
           members |-> d.members, announcements |-> d.announcements, announcementReads |-> d.announcementReads]
  BY ONLY <1>1, <1>2, <1>4, ClearedFields
<1>6. e = [conversations |-> d.conversations, preferences |-> d.preferences, messages |-> D,
           updated |-> U, events |-> E, reactions |-> R, reads |-> d.reads, groups |-> d.groups,
           members |-> d.members, announcements |-> d.announcements, announcementReads |-> d.announcementReads]
  <2>1. HasTables(w)
    BY ONLY <1>5 DEF HasTables
  <2>2. e = [conversations |-> w.conversations, preferences |-> w.preferences, messages |-> D,
             updated |-> w.updated, events |-> E, reactions |-> w.reactions, reads |-> w.reads, groups |-> w.groups,
             members |-> w.members, announcements |-> w.announcements, announcementReads |-> w.announcementReads]
    BY ONLY <1>4, <2>1 DEF HasTables
  <2> QED BY ONLY <1>5, <2>2
<1>7. w.events = d.events /\ w.messages = d.messages
  BY ONLY <1>5
<1>8. SQLiteDeleteMessage(d, id) = Reply(e, MessageRow(d, id) # Nothing)
  <2>1. E = {x \in w.events : x.message # id} /\ D = {x \in w.messages : x.id # id}
    BY ONLY <1>0, <1>2, <1>7
  <2>2. SQLiteDeleteMessage(d, id)
          = Reply([w EXCEPT !.events = {x \in w.events : x.message # id}, !.messages = {x \in w.messages : x.id # id}],
                  MessageRow(d, id) # Nothing)
    BY ONLY <1>0, <1>2, <1>4 DEF SQLiteDeleteMessage
  <2> QED BY ONLY <1>4, <2>1, <2>2
<1>9. CASE \E r \in d.messages : r.id = id
  <2>1. PICK r \in d.messages : r.id = id
    BY <1>9
  <2>2. FindMessageIn(m, id) # Nothing /\ MessageRow(d, id) # Nothing
    BY ONLY <1>1, <2>1, MessageFound
  <2>3. PICK f, mm, n : /\ f = ForgottenMessage(m, ids) /\ mm = [c \in DOMAIN m.messages |-> Without(m.messages[c], id)]
                        /\ n = [f EXCEPT !.messages = mm]
    OBVIOUS
  <2>4. f = [conversations |-> m.conversations, preferences |-> m.preferences, messages |-> m.messages,
             sent |-> S, updated |-> U, events |-> E, reactions |-> R, reads |-> m.reads, groups |-> m.groups,
             announcements |-> m.announcements, announcementReads |-> m.announcementReads]
    BY ONLY <1>1, <1>2, <2>3, ForgottenFields
  <2>5. n = [conversations |-> m.conversations, preferences |-> m.preferences, messages |-> mm,
             sent |-> S, updated |-> U, events |-> E, reactions |-> R, reads |-> m.reads, groups |-> m.groups,
             announcements |-> m.announcements, announcementReads |-> m.announcementReads]
    BY ONLY <2>3, <2>4
  <2>6. MessagesMatch(mm, D, now)
    <3>1. PICK map, rows : map = m.messages /\ rows = d.messages
      OBVIOUS
    <3>2. /\ DOMAIN map \subseteq Places
          /\ \A p \in DOMAIN map : map[p] \in Seq(StoredMessages) /\ Rising(map[p])
          /\ rows \subseteq MessageRows /\ IsFiniteSet(rows) /\ \A x \in rows : x.id \in 1 .. now
          /\ \A x, q \in rows : x.id = q.id => x = q
          /\ \A x \in rows : x.conversation \in DOMAIN map /\ HistoryHas(map[x.conversation], x)
          /\ \A p \in DOMAIN map : \A i \in 1 .. Len(map[p]) :
                 \E x \in rows : x.conversation = p /\ map[p][i] = MessageOf(x)
      <4>1. MessagesMatch(map, rows, now)
        BY ONLY <1>1, <3>1
      <4> QED BY ONLY <4>1, MessageFacts
    <3>3. DOMAIN mm = DOMAIN map /\ \A p \in DOMAIN map : mm[p] = Without(map[p], id)
      BY ONLY <2>3, <3>1
    <3>4. ASSUME NEW p \in DOMAIN map
          PROVE
            /\ mm[p] \in Seq(StoredMessages) /\ Rising(mm[p])
            /\ \A i \in 1 .. Len(mm[p]) : \E j \in 1 .. Len(map[p]) : mm[p][i] = map[p][j] /\ map[p][j].id # id
            /\ \A j \in 1 .. Len(map[p]) : map[p][j].id # id => \E i \in 1 .. Len(mm[p]) : mm[p][i] = map[p][j]
      <4>1. PICK h : h = map[p]
        OBVIOUS
      <4>2. h \in Seq(StoredMessages) /\ Rising(h) /\ mm[p] = Without(h, id)
        BY ONLY <3>2, <3>3, <3>4, <4>1
      <4>3. /\ Without(h, id) \in Seq(StoredMessages) /\ Rising(Without(h, id))
            /\ \A i \in 1 .. Len(Without(h, id)) : \E j \in 1 .. Len(h) : Without(h, id)[i] = h[j] /\ h[j].id # id
            /\ \A j \in 1 .. Len(h) : h[j].id # id => \E i \in 1 .. Len(Without(h, id)) : Without(h, id)[i] = h[j]
        BY ONLY <4>2, MessageTakenOut
      <4> QED BY ONLY <4>1, <4>2, <4>3
    <3>5. D = {x \in rows : x.id # id}
      BY ONLY <1>0, <1>2, <3>1
    <3>6. D \subseteq MessageRows /\ \A x \in D : x.id \in 1 .. now
      BY ONLY <3>2, <3>5
    <3>7. \A x, q \in D : x.id = q.id => x = q
      BY ONLY <3>2, <3>5
    <3>8. IsFiniteSet(D)
      <4>1. D \subseteq rows
        BY ONLY <3>5
      <4> QED BY ONLY <3>2, <4>1, FS_Subset
    <3>9. ASSUME NEW x \in D PROVE x.conversation \in DOMAIN mm /\ HistoryHas(mm[x.conversation], x)
      <4>1. PICK p : p = x.conversation
        OBVIOUS
      <4>2. x \in rows /\ x.id # id /\ p \in DOMAIN map /\ HistoryHas(map[p], x)
        BY ONLY <3>2, <3>5, <3>9, <4>1
      <4>3. PICK j \in 1 .. Len(map[p]) : map[p][j] = MessageOf(x)
        BY ONLY <4>2 DEF HistoryHas
      <4>4. map[p][j].id # id
        BY ONLY <4>2, <4>3, MessageFields
      <4>5. PICK i \in 1 .. Len(mm[p]) : mm[p][i] = map[p][j]
        BY ONLY <3>4, <4>2, <4>4
      <4>6. HistoryHas(mm[p], x)
        BY ONLY <4>3, <4>5 DEF HistoryHas
      <4> QED BY ONLY <3>3, <4>1, <4>2, <4>6
    <3>10. ASSUME NEW p \in DOMAIN mm, NEW i \in 1 .. Len(mm[p])
           PROVE  \E x \in D : x.conversation = p /\ mm[p][i] = MessageOf(x)
      <4>1. p \in DOMAIN map
        BY ONLY <3>3, <3>10
      <4>2. PICK j \in 1 .. Len(map[p]) : mm[p][i] = map[p][j] /\ map[p][j].id # id
        BY ONLY <3>4, <3>10, <4>1
      <4>3. PICK x \in rows : x.conversation = p /\ map[p][j] = MessageOf(x)
        BY ONLY <3>2, <4>1, <4>2
      <4>4. x \in D
        BY ONLY <3>5, <4>2, <4>3, MessageFields
      <4> QED BY ONLY <4>2, <4>3, <4>4
    <3>11. \A p \in DOMAIN mm : mm[p] \in Seq(StoredMessages) /\ Rising(mm[p])
      BY ONLY <3>3, <3>4
    <3>12. DOMAIN mm \subseteq Places
      BY ONLY <3>2, <3>3
    <3> QED BY ONLY <3>6, <3>7, <3>8, <3>9, <3>10, <3>11, <3>12 DEF MessagesMatch
  <2>7. /\ HasMaps(n) /\ n.conversations = m.conversations /\ n.preferences = m.preferences /\ n.messages = mm
        /\ n.sent = S /\ n.updated = U /\ n.events = E /\ n.reactions = R /\ n.reads = m.reads /\ n.groups = m.groups
        /\ n.announcements = m.announcements /\ n.announcementReads = m.announcementReads
    BY ONLY <2>5 DEF HasMaps
  <2>8. /\ HasTables(e) /\ e.conversations = d.conversations /\ e.preferences = d.preferences /\ e.messages = D
        /\ e.updated = U /\ e.events = E /\ e.reactions = R /\ e.reads = d.reads /\ e.groups = d.groups
        /\ e.members = d.members /\ e.announcements = d.announcements /\ e.announcementReads = d.announcementReads
    BY ONLY <1>6 DEF HasTables
  <2>9. Together(n, e, now)
    BY ONLY <1>3, <2>6, <2>7, <2>8, TogetherParts, Together(m, d, now) DEF Together, Shown
  <2>10. MemoryDeleteMessage(m, id) = Reply(n, TRUE)
    BY ONLY <1>0, <1>2, <2>2, <2>3 DEF MemoryDeleteMessage
  <2>11. (MessageRow(d, id) # Nothing) = TRUE
    BY ONLY <2>2
  <2>12. SQLiteDeleteMessage(d, id) = Reply(e, TRUE)
    BY ONLY <1>8, <2>11, Zenon
  <2> QED BY ONLY <2>9, <2>10, <2>12, SoundReply, Zenon
<1>10. CASE ~ \E r \in d.messages : r.id = id
  <2>1. FindMessageIn(m, id) = Nothing /\ MessageRow(d, id) = Nothing
    BY ONLY <1>1, <1>10, MessageMissing
  <2>2. U = d.updated /\ E = d.events /\ R = d.reactions /\ D = d.messages
    BY ONLY <1>0, <1>1, <1>2, <1>10 DEF AboutMessages
  <2>3. e = d
    BY ONLY <1>1, <1>6, <2>2 DEF HasTables
  <2>4. MemoryDeleteMessage(m, id) = Reply(m, FALSE)
    BY ONLY <2>1 DEF MemoryDeleteMessage
  <2>5. (MessageRow(d, id) # Nothing) = FALSE
    BY ONLY <2>1
  <2>6. SQLiteDeleteMessage(d, id) = Reply(d, FALSE)
    BY ONLY <1>8, <2>3, <2>5, Zenon
  <2> QED BY ONLY <2>4, <2>6, SoundReply, Together(m, d, now), Zenon
<1> QED BY <1>9, <1>10

LEMMA ConversationGone ==
    ASSUME NEW m, NEW d, NEW now \in Nat, Together(m, d, now), NEW c \in Places, c # TheGroup
    PROVE  /\ Sound(MemoryDeleteConversation(m, c), SQLiteDeleteConversation(d, c), now)
           /\ PostgresDeleteConversation(d, c) = SQLiteDeleteConversation(d, c)
<1>1. /\ HasMaps(m) /\ HasTables(d) /\ MessagesMatch(m.messages, d.messages, now)
      /\ KeysMatch(m.sent, d.messages) /\ AboutMessages(d.updated, d.events, d.reactions, d.messages)
      /\ m.updated = d.updated /\ m.events = d.events /\ m.reactions = d.reactions
      /\ d.reactions \subseteq ReactionRows /\ IsFiniteSet(d.reactions) /\ EventsKeyed(d.events)
      /\ ConversationsMatch(m.conversations, d.conversations) /\ TheGroup \in DOMAIN m.conversations
      /\ m.preferences = d.preferences /\ PreferencesNormal(d.preferences)
      /\ m.reads = d.reads /\ MarksTyped(d.reads)
  BY ONLY TogetherParts, Together(m, d, now)
<1>2. PICK ids : ids = IdsIn(d, c)
  OBVIOUS
<1>3. ids = {x.id : x \in ToSet(MemoryHistory(m, c))}
  <2>1. PICK h : h = MemoryHistory(m, c)
    OBVIOUS
  <2>2. /\ DOMAIN h = 1 .. Len(h)
        /\ \A i \in 1 .. Len(h) : \E r \in d.messages : r.conversation = c /\ h[i] = MessageOf(r)
        /\ \A r \in d.messages : r.conversation = c => HistoryHas(h, r)
    BY ONLY <1>1, <2>1, HistoryFacts, now \in Nat, c \in Places
  <2>3. \A i : i \in ids <=> \E r \in d.messages : r.conversation = c /\ r.id = i
    BY ONLY <1>2 DEF IdsIn
  <2>4. \A i : i \in {x.id : x \in ToSet(h)} <=> \E j \in 1 .. Len(h) : h[j].id = i
    BY ONLY <2>2 DEF ToSet
  <2>5. \A r \in d.messages : r.conversation = c => \E j \in 1 .. Len(h) : h[j].id = r.id
    BY ONLY <2>2, MessageFields DEF HistoryHas
  <2>6. \A j \in 1 .. Len(h) : \E r \in d.messages : r.conversation = c /\ r.id = h[j].id
    BY ONLY <2>2, MessageFields
  <2>7. \A i : i \in ids <=> i \in {x.id : x \in ToSet(h)}
    BY ONLY <2>3, <2>4, <2>5, <2>6
  <2> QED BY ONLY <2>1, <2>7
<1>4. PICK S, U, E, R, D : /\ S = {x \in m.sent : x.message \notin ids}
                           /\ U = {x \in d.updated : x.message \notin ids} /\ E = {x \in d.events : x.message \notin ids}
                           /\ R = {x \in d.reactions : x.message \notin ids} /\ D = {x \in d.messages : x.id \notin ids}
  OBVIOUS
<1>5. \A r \in d.messages : r.id \in ids <=> r.conversation = c
  <2>1. \A r, q \in d.messages : r.id = q.id => r = q
    BY ONLY <1>1, MessageFacts
  <2> QED BY ONLY <1>2, <2>1 DEF IdsIn
<1>6. D = {x \in d.messages : x.conversation # c}
  BY ONLY <1>4, <1>5
<1>7. E = {x \in d.events : x.conversation # c}
  BY ONLY <1>1, <1>4, <1>5 DEF AboutMessages
<1>8. /\ KeysMatch(S, D) /\ AboutMessages(U, E, R, D) /\ EventsKeyed(E) /\ R \subseteq ReactionRows /\ IsFiniteSet(R)
  <2>1. KeysMatch(S, D)
    <3>1. KeysMatch(m.sent, d.messages)
      BY ONLY <1>1
    <3>2. KeysMatch({x \in m.sent : x.message \notin ids}, {r \in d.messages : r.id \notin ids})
      BY ONLY <3>1, KeysPurged, ZenonT(40)
    <3>3. S = {x \in m.sent : x.message \notin ids} /\ D = {r \in d.messages : r.id \notin ids}
      BY ONLY <1>4
    <3> QED BY ONLY <3>2, <3>3, ZenonT(40)
  <2>2. AboutMessages(U, E, R, D)
    BY ONLY <1>1, <1>4 DEF AboutMessages
  <2>3. EventsKeyed(E)
    BY ONLY <1>1, <1>4 DEF EventsKeyed
  <2>4. R \subseteq ReactionRows /\ IsFiniteSet(R)
    <3>1. R \subseteq d.reactions
      BY ONLY <1>4
    <3> QED BY ONLY <1>1, <3>1, FS_Subset
  <2> QED BY ONLY <2>1, <2>2, <2>3, <2>4
<1>9. PICK P, M, C : /\ P = {p \in d.preferences : p.conversation # c} /\ M = {r \in d.reads : r.conversation # c}
                     /\ C = {r \in d.conversations : r.id # c}
  OBVIOUS
<1>10. PreferencesNormal(P) /\ MarksTyped(M)
  BY ONLY <1>1, <1>9 DEF PreferencesNormal, MarksTyped
<1>11. PICK mm, mc : /\ mm = Restrict(m.messages, DOMAIN m.messages \ {c})
                     /\ mc = Restrict(m.conversations, DOMAIN m.conversations \ {c})
  OBVIOUS
<1>12. MessagesMatch(mm, D, now)
  <2>1. MessagesMatch(Restrict(m.messages, DOMAIN m.messages \ {c}), {r \in d.messages : r.conversation # c}, now)
    <3>1. MessagesMatch(m.messages, d.messages, now)
      BY ONLY <1>1
    <3> QED BY ONLY <3>1, HistoryDropped, Zenon
  <2> QED BY ONLY <1>6, <1>11, <2>1
<1>13. ConversationsMatch(mc, C) /\ TheGroup \in DOMAIN mc
  <2>1. ConversationsMatch(mc, C)
    <3>1. ConversationsMatch(Restrict(m.conversations, DOMAIN m.conversations \ {c}), {r \in d.conversations : r.id # c})
      <4>1. PICK map, rows : map = m.conversations /\ rows = d.conversations
        OBVIOUS
      <4>2. ConversationsMatch(map, rows)
        BY ONLY <1>1, <4>1
      <4>3. ConversationsMatch(Restrict(map, DOMAIN map \ {c}), {r \in rows : r.id # c})
        BY ONLY <4>2, ConversationDropped, ZenonT(40)
      <4> QED BY ONLY <4>1, <4>3
    <3> QED BY ONLY <1>9, <1>11, <3>1
  <2>2. DOMAIN mc = DOMAIN m.conversations \ {c}
    BY ONLY <1>11 DEF Restrict
  <2> QED BY ONLY <1>1, <2>1, <2>2, c # TheGroup
<1>14. PICK w : w = WithoutRecordsOf(d, ids)
  OBVIOUS
<1>15. w = [conversations |-> d.conversations, preferences |-> d.preferences, messages |-> d.messages,
           updated |-> U, events |-> d.events, reactions |-> R, reads |-> d.reads, groups |-> d.groups,
           members |-> d.members, announcements |-> d.announcements, announcementReads |-> d.announcementReads]
  BY ONLY <1>1, <1>4, <1>14, ClearedFields
<1>16. /\ HasTables(w) /\ w.conversations = d.conversations /\ w.preferences = d.preferences
       /\ w.messages = d.messages /\ w.updated = U /\ w.events = d.events /\ w.reactions = R /\ w.reads = d.reads
       /\ w.groups = d.groups /\ w.members = d.members /\ w.announcements = d.announcements
       /\ w.announcementReads = d.announcementReads
  BY ONLY <1>15 DEF HasTables
<1>17. PICK e : e = [w EXCEPT !.preferences = P, !.reads = M, !.events = E, !.messages = D, !.conversations = C]
  OBVIOUS
<1>18. e = [conversations |-> C, preferences |-> P, messages |-> D, updated |-> w.updated, events |-> E,
            reactions |-> w.reactions, reads |-> M, groups |-> w.groups, members |-> w.members,
            announcements |-> w.announcements, announcementReads |-> w.announcementReads]
  BY ONLY <1>16, <1>17 DEF HasTables
<1>19. /\ HasTables(e) /\ e.conversations = C /\ e.preferences = P /\ e.messages = D
       /\ e.updated = U /\ e.events = E /\ e.reactions = R /\ e.reads = M /\ e.groups = d.groups
       /\ e.members = d.members /\ e.announcements = d.announcements /\ e.announcementReads = d.announcementReads
  BY ONLY <1>16, <1>18 DEF HasTables
<1>20. SQLiteDeleteConversation(d, c) = Reply(e, Accepted)
  <2>1. SQLiteDeleteConversation(d, c) =
          Reply([w EXCEPT !.preferences = {p \in w.preferences : p.conversation # c},
                          !.reads = {r \in w.reads : r.conversation # c},
                          !.events = {x \in w.events : x.conversation # c},
                          !.messages = {x \in w.messages : x.conversation # c},
                          !.conversations = {r \in w.conversations : r.id # c}], Accepted)
    BY ONLY <1>2, <1>14 DEF SQLiteDeleteConversation
  <2> QED BY ONLY <1>6, <1>7, <1>9, <1>16, <1>17, <2>1
<1>21. PostgresDeleteConversation(d, c) = Reply(e, Accepted)
  <2>1. PICK x : x = [w EXCEPT !.preferences = P, !.reads = M, !.events = E]
    OBVIOUS
  <2>2. x = [conversations |-> w.conversations, preferences |-> P, messages |-> w.messages, updated |-> w.updated,
             events |-> E, reactions |-> w.reactions, reads |-> M, groups |-> w.groups, members |-> w.members,
             announcements |-> w.announcements, announcementReads |-> w.announcementReads]
    BY ONLY <1>16, <2>1 DEF HasTables
  <2>3. HasTables(x) /\ x.reactions = R /\ x.messages = d.messages /\ x.conversations = d.conversations
    BY ONLY <1>16, <2>2 DEF HasTables
  <2>4. ~ DeletionRefused(x, IdsIn(d, c))
    BY ONLY <1>2, <1>4, <2>3 DEF DeletionRefused
  <2>5. [w EXCEPT !.preferences = {p \in w.preferences : p.conversation # c},
                  !.reads = {r \in w.reads : r.conversation # c},
                  !.events = {z \in w.events : z.conversation # c}] = x
    BY ONLY <1>7, <1>9, <1>16, <2>1
  <2>6. PostgresDeleteConversation(d, c) =
          Reply([x EXCEPT !.messages = {z \in x.messages : z.conversation # c},
                          !.conversations = {r \in x.conversations : r.id # c}], Accepted)
    BY ONLY <1>2, <1>14, <2>4, <2>5 DEF PostgresDeleteConversation
  <2>7. PICK y : y = [x EXCEPT !.messages = D, !.conversations = C]
    OBVIOUS
  <2>8. y = [conversations |-> C, preferences |-> x.preferences, messages |-> D, updated |-> x.updated,
             events |-> x.events, reactions |-> x.reactions, reads |-> x.reads, groups |-> x.groups,
             members |-> x.members, announcements |-> x.announcements, announcementReads |-> x.announcementReads]
    BY ONLY <2>3, <2>7 DEF HasTables
  <2>9. y = e
    BY ONLY <1>18, <2>2, <2>8
  <2> QED BY ONLY <1>6, <1>9, <2>3, <2>6, <2>7, <2>9
<1>22. PICK f : f = ForgottenMessage(m, ids)
  OBVIOUS
<1>23. f = [conversations |-> m.conversations, preferences |-> m.preferences, messages |-> m.messages,
            sent |-> S, updated |-> U, events |-> E, reactions |-> R, reads |-> m.reads, groups |-> m.groups,
            announcements |-> m.announcements, announcementReads |-> m.announcementReads]
  BY ONLY <1>1, <1>4, <1>22, ForgottenFields
<1>24. /\ HasMaps(f) /\ f.conversations = m.conversations /\ f.preferences = m.preferences
       /\ f.messages = m.messages /\ f.sent = S /\ f.updated = U /\ f.events = E /\ f.reactions = R
       /\ f.reads = m.reads /\ f.groups = m.groups /\ f.announcements = m.announcements
       /\ f.announcementReads = m.announcementReads
  BY ONLY <1>23 DEF HasMaps
<1>25. PICK n : n = [f EXCEPT !.conversations = mc, !.preferences = P, !.messages = mm, !.reads = M]
  OBVIOUS
<1>26. n = [conversations |-> mc, preferences |-> P, messages |-> mm, sent |-> f.sent, updated |-> f.updated,
            events |-> f.events, reactions |-> f.reactions, reads |-> M, groups |-> f.groups,
            announcements |-> f.announcements, announcementReads |-> f.announcementReads]
  BY ONLY <1>24, <1>25 DEF HasMaps
<1>27. /\ HasMaps(n) /\ n.conversations = mc /\ n.preferences = P /\ n.messages = mm
       /\ n.sent = S /\ n.updated = U /\ n.events = E /\ n.reactions = R /\ n.reads = M /\ n.groups = m.groups
       /\ n.announcements = m.announcements /\ n.announcementReads = m.announcementReads
  BY ONLY <1>24, <1>26 DEF HasMaps
<1>28. MemoryDeleteConversation(m, c) = Reply(n, Accepted)
  <2>1. MemoryDeleteConversation(m, c) =
          Reply([f EXCEPT !.conversations = Restrict(f.conversations, DOMAIN f.conversations \ {c}),
                          !.preferences = {p \in f.preferences : p.conversation # c},
                          !.messages = Restrict(f.messages, DOMAIN f.messages \ {c}),
                          !.reads = {r \in f.reads : r.conversation # c}], Accepted)
    BY ONLY <1>3, <1>22 DEF MemoryDeleteConversation
  <2>2. /\ Restrict(f.conversations, DOMAIN f.conversations \ {c}) = mc
        /\ Restrict(f.messages, DOMAIN f.messages \ {c}) = mm
    BY ONLY <1>11, <1>24
  <2>3. {p \in f.preferences : p.conversation # c} = P /\ {r \in f.reads : r.conversation # c} = M
    BY ONLY <1>1, <1>9, <1>24
  <2> QED BY ONLY <1>25, <2>1, <2>2, <2>3
<1>29. Together(n, e, now)
  BY ONLY <1>8, <1>10, <1>12, <1>13, <1>19, <1>27, TogetherParts, Together(m, d, now) DEF Together, Shown
<1>30. Sound(MemoryDeleteConversation(m, c), SQLiteDeleteConversation(d, c), now)
  BY ONLY <1>20, <1>28, <1>29, SoundReply
<1> QED BY ONLY <1>20, <1>21, <1>30

\* The group goes from the two stores, and what a client sees is the same.
LEMMA GroupDeleted ==
    ASSUME NEW m, NEW d, NEW now, Together(m, d, now), NEW a, NEW b,
           a = MemoryDeleteGroup(m, TheGroup), b = SQLiteDeleteGroup(d, TheGroup)
    PROVE  /\ a.answer = Accepted /\ b.answer = Accepted /\ b.store = GroupRowsDeleted(d, TheGroup)
           /\ Shown(a.store, b.store, now)
           /\ GroupGone(a.store.groups, b.store.groups, b.store.members)
           /\ TheGroup \notin DOMAIN a.store.conversations
           /\ GroupRow(d, TheGroup) # Nothing
<1>1. /\ HasMaps(m) /\ HasTables(d) /\ MessagesMatch(m.messages, d.messages, now)
      /\ m.updated = d.updated /\ m.events = d.events /\ m.reactions = d.reactions
      /\ d.reactions \subseteq ReactionRows /\ IsFiniteSet(d.reactions) /\ EventsKeyed(d.events)
      /\ ConversationsMatch(m.conversations, d.conversations)
      /\ m.preferences = d.preferences /\ PreferencesNormal(d.preferences)
      /\ m.reads = d.reads /\ MarksTyped(d.reads) /\ GroupMatches(m.groups, d.groups, d.members)
      /\ m.announcements = d.announcements /\ m.announcementReads = d.announcementReads
  BY ONLY TogetherParts, Together(m, d, now)
<1>2. PICK g : g = TheGroup
  OBVIOUS
<1>3. GroupRow(d, g) # Nothing /\ g \in DOMAIN m.groups /\ DOMAIN m.groups = {g}
  BY ONLY <1>2, GroupFacts, Together(m, d, now)
<1>4. \A r \in d.groups : r.id = g
  BY ONLY <1>1, <1>2 DEF GroupMatches, GroupRowOf
<1>5. \A r \in d.members : r.group = g
  BY ONLY <1>1, <1>2 DEF GroupMatches, MemberRowOf
<1>6. PICK ids : ids = {x.id : x \in {x \in d.announcements : x.group = g}}
  OBVIOUS
<1>7. PICK M, AR, AA, D, C : /\ M = {r \in d.reads : r.conversation # g}
                             /\ AR = {r \in d.announcementReads : r.announcement \notin ids}
                             /\ AA = {x \in d.announcements : x.group # g}
                             /\ D = {x \in d.messages : x.conversation # g}
                             /\ C = {r \in d.conversations : r.id # g}
  OBVIOUS
<1>8. PICK mg, mm, mc : /\ mg = Restrict(m.groups, DOMAIN m.groups \ {g})
                        /\ mm = Restrict(m.messages, DOMAIN m.messages \ {g})
                        /\ mc = Restrict(m.conversations, DOMAIN m.conversations \ {g})
  OBVIOUS
<1>9. MarksTyped(M)
  BY ONLY <1>1, <1>7 DEF MarksTyped
<1>10. MessagesMatch(mm, D, now)
  <2>1. MessagesMatch(m.messages, d.messages, now)
    BY ONLY <1>1
  <2>2. MessagesMatch(Restrict(m.messages, DOMAIN m.messages \ {g}), {r \in d.messages : r.conversation # g}, now)
    BY ONLY <2>1, HistoryDropped, Zenon
  <2> QED BY ONLY <1>7, <1>8, <2>2
<1>11. ConversationsMatch(mc, C) /\ g \notin DOMAIN mc
  <2>1. ConversationsMatch(m.conversations, d.conversations)
    BY ONLY <1>1
  <2>2. ConversationsMatch(Restrict(m.conversations, DOMAIN m.conversations \ {g}), {r \in d.conversations : r.id # g})
    <3>1. PICK map, rows : map = m.conversations /\ rows = d.conversations
      OBVIOUS
    <3>2. ConversationsMatch(map, rows)
      BY ONLY <2>1, <3>1
    <3>3. ConversationsMatch(Restrict(map, DOMAIN map \ {g}), {r \in rows : r.id # g})
      BY ONLY <3>2, ConversationDropped, ZenonT(40)
    <3> QED BY ONLY <3>1, <3>3
  <2>3. DOMAIN mc = DOMAIN m.conversations \ {g}
    BY ONLY <1>8 DEF Restrict
  <2> QED BY ONLY <1>7, <1>8, <2>2, <2>3
<1>12. DOMAIN mg = {}
  BY ONLY <1>3, <1>8 DEF Restrict
<1>13. PICK e : e = GroupRowsDeleted(d, g)
  OBVIOUS
<1>14. e = [d EXCEPT !.announcementReads = AR, !.announcements = AA, !.reads = M, !.messages = D,
                     !.members = {}, !.conversations = C, !.groups = {}]
  <2>1. {r \in d.members : r.group # g} = {} /\ {r \in d.groups : r.id # g} = {}
    BY ONLY <1>4, <1>5
  <2>2. e = [d EXCEPT !.announcementReads = {r \in d.announcementReads : r.announcement \notin ids},
                      !.announcements = {x \in d.announcements : x.group # g},
                      !.reads = {r \in d.reads : r.conversation # g},
                      !.messages = {x \in d.messages : x.conversation # g},
                      !.members = {x \in d.members : x.group # g},
                      !.conversations = {r \in d.conversations : r.id # g},
                      !.groups = {r \in d.groups : r.id # g}]
    BY ONLY <1>6, <1>13 DEF GroupRowsDeleted
  <2> QED BY ONLY <1>7, <2>1, <2>2
<1>15. e = [conversations |-> C, preferences |-> d.preferences, messages |-> D, updated |-> d.updated,
            events |-> d.events, reactions |-> d.reactions, reads |-> M, groups |-> {}, members |-> {},
            announcements |-> AA, announcementReads |-> AR]
  BY ONLY <1>1, <1>14 DEF HasTables
<1>16. /\ HasTables(e) /\ e.conversations = C /\ e.preferences = d.preferences /\ e.messages = D
       /\ e.updated = d.updated /\ e.events = d.events /\ e.reactions = d.reactions /\ e.reads = M
       /\ e.groups = {} /\ e.members = {} /\ e.announcements = AA /\ e.announcementReads = AR
  BY ONLY <1>15 DEF HasTables
<1>17. PICK n : n = [m EXCEPT !.groups = mg, !.conversations = mc, !.messages = mm, !.reads = M,
                             !.announcementReads = AR, !.announcements = AA]
  OBVIOUS
<1>18. n = [conversations |-> mc, preferences |-> m.preferences, messages |-> mm, sent |-> m.sent,
            updated |-> m.updated, events |-> m.events, reactions |-> m.reactions, reads |-> M, groups |-> mg,
            announcements |-> AA, announcementReads |-> AR]
  BY ONLY <1>1, <1>17 DEF HasMaps
<1>19. /\ HasMaps(n) /\ n.conversations = mc /\ n.preferences = m.preferences /\ n.messages = mm
       /\ n.updated = m.updated /\ n.events = m.events /\ n.reactions = m.reactions /\ n.reads = M
       /\ n.groups = mg /\ n.announcements = AA /\ n.announcementReads = AR
  BY ONLY <1>18 DEF HasMaps
<1>20. MemoryDeleteGroup(m, g) = Reply(n, Accepted)
  <2>1. MemoryDeleteGroup(m, g) =
          Reply([m EXCEPT !.groups = Restrict(m.groups, DOMAIN m.groups \ {g}),
                          !.conversations = Restrict(m.conversations, DOMAIN m.conversations \ {g}),
                          !.messages = Restrict(m.messages, DOMAIN m.messages \ {g}),
                          !.reads = {r \in m.reads : r.conversation # g},
                          !.announcementReads = {r \in m.announcementReads :
                              r.announcement \notin {x.id : x \in {x \in m.announcements : x.group = g}}},
                          !.announcements = {x \in m.announcements : x.group # g}], Accepted)
    BY ONLY <1>3 DEF MemoryDeleteGroup
  <2>2. {x.id : x \in {x \in m.announcements : x.group = g}} = ids
    BY ONLY <1>1, <1>6
  <2>3. /\ {r \in m.reads : r.conversation # g} = M /\ {x \in m.announcements : x.group # g} = AA
        /\ {r \in m.announcementReads : r.announcement \notin ids} = AR
    BY ONLY <1>1, <1>7
  <2> QED BY ONLY <1>8, <1>17, <2>1, <2>2, <2>3
<1>21. SQLiteDeleteGroup(d, g) = Reply(e, Accepted)
  BY ONLY <1>3, <1>13 DEF SQLiteDeleteGroup
<1>22. a.store = n /\ b.store = e /\ a.answer = Accepted /\ b.answer = Accepted
  BY ONLY <1>2, <1>20, <1>21, a = MemoryDeleteGroup(m, TheGroup), b = SQLiteDeleteGroup(d, TheGroup) DEF Reply
<1>23. Shown(n, e, now)
  BY ONLY <1>1, <1>9, <1>10, <1>11, <1>16, <1>19 DEF Shown
<1>24. GroupGone(n.groups, e.groups, e.members)
  BY ONLY <1>12, <1>16, <1>19 DEF GroupGone
<1> QED BY ONLY <1>2, <1>3, <1>11, <1>13, <1>19, <1>22, <1>23, <1>24

LEMMA DeleteGroupStep ==
    ASSUME StoreInv, DeleteGroup
    PROVE  StoreInv'
<1>1. PICK a, b, p : /\ a = MemoryDeleteGroup(memory, TheGroup) /\ b = SQLiteDeleteGroup(sqlite, TheGroup)
                     /\ p = PostgresDeleteGroup(postgres, TheGroup)
  OBVIOUS
<1>2. StoreCall(a, b, p) /\ clock' = clock
  BY <1>1 DEF DeleteGroup, Unstamped
<1>3. postgres = sqlite /\ Together(memory, sqlite, clock) /\ clock \in Nat
  BY ONLY <1>2, CallFacts, StoreInv
<1>4. /\ a.answer = Accepted /\ b.answer = Accepted /\ b.store = GroupRowsDeleted(sqlite, TheGroup)
      /\ Shown(a.store, b.store, clock)
      /\ GroupGone(a.store.groups, b.store.groups, b.store.members)
      /\ TheGroup \notin DOMAIN a.store.conversations
      /\ GroupRow(sqlite, TheGroup) # Nothing
  BY ONLY <1>1, <1>3, GroupDeleted
<1>5. /\ memory' = a.store /\ sqlite' = b.store /\ postgres' = p.store
      /\ replies' = <<a.answer, b.answer, p.answer>>
  BY ONLY <1>2 DEF StoreCall
<1>6. /\ GroupGone(memory'.groups, sqlite'.groups, sqlite'.members) /\ Shown(memory', sqlite', clock')
      /\ TheGroup \notin DOMAIN memory'.conversations /\ TheGroup \notin DOMAIN memory'.groups
  BY ONLY <1>2, <1>4, <1>5 DEF GroupGone
<1>7. sqlite'.groups = {}
  BY ONLY <1>6 DEF GroupGone
<1>8. CASE DeletionRefused(sqlite, IdsIn(sqlite, TheGroup))
  <2>1. p = Reply(sqlite, Refused)
    BY ONLY <1>1, <1>3, <1>8 DEF PostgresDeleteGroup
  <2>2. postgres' = sqlite
    BY ONLY <1>5, <2>1 DEF Reply
  <2>3. \A r \in sqlite.groups : r.id = TheGroup
    <3>1. GroupMatches(memory.groups, sqlite.groups, sqlite.members)
      BY ONLY <1>3, TogetherParts
    <3> QED BY ONLY <3>1 DEF GroupMatches, GroupRowOf
  <2>4. sqlite.groups # {}
    BY ONLY <1>4 DEF GroupRow, TheRow
  <2>5. KeptGroups' = {TheGroup}
    <3>1. KeptGroups' = {r.id : r \in sqlite.groups} \ {r.id : r \in {}}
      BY ONLY <1>7, <2>2 DEF KeptGroups
    <3> QED BY ONLY <2>3, <2>4, <3>1
  <2>6. \E r \in sqlite.reactions : r.message \in IdsIn(sqlite, TheGroup)
    BY ONLY <1>8 DEF DeletionRefused
  <2>7. OnlyReactionsKeepAGroup'
    <3>1. \A g \in KeptGroups' : \E r \in postgres'.reactions : r.message \in IdsIn(postgres', g)
      BY ONLY <2>2, <2>5, <2>6
    <3> QED BY ONLY <3>1 DEF OnlyReactionsKeepAGroup, IdsIn
  <2>8. SameAnswers'
    BY ONLY <2>5 DEF SameAnswers
  <2> QED BY ONLY <1>2, <1>3, <1>6, <2>5, <2>7, <2>8 DEF StoreInv
<1>9. CASE ~ DeletionRefused(sqlite, IdsIn(sqlite, TheGroup))
  <2>1. p = Reply(GroupRowsDeleted(sqlite, TheGroup), Accepted)
    BY ONLY <1>1, <1>3, <1>4, <1>9 DEF PostgresDeleteGroup
  <2>2. postgres' = sqlite' /\ replies' = <<Accepted, Accepted, Accepted>>
    BY ONLY <1>4, <1>5, <2>1 DEF Reply
  <2>3. KeptGroups' = {}
    BY ONLY <2>2 DEF KeptGroups
  <2>4. OnlyReactionsKeepAGroup'
    BY ONLY <2>3 DEF OnlyReactionsKeepAGroup
  <2>5. SameAnswers'
    BY ONLY <2>2 DEF SameAnswers
  <2> QED BY ONLY <1>2, <1>3, <1>6, <2>2, <2>4, <2>5 DEF StoreInv
<1> QED BY <1>8, <1>9

(* Every call keeps the invariant *)

LEMMA PlainStep ==
    ASSUME StoreInv, NEW a, NEW b, NEW p, StoreCall(a, b, p), clock' = clock, p = b, Sound(a, b, clock)
    PROVE  StoreInv'
<1>1. clock \in Nat
  BY CallFacts
<1> QED BY <1>1, StoreStep

\* The request an event is recorded for names the conversation of its message.
LEMMA EventPlace ==
    ASSUME NEW id \in Nat, NEW e \in EventRequests, clock \in Nat, Together(memory, sqlite, clock)
    PROVE  /\ EventOf(id, e) \in InteractionRows /\ EventOf(id, e).message = id /\ e.payload \in StoredSegments
           /\ \A r \in sqlite.messages : r.id = id => r.conversation = EventOf(id, e).conversation
<1>1. PICK ids, c : /\ ids = {m.id : m \in ToSet(MemoryHistory(memory, TheGroup))}
                    /\ c = IF id \in {m.id : m \in ToSet(MemoryHistory(memory, TheGroup))} THEN TheGroup ELSE PrivateChat
  OBVIOUS
<1>2. EventOf(id, e) = [actor |-> e.actor, event |-> e.event, payload |-> e.payload, message |-> id, conversation |-> c]
  BY ONLY <1>1 DEF EventOf
<1>3. c \in Places /\ (c = IF id \in ids THEN TheGroup ELSE PrivateChat)
  BY ONLY <1>1 DEF Places
<1>4. e.payload \in StoredSegments
  BY DEF StoredSegments
<1>5. EventOf(id, e) \in InteractionRows /\ EventOf(id, e).message = id /\ EventOf(id, e).conversation = c
  BY <1>2, <1>3, <1>4 DEF InteractionRows
<1>6. MessagesMatch(memory.messages, sqlite.messages, clock)
  BY ONLY TogetherParts, Together(memory, sqlite, clock)
<1>7. PICK h : h = MemoryHistory(memory, TheGroup)
  OBVIOUS
<1>8. /\ DOMAIN h = 1 .. Len(h)
      /\ \A i \in 1 .. Len(h) : \E r \in sqlite.messages : r.conversation = TheGroup /\ h[i] = MessageOf(r)
      /\ \A r \in sqlite.messages : r.conversation = TheGroup => HistoryHas(h, r)
  <2>1. TheGroup \in Places
    BY DEF Places
  <2> QED BY ONLY <1>6, <1>7, <2>1, HistoryFacts, clock \in Nat
<1>9. \A i : i \in ids <=> \E j \in 1 .. Len(h) : h[j].id = i
  BY ONLY <1>1, <1>7, <1>8 DEF ToSet
<1>10. ASSUME NEW r \in sqlite.messages, r.id = id PROVE r.conversation = c
  <2>1. r.conversation \in Places
    <3>1. r \in MessageRows
      BY ONLY <1>6, <1>10, MessageFacts
    <3> QED BY ONLY <3>1 DEF MessageRows
  <2>2. CASE r.conversation = TheGroup
    <3>1. PICK i \in 1 .. Len(h) : h[i] = MessageOf(r)
      BY ONLY <1>8, <1>10, <2>2 DEF HistoryHas
    <3>2. id \in ids
      BY ONLY <1>9, <1>10, <3>1, MessageFields
    <3> QED BY ONLY <1>3, <2>2, <3>2
  <2>3. CASE r.conversation # TheGroup
    <3>1. id \notin ids
      <4>1. SUFFICES ASSUME id \in ids PROVE FALSE
        OBVIOUS
      <4>2. PICK j \in 1 .. Len(h) : h[j].id = id
        BY ONLY <1>9, <4>1
      <4>3. PICK q \in sqlite.messages : q.conversation = TheGroup /\ h[j] = MessageOf(q)
        BY ONLY <1>8, <4>2
      <4>4. q.id = id
        BY ONLY <4>2, <4>3, MessageFields
      <4>5. q = r
        BY ONLY <1>6, <1>10, <4>3, <4>4, MessageFacts
      <4> QED BY ONLY <2>3, <4>3, <4>5
    <3> QED BY ONLY <1>3, <2>1, <2>3, <3>1 DEF Places
  <2> QED BY <2>2, <2>3
<1> QED BY ONLY <1>4, <1>5, <1>10

LEMMA RequestParts ==
    ASSUME NEW r \in SendRequests
    PROVE  r.conversation \in Places /\ r.sender \in People /\ r.client \in ClientKeys /\ r.segments \in StoredSegments
BY StoreAssumption DEF ClientKeys, StoredSegments

LEMMA SaveConversationStep ==
    ASSUME StoreInv, SaveConversation
    PROVE  StoreInv'
<1>1. PICK a, b, p : /\ a = MemorySaveConversation(memory, PrivateChat, "private", People) /\ b = SQLiteSaveConversation(sqlite, PrivateChat, "private", People)
                     /\ p = PostgresSaveConversation(postgres, PrivateChat, "private", People)
  OBVIOUS
<1>2. StoreCall(a, b, p) /\ clock' = clock
  BY <1>1 DEF SaveConversation, Unstamped
<1>3. postgres = sqlite /\ Together(memory, sqlite, clock) /\ clock \in Nat
  BY ONLY <1>2, CallFacts, StoreInv
<1>4. p = b
  BY ONLY <1>1, <1>3 DEF PostgresSaveConversation
<1>5. Sound(a, b, clock)
  BY ONLY <1>1, <1>3, ConversationsSaved
<1> QED BY ONLY <1>2, <1>4, <1>5, PlainStep, StoreInv

LEMMA SetConversationPreferenceStep ==
    ASSUME StoreInv, NEW c \in Places, NEW u \in People, NEW request, SetConversationPreference(c, u, request)
    PROVE  StoreInv'
<1>1. PICK a, b, p : /\ a = MemorySetConversationPreference(memory, c, u, request.level, request.muted) /\ b = SQLiteSetConversationPreference(sqlite, c, u, request.level, request.muted)
                     /\ p = PostgresSetConversationPreference(postgres, c, u, request.level, request.muted)
  OBVIOUS
<1>2. StoreCall(a, b, p) /\ clock' = clock
  BY <1>1 DEF SetConversationPreference, Unstamped
<1>3. postgres = sqlite /\ Together(memory, sqlite, clock) /\ clock \in Nat
  BY ONLY <1>2, CallFacts, StoreInv
<1>4. p = b
  BY ONLY <1>1, <1>3 DEF PostgresSetConversationPreference
<1>5. Sound(a, b, clock)
  BY ONLY <1>1, <1>3, PreferenceSet, c \in Places, u \in People
<1> QED BY ONLY <1>2, <1>4, <1>5, PlainStep, StoreInv

LEMMA RecallMessageStep ==
    ASSUME StoreInv, NEW id, RecallMessage(id)
    PROVE  StoreInv'
<1>1. PICK a, b, p : /\ a = MemoryRecallMessage(memory, id) /\ b = SQLiteRecallMessage(sqlite, id)
                     /\ p = PostgresRecallMessage(postgres, id)
  OBVIOUS
<1>2. StoreCall(a, b, p) /\ clock' = clock
  BY <1>1 DEF RecallMessage, Unstamped
<1>3. postgres = sqlite /\ Together(memory, sqlite, clock) /\ clock \in Nat
  BY ONLY <1>2, CallFacts, StoreInv
<1>4. p = b
  BY ONLY <1>1, <1>3 DEF PostgresRecallMessage
<1>5. Sound(a, b, clock)
  BY ONLY <1>1, <1>3, MessageRecalled
<1> QED BY ONLY <1>2, <1>4, <1>5, PlainStep, StoreInv

LEMMA ReactToMessageStep ==
    ASSUME StoreInv, NEW id \in Nat, NEW u \in People, NEW remove \in BOOLEAN, ReactToMessage(id, u, remove)
    PROVE  StoreInv'
<1>1. PICK a, b, p : /\ a = MemoryReactToMessage(memory, id, u, "like", remove) /\ b = SQLiteReactToMessage(sqlite, id, u, "like", remove)
                     /\ p = PostgresReactToMessage(postgres, id, u, "like", remove)
  OBVIOUS
<1>2. StoreCall(a, b, p) /\ clock' = clock
  BY <1>1 DEF ReactToMessage, Unstamped
<1>3. postgres = sqlite /\ Together(memory, sqlite, clock) /\ clock \in Nat
  BY ONLY <1>2, CallFacts, StoreInv
<1>4. p = b
  BY ONLY <1>1, <1>3 DEF PostgresReactToMessage
<1>5. Sound(a, b, clock)
  BY ONLY <1>1, <1>3, MessageReacted, id \in Nat, u \in People, remove \in BOOLEAN
<1> QED BY ONLY <1>2, <1>4, <1>5, PlainStep, StoreInv

LEMMA MarkConversationReadStep ==
    ASSUME StoreInv, NEW c \in Places, NEW u \in People, MarkConversationRead(c, u)
    PROVE  StoreInv'
<1>1. PICK a, b, p : /\ a = MemoryMarkConversationRead(memory, c, u, clock) /\ b = SQLiteMarkConversationRead(sqlite, c, u, clock)
                     /\ p = PostgresMarkConversationRead(postgres, c, u, clock)
  OBVIOUS
<1>2. StoreCall(a, b, p) /\ clock' = clock
  BY <1>1 DEF MarkConversationRead, Unstamped
<1>3. postgres = sqlite /\ Together(memory, sqlite, clock) /\ clock \in Nat
  BY ONLY <1>2, CallFacts, StoreInv
<1>4. p = b
  BY ONLY <1>1, <1>3 DEF PostgresMarkConversationRead
<1>5. Sound(a, b, clock)
  BY ONLY <1>1, <1>3, ConversationRead, c \in Places, u \in People
<1> QED BY ONLY <1>2, <1>4, <1>5, PlainStep, StoreInv

LEMMA UpdateGroupStep ==
    ASSUME StoreInv, NEW announcement \in {Empty, "news"}, NEW muteAll \in BOOLEAN, UpdateGroup(announcement, muteAll)
    PROVE  StoreInv'
<1>1. PICK a, b, p : /\ a = MemoryUpdateGroup(memory, TheGroup, announcement, muteAll) /\ b = SQLiteUpdateGroup(sqlite, TheGroup, announcement, muteAll)
                     /\ p = PostgresUpdateGroup(postgres, TheGroup, announcement, muteAll)
  OBVIOUS
<1>2. StoreCall(a, b, p) /\ clock' = clock
  BY <1>1 DEF UpdateGroup, Unstamped
<1>3. postgres = sqlite /\ Together(memory, sqlite, clock) /\ clock \in Nat
  BY ONLY <1>2, CallFacts, StoreInv
<1>4. p = b
  BY ONLY <1>1, <1>3 DEF PostgresUpdateGroup
<1>5. Sound(a, b, clock)
  BY ONLY <1>1, <1>3, GroupUpdated, announcement \in {Empty, "news"}, muteAll \in BOOLEAN
<1> QED BY ONLY <1>2, <1>4, <1>5, PlainStep, StoreInv

LEMMA SetGroupMemberRoleStep ==
    ASSUME StoreInv, NEW u \in People, NEW role \in {"admin", "member"}, SetGroupMemberRole(u, role)
    PROVE  StoreInv'
<1>1. PICK a, b, p : /\ a = MemorySetGroupMemberRole(memory, TheGroup, u, role) /\ b = SQLiteSetGroupMemberRole(sqlite, TheGroup, u, role)
                     /\ p = PostgresSetGroupMemberRole(postgres, TheGroup, u, role)
  OBVIOUS
<1>2. StoreCall(a, b, p) /\ clock' = clock /\ ~ \E x \in sqlite.members : x.user = u /\ x.role = "owner"
  BY <1>1 DEF SetGroupMemberRole, Unstamped
<1>3. postgres = sqlite /\ Together(memory, sqlite, clock) /\ clock \in Nat
  BY ONLY <1>2, CallFacts, StoreInv
<1>4. p = b
  BY ONLY <1>1, <1>3 DEF PostgresSetGroupMemberRole
<1>5. Sound(a, b, clock)
  BY ONLY <1>1, <1>3, RoleSet, <1>2, u \in People, role \in {"admin", "member"}
<1> QED BY ONLY <1>2, <1>4, <1>5, PlainStep, StoreInv

LEMMA SetGroupMemberMuteStep ==
    ASSUME StoreInv, NEW u \in People, NEW muted \in BOOLEAN, SetGroupMemberMute(u, muted)
    PROVE  StoreInv'
<1>1. PICK a, b, p : /\ a = MemorySetGroupMemberMute(memory, TheGroup, u, muted) /\ b = SQLiteSetGroupMemberMute(sqlite, TheGroup, u, muted)
                     /\ p = PostgresSetGroupMemberMute(postgres, TheGroup, u, muted)
  OBVIOUS
<1>2. StoreCall(a, b, p) /\ clock' = clock
  BY <1>1 DEF SetGroupMemberMute, Unstamped
<1>3. postgres = sqlite /\ Together(memory, sqlite, clock) /\ clock \in Nat
  BY ONLY <1>2, CallFacts, StoreInv
<1>4. p = b
  BY ONLY <1>1, <1>3 DEF PostgresSetGroupMemberMute
<1>5. Sound(a, b, clock)
  BY ONLY <1>1, <1>3, MuteSet, u \in People, muted \in BOOLEAN
<1> QED BY ONLY <1>2, <1>4, <1>5, PlainStep, StoreInv

LEMMA TransferGroupOwnershipStep ==
    ASSUME StoreInv, NEW from \in People, NEW to \in People, TransferGroupOwnership(from, to)
    PROVE  StoreInv'
<1>1. PICK a, b, p : /\ a = MemoryTransferGroupOwnership(memory, TheGroup, from, to) /\ b = SQLiteTransferGroupOwnership(sqlite, TheGroup, from, to)
                     /\ p = PostgresTransferGroupOwnership(postgres, TheGroup, from, to)
  OBVIOUS
<1>2. StoreCall(a, b, p) /\ clock' = clock
  BY <1>1 DEF TransferGroupOwnership, Unstamped
<1>3. postgres = sqlite /\ Together(memory, sqlite, clock) /\ clock \in Nat
  BY ONLY <1>2, CallFacts, StoreInv
<1>4. p = b
  BY ONLY <1>1, <1>3 DEF PostgresTransferGroupOwnership
<1>5. Sound(a, b, clock)
  BY ONLY <1>1, <1>3, OwnershipTransferred, from \in People, to \in People
<1> QED BY ONLY <1>2, <1>4, <1>5, PlainStep, StoreInv

LEMMA AddGroupMemberStep ==
    ASSUME StoreInv, NEW u \in People, AddGroupMember(u)
    PROVE  StoreInv'
<1>1. PICK a, b, p : /\ a = MemoryAddGroupMember(memory, TheGroup, u) /\ b = SQLiteAddGroupMember(sqlite, TheGroup, u)
                     /\ p = PostgresAddGroupMember(postgres, TheGroup, u)
  OBVIOUS
<1>2. StoreCall(a, b, p) /\ clock' = clock
  BY <1>1 DEF AddGroupMember, Unstamped
<1>3. postgres = sqlite /\ Together(memory, sqlite, clock) /\ clock \in Nat
  BY ONLY <1>2, CallFacts, StoreInv
<1>4. p = b
  BY ONLY <1>1, <1>3 DEF PostgresAddGroupMember
<1>5. Sound(a, b, clock)
  BY ONLY <1>1, <1>3, MemberAdded, u \in People
<1> QED BY ONLY <1>2, <1>4, <1>5, PlainStep, StoreInv

LEMMA RemoveGroupMemberStep ==
    ASSUME StoreInv, NEW u \in People, RemoveGroupMember(u)
    PROVE  StoreInv'
<1>1. PICK a, b, p : /\ a = MemoryRemoveGroupMember(memory, TheGroup, u) /\ b = SQLiteRemoveGroupMember(sqlite, TheGroup, u)
                     /\ p = PostgresRemoveGroupMember(postgres, TheGroup, u)
  OBVIOUS
<1>2. StoreCall(a, b, p) /\ clock' = clock /\ ~ \E x \in sqlite.members : x.user = u /\ x.role = "owner"
  BY <1>1 DEF RemoveGroupMember, Unstamped
<1>3. postgres = sqlite /\ Together(memory, sqlite, clock) /\ clock \in Nat
  BY ONLY <1>2, CallFacts, StoreInv
<1>4. p = b
  BY ONLY <1>1, <1>3 DEF PostgresRemoveGroupMember
<1>5. Sound(a, b, clock)
  BY ONLY <1>1, <1>3, MemberRemoved, <1>2, u \in People
<1> QED BY ONLY <1>2, <1>4, <1>5, PlainStep, StoreInv

LEMMA DeleteGroupAnnouncementStep ==
    ASSUME StoreInv, NEW id, DeleteGroupAnnouncement(id)
    PROVE  StoreInv'
<1>1. PICK a, b, p : /\ a = MemoryDeleteGroupAnnouncement(memory, id) /\ b = SQLiteDeleteGroupAnnouncement(sqlite, id)
                     /\ p = PostgresDeleteGroupAnnouncement(postgres, id)
  OBVIOUS
<1>2. StoreCall(a, b, p) /\ clock' = clock
  BY <1>1 DEF DeleteGroupAnnouncement, Unstamped
<1>3. postgres = sqlite /\ Together(memory, sqlite, clock) /\ clock \in Nat
  BY ONLY <1>2, CallFacts, StoreInv
<1>4. p = b
  BY ONLY <1>1, <1>3 DEF PostgresDeleteGroupAnnouncement
<1>5. Sound(a, b, clock)
  BY ONLY <1>1, <1>3, AnnouncementDeleted
<1> QED BY ONLY <1>2, <1>4, <1>5, PlainStep, StoreInv

LEMMA MarkGroupAnnouncementReadStep ==
    ASSUME StoreInv, NEW id \in Nat, NEW u \in People, MarkGroupAnnouncementRead(id, u)
    PROVE  StoreInv'
<1>1. PICK a, b, p : /\ a = MemoryMarkGroupAnnouncementRead(memory, id, u) /\ b = SQLiteMarkGroupAnnouncementRead(sqlite, id, u)
                     /\ p = PostgresMarkGroupAnnouncementRead(postgres, id, u)
  OBVIOUS
<1>2. StoreCall(a, b, p) /\ clock' = clock /\ \E x \in memory.announcements : x.id = id
  BY <1>1 DEF MarkGroupAnnouncementRead, Unstamped
<1>3. postgres = sqlite /\ Together(memory, sqlite, clock) /\ clock \in Nat
  BY ONLY <1>2, CallFacts, StoreInv
<1>4. p = b
  BY ONLY <1>1, <1>3 DEF PostgresMarkGroupAnnouncementRead
<1>5. Sound(a, b, clock)
  BY ONLY <1>1, <1>3, AnnouncementMarked, <1>2, id \in Nat, u \in People
<1> QED BY ONLY <1>2, <1>4, <1>5, PlainStep, StoreInv

LEMMA GetOrCreateConversationStep ==
    ASSUME StoreInv, NEW c \in Places, GetOrCreateConversation(c)
    PROVE  StoreInv'
<1>0. PICK kind : kind = IF c = TheGroup THEN "group" ELSE "private"
  OBVIOUS
<1>1. PICK a, b, p : /\ a = MemoryGetOrCreateConversation(memory, c, kind) /\ b = SQLiteGetOrCreateConversation(sqlite, c, kind)
                     /\ p = PostgresGetOrCreateConversation(postgres, c, kind)
  OBVIOUS
<1>2. StoreCall(a, b, p) /\ clock' = clock /\ (c # TheGroup => PrivateExists)
  BY <1>0, <1>1 DEF GetOrCreateConversation, Unstamped, CanAccess
<1>3. postgres = sqlite /\ Together(memory, sqlite, clock) /\ clock \in Nat
  BY ONLY <1>2, CallFacts, StoreInv
<1>4. p = b
  BY ONLY <1>1, <1>3 DEF PostgresGetOrCreateConversation
<1>5. c \in DOMAIN memory.conversations
  <2>1. TheGroup \in DOMAIN memory.conversations
    BY ONLY <1>3, TogetherParts
  <2> QED BY ONLY <1>2, <2>1, c \in Places DEF PrivateExists, Places
<1>6. Sound(a, b, clock)
  BY ONLY <1>1, <1>3, <1>5, ConversationFound
<1> QED BY ONLY <1>2, <1>4, <1>6, PlainStep, StoreInv

LEMMA DeleteConversationStep ==
    ASSUME StoreInv, DeleteConversation
    PROVE  StoreInv'
<1>1. PICK a, b, p : /\ a = MemoryDeleteConversation(memory, PrivateChat) /\ b = SQLiteDeleteConversation(sqlite, PrivateChat)
                     /\ p = PostgresDeleteConversation(postgres, PrivateChat)
  OBVIOUS
<1>2. StoreCall(a, b, p) /\ clock' = clock
  BY <1>1 DEF DeleteConversation, Unstamped
<1>3. postgres = sqlite /\ Together(memory, sqlite, clock) /\ clock \in Nat
  BY ONLY <1>2, CallFacts, StoreInv
<1>4. PrivateChat \in Places /\ PrivateChat # TheGroup
  BY StoreAssumption DEF Places
<1>5. Sound(a, b, clock) /\ p = b
  BY ONLY <1>1, <1>3, <1>4, ConversationGone
<1> QED BY ONLY <1>2, <1>5, PlainStep, StoreInv

LEMMA DeleteMessageStep ==
    ASSUME StoreInv, NEW id, DeleteMessage(id)
    PROVE  StoreInv'
<1>1. PICK a, b, p : /\ a = MemoryDeleteMessage(memory, id) /\ b = SQLiteDeleteMessage(sqlite, id)
                     /\ p = PostgresDeleteMessage(postgres, id)
  OBVIOUS
<1>2. StoreCall(a, b, p) /\ clock' = clock
  BY <1>1 DEF DeleteMessage, Unstamped
<1>3. postgres = sqlite /\ Together(memory, sqlite, clock) /\ clock \in Nat
  BY ONLY <1>2, CallFacts, StoreInv
<1>4. HasTables(sqlite)
  BY ONLY <1>3, TogetherParts
<1>5. p = b
  BY ONLY <1>1, <1>3, <1>4, PostgresDeletesMessage
<1>6. Sound(a, b, clock)
  BY ONLY <1>1, <1>3, MessageDeleted
<1> QED BY ONLY <1>2, <1>5, <1>6, PlainStep, StoreInv

LEMMA StoreMessageIdempotentStep ==
    ASSUME StoreInv, NEW r \in SendRequests, StoreMessageIdempotent(r)
    PROVE  StoreInv'
<1>1. PICK a, b, p : /\ a = MemoryStoreMessageIdempotent(memory, r.conversation, r.sender, r.client, r.segments, clock + 1)
                     /\ b = SQLiteStoreMessageIdempotent(sqlite, r.conversation, r.sender, r.client, r.segments, clock + 1)
                     /\ p = PostgresStoreMessageIdempotent(postgres, r.conversation, r.sender, r.client, r.segments, clock + 1)
  OBVIOUS
<1>2. StoreCall(a, b, p) /\ clock' = clock + 1
  BY <1>1 DEF StoreMessageIdempotent, Stamped
<1>3. postgres = sqlite /\ Together(memory, sqlite, clock) /\ clock \in Nat
  BY ONLY <1>2, CallFacts, StoreInv
<1>4. p = b
  BY ONLY <1>1, <1>3 DEF PostgresStoreMessageIdempotent, SQLiteStoreMessageIdempotent, PostgresIdempotentMessage
<1>5. r.conversation \in Places /\ r.sender \in People /\ r.client \in ClientKeys /\ r.segments \in StoredSegments
  BY RequestParts
<1>6. PICK c, u, k, s : c = r.conversation /\ u = r.sender /\ k = r.client /\ s = r.segments
  OBVIOUS
<1>7. Sound(MemoryStoreMessageIdempotent(memory, c, u, k, s, clock + 1),
            SQLiteStoreMessageIdempotent(sqlite, c, u, k, s, clock + 1), clock + 1)
  BY ONLY <1>3, <1>5, <1>6, MessageStored
<1>8. Sound(a, b, clock') /\ clock' \in Nat
  BY ONLY <1>1, <1>2, <1>3, <1>6, <1>7
<1> QED BY ONLY <1>2, <1>4, <1>8, StoreStep, StoreInv

LEMMA StoreDynamicUpdateIdempotentStep ==
    ASSUME StoreInv, NEW id \in Nat, NEW r \in SendRequests, StoreDynamicUpdateIdempotent(id, r)
    PROVE  StoreInv'
<1>0. PICK u, k, s, print : u = r.sender /\ k = r.client /\ s = r.segments /\ print = MessageFingerprint(id, r.segments)
  OBVIOUS
<1>1. PICK a, b, p : /\ a = MemoryStoreDynamicUpdateIdempotent(memory, u, k, print, id, s)
                     /\ b = SQLiteStoreDynamicUpdateIdempotent(sqlite, u, k, print, id, s)
                     /\ p = PostgresStoreDynamicUpdateIdempotent(postgres, u, k, print, id, s)
  OBVIOUS
<1>2. StoreCall(a, b, p) /\ clock' = clock
  BY <1>0, <1>1 DEF StoreDynamicUpdateIdempotent, Unstamped
<1>3. postgres = sqlite /\ Together(memory, sqlite, clock) /\ clock \in Nat
  BY ONLY <1>2, CallFacts, StoreInv
<1>4. p = b
  BY ONLY <1>1, <1>3 DEF PostgresStoreDynamicUpdateIdempotent
<1>5. u \in People /\ k \in ClientKeys /\ s \in StoredSegments
  BY <1>0, RequestParts
<1>6. print \in StorePrints
  BY ONLY <1>0, <1>5, id \in Nat DEF MessageFingerprint, StorePrints
<1>7. Sound(a, b, clock)
  BY ONLY <1>1, <1>3, <1>5, <1>6, UpdateStored, id \in Nat
<1> QED BY ONLY <1>2, <1>4, <1>7, PlainStep, StoreInv

LEMMA AppendDynamicInteractionEventStep ==
    ASSUME StoreInv, NEW id \in Nat, NEW e \in EventRequests, AppendDynamicInteractionEvent(id, e)
    PROVE  StoreInv'
<1>0. PICK x : x = EventOf(id, e)
  OBVIOUS
<1>1. PICK a, b, p : /\ a = MemoryAppendDynamicInteractionEvent(memory, x)
                     /\ b = SQLiteAppendDynamicInteractionEvent(sqlite, x)
                     /\ p = PostgresAppendDynamicInteractionEvent(postgres, x)
  OBVIOUS
<1>2. StoreCall(a, b, p) /\ clock' = clock /\ MemoryGetMessage(memory, id) # Nothing
  BY <1>0, <1>1 DEF AppendDynamicInteractionEvent, Unstamped
<1>3. postgres = sqlite /\ Together(memory, sqlite, clock) /\ clock \in Nat
  BY ONLY <1>2, CallFacts, StoreInv
<1>4. p = b
  BY ONLY <1>1, <1>3 DEF PostgresAppendDynamicInteractionEvent
<1>5. /\ x \in InteractionRows /\ x.message = id
      /\ \A r \in sqlite.messages : r.id = id => r.conversation = x.conversation
  BY ONLY <1>0, <1>3, EventPlace, id \in Nat, e \in EventRequests
<1>6. \E r \in sqlite.messages : r.id = x.message /\ r.conversation = x.conversation
  <2>1. /\ MessagesMatch(memory.messages, sqlite.messages, clock) /\ memory.reactions = sqlite.reactions
        /\ sqlite.reactions \subseteq ReactionRows /\ IsFiniteSet(sqlite.reactions)
    BY ONLY <1>3, TogetherParts
  <2>2. /\ MemoryGetMessage(memory, id) = SQLiteGetMessage(sqlite, id)
        /\ MemoryGetMessage(memory, id) # Nothing <=> \E r \in sqlite.messages : r.id = id
        /\ MemoryGetMessage(memory, id) \in LoadedMessages \cup {Nothing}
    BY ONLY <2>1, SameMessage
  <2> QED BY ONLY <1>2, <1>5, <2>2
<1>7. Sound(a, b, clock)
  BY ONLY <1>1, <1>3, <1>5, <1>6, EventAppended
<1> QED BY ONLY <1>2, <1>4, <1>7, PlainStep, StoreInv

LEMMA CommitDynamicInteractionEventStep ==
    ASSUME StoreInv, NEW id \in Nat, NEW e \in EventRequests, CommitDynamicInteractionEvent(id, e)
    PROVE  StoreInv'
<1>0. PICK x, s : x = EventOf(id, e) /\ s = e.payload
  OBVIOUS
<1>1. PICK a, b, p : /\ a = MemoryCommitDynamicInteractionEvent(memory, x, s)
                     /\ b = SQLiteCommitDynamicInteractionEvent(sqlite, x, s)
                     /\ p = PostgresCommitDynamicInteractionEvent(postgres, x, s)
  OBVIOUS
<1>2. StoreCall(a, b, p) /\ clock' = clock
  BY <1>0, <1>1 DEF CommitDynamicInteractionEvent, Unstamped
<1>3. postgres = sqlite /\ Together(memory, sqlite, clock) /\ clock \in Nat
  BY ONLY <1>2, CallFacts, StoreInv
<1>4. p = b
  BY ONLY <1>1, <1>3 DEF PostgresCommitDynamicInteractionEvent
<1>5. /\ x \in InteractionRows /\ x.message = id /\ s \in StoredSegments
      /\ \A r \in sqlite.messages : r.id = id => r.conversation = x.conversation
  BY ONLY <1>0, <1>3, EventPlace, id \in Nat, e \in EventRequests
<1>6. Sound(a, b, clock)
  BY ONLY <1>1, <1>3, <1>5, EventCommitted
<1> QED BY ONLY <1>2, <1>4, <1>6, PlainStep, StoreInv

LEMMA CreateGroupAnnouncementStep ==
    ASSUME StoreInv, NEW pinned \in BOOLEAN, CreateGroupAnnouncement("news", pinned)
    PROVE  StoreInv'
<1>0. PICK now : now = clock + 1
  OBVIOUS
<1>1. PICK a, b, p : /\ a = MemoryCreateGroupAnnouncement(memory, TheGroup, "news", pinned, now)
                     /\ b = SQLiteCreateGroupAnnouncement(sqlite, TheGroup, "news", pinned, now)
                     /\ p = PostgresCreateGroupAnnouncement(postgres, TheGroup, "news", pinned, now)
  OBVIOUS
<1>2. StoreCall(a, b, p) /\ clock' = now
  BY <1>0, <1>1 DEF CreateGroupAnnouncement, Stamped
<1>3. postgres = sqlite /\ Together(memory, sqlite, clock) /\ clock \in Nat
  BY ONLY <1>2, CallFacts, StoreInv
<1>4. p = b
  BY ONLY <1>1, <1>3 DEF PostgresCreateGroupAnnouncement
<1>5. now \in Nat /\ clock <= now
  BY ONLY <1>0, <1>3
<1>6. Together(memory, sqlite, now)
  BY ONLY <1>3, <1>5, TimePasses
<1>7. Sound(a, b, clock')
  BY ONLY <1>1, <1>2, <1>5, <1>6, AnnouncementCreated, pinned \in BOOLEAN
<1> QED BY ONLY <1>2, <1>4, <1>5, <1>7, StoreStep, StoreInv

LEMMA UpdateGroupAnnouncementStep ==
    ASSUME StoreInv, NEW id, NEW pinned \in BOOLEAN, UpdateGroupAnnouncement(id, "update", pinned)
    PROVE  StoreInv'
<1>0. PICK now : now = clock + 1
  OBVIOUS
<1>1. PICK a, b, p : /\ a = MemoryUpdateGroupAnnouncement(memory, id, "update", pinned, now)
                     /\ b = SQLiteUpdateGroupAnnouncement(sqlite, id, "update", pinned, now)
                     /\ p = PostgresUpdateGroupAnnouncement(postgres, id, "update", pinned, now)
  OBVIOUS
<1>2. StoreCall(a, b, p) /\ clock' = now
  BY <1>0, <1>1 DEF UpdateGroupAnnouncement, Stamped
<1>3. postgres = sqlite /\ Together(memory, sqlite, clock) /\ clock \in Nat
  BY ONLY <1>2, CallFacts, StoreInv
<1>4. p = b
  BY ONLY <1>1, <1>3 DEF PostgresUpdateGroupAnnouncement
<1>5. now \in Nat /\ clock <= now
  BY ONLY <1>0, <1>3
<1>6. Together(memory, sqlite, now)
  BY ONLY <1>3, <1>5, TimePasses
<1>7. Sound(a, b, clock')
  BY ONLY <1>1, <1>2, <1>5, <1>6, AnnouncementUpdated, pinned \in BOOLEAN
<1> QED BY ONLY <1>2, <1>4, <1>5, <1>7, StoreStep, StoreInv

(* The stores after the group was created *)

LEMMA SeededMaps ==
           \E f, conversations, groups :
             /\ f = FALSE
             /\ SeededMemory = [conversations |-> conversations, preferences |-> {}, messages |-> <<>>, sent |-> {},
                                updated |-> {}, events |-> {}, reactions |-> {}, reads |-> {}, groups |-> groups,
                                announcements |-> {}, announcementReads |-> {}]
             /\ DOMAIN conversations = Places
             /\ \A c \in Places : conversations[c] = SavedConversation(c)
             /\ DOMAIN groups = {TheGroup}
             /\ groups[TheGroup] = [owner |-> Owner, muteAll |-> f, announcement |-> Empty,
                                    members |-> {[user |-> Owner, role |-> "owner", muted |-> f],
                                                 [user |-> Guest, role |-> "member", muted |-> f]}]
<1>0. PICK f : f = FALSE
  OBVIOUS
<1>1. PICK s0 : s0 = EmptyMemoryStore
  OBVIOUS
<1>2. s0 = [conversations |-> <<>>, preferences |-> {}, messages |-> <<>>, sent |-> {}, updated |-> {},
            events |-> {}, reactions |-> {}, reads |-> {}, groups |-> <<>>, announcements |-> {},
            announcementReads |-> {}]
  BY ONLY <1>1 DEF EmptyMemoryStore
<1>3. PICK c1, s1 : c1 = Put(<<>>, PrivateChat, [kind |-> "private", people |-> People]) /\ s1 = [s0 EXCEPT !.conversations = c1]
  OBVIOUS
<1>4. s1 = [conversations |-> c1, preferences |-> {}, messages |-> <<>>, sent |-> {}, updated |-> {},
            events |-> {}, reactions |-> {}, reads |-> {}, groups |-> <<>>, announcements |-> {},
            announcementReads |-> {}]
  BY ONLY <1>2, <1>3
<1>5. MemorySaveConversation(s0, PrivateChat, "private", People).store = s1
  <2>1. s0.conversations = <<>>
    BY ONLY <1>2
  <2> QED BY ONLY <1>3, <2>1 DEF MemorySaveConversation, Reply
<1>6. PICK me, g2, G2, s2 : /\ me = [user |-> Owner, role |-> "owner", muted |-> f]
                        /\ g2 = [owner |-> Owner, muteAll |-> f, announcement |-> Empty, members |-> {[user |-> Owner, role |-> "owner", muted |-> f]}]
                        /\ G2 = Put(<<>>, TheGroup, [owner |-> Owner, muteAll |-> f, announcement |-> Empty, members |-> {[user |-> Owner, role |-> "owner", muted |-> f]}])
                        /\ s2 = [s1 EXCEPT !.groups = Put(<<>>, TheGroup, [owner |-> Owner, muteAll |-> f, announcement |-> Empty, members |-> {[user |-> Owner, role |-> "owner", muted |-> f]}])]
  OBVIOUS
<1>7. s2 = [conversations |-> c1, preferences |-> {}, messages |-> <<>>, sent |-> {}, updated |-> {},
            events |-> {}, reactions |-> {}, reads |-> {}, groups |-> G2, announcements |-> {},
            announcementReads |-> {}]
  BY ONLY <1>4, <1>6
<1>8. MemoryCreateGroup(s1, TheGroup, Owner).store = s2
  <2>1. s1.groups = <<>>
    BY ONLY <1>4
  <2>2. MemoryCreateGroup(s1, TheGroup, Owner).store
         = [s1 EXCEPT !.groups = Put(<<>>, TheGroup, [owner |-> Owner, muteAll |-> FALSE, announcement |-> Empty,
                                       members |-> {[user |-> Owner, role |-> "owner", muted |-> FALSE]}])]
    BY ONLY <2>1 DEF MemoryCreateGroup, Reply
  <2> QED BY ONLY <1>6, <2>2, <1>0, Zenon
<1>9. DOMAIN G2 = {TheGroup} /\ G2[TheGroup] = g2 /\ g2.members = {me} /\ me.user = Owner
  BY ONLY <1>6 DEF Put
<1>10. PICK you, g3, G3, s3 : /\ you = [user |-> Guest, role |-> "member", muted |-> f]
                          /\ g3 = {me, [user |-> Guest, role |-> "member", muted |-> f]}
                          /\ G3 = [G2 EXCEPT ![TheGroup].members = {me, [user |-> Guest, role |-> "member", muted |-> f]}]
                          /\ s3 = [s2 EXCEPT !.groups = [G2 EXCEPT ![TheGroup].members = {me, [user |-> Guest, role |-> "member", muted |-> f]}]]
  OBVIOUS
<1>11. s3 = [conversations |-> c1, preferences |-> {}, messages |-> <<>>, sent |-> {}, updated |-> {},
             events |-> {}, reactions |-> {}, reads |-> {}, groups |-> G3, announcements |-> {},
             announcementReads |-> {}]
  BY ONLY <1>7, <1>10
<1>12. MemoryAddGroupMember(s2, TheGroup, Guest).store = s3
  <2>1. s2.groups = G2
    BY ONLY <1>7
  <2>2. ~ MemoryIsGroupMember(s2, TheGroup, Guest)
    BY ONLY <1>9, <2>1, StoreAssumption DEF MemoryIsGroupMember
  <2>3. MemoryAddGroupMember(s2, TheGroup, Guest)
          = Reply([s2 EXCEPT !.groups[TheGroup].members = @ \cup {[user |-> Guest, role |-> "member", muted |-> FALSE]}], TRUE)
    BY ONLY <1>9, <2>1, <2>2 DEF MemoryAddGroupMember
  <2>4. [user |-> Guest, role |-> "member", muted |-> FALSE] = you
    BY ONLY <1>10, <1>0, Zenon
  <2>5. [s2 EXCEPT !.groups[TheGroup].members = @ \cup {you}] = s3
    <3>1. s2.groups[TheGroup].members \cup {you} = {me, you}
      BY ONLY <1>9, <2>1
    <3>2. [s2 EXCEPT !.groups[TheGroup].members = @ \cup {you}]
            = [s2 EXCEPT !.groups = [s2.groups EXCEPT ![TheGroup].members = s2.groups[TheGroup].members \cup {you}]]
      BY ONLY <1>7, <1>9
    <3> QED BY ONLY <1>10, <2>1, <3>1, <3>2
  <2>6. MemoryAddGroupMember(s2, TheGroup, Guest) = Reply(s3, TRUE)
    BY ONLY <2>3, <2>4, <2>5, Zenon
  <2> QED BY ONLY <2>6 DEF Reply
<1>13. PICK c4, s4 : c4 = Put(c1, TheGroup, [kind |-> "group", people |-> {}]) /\ s4 = [s3 EXCEPT !.conversations = Put(c1, TheGroup, [kind |-> "group", people |-> {}])]
  OBVIOUS
<1>14. s4 = [conversations |-> c4, preferences |-> {}, messages |-> <<>>, sent |-> {}, updated |-> {},
             events |-> {}, reactions |-> {}, reads |-> {}, groups |-> G3, announcements |-> {},
             announcementReads |-> {}]
  BY ONLY <1>11, <1>13
<1>15. MemorySaveConversation(s3, TheGroup, "group", {}).store = s4
  <2>1. s3.conversations = c1
    BY ONLY <1>11
  <2> QED BY ONLY <1>13, <2>1 DEF MemorySaveConversation, Reply
<1>16. SeededMemory = s4
  BY ONLY <1>1, <1>5, <1>8, <1>12, <1>15 DEF SeededMemory
<1>17. DOMAIN c1 = {PrivateChat} /\ c1[PrivateChat] = [kind |-> "private", people |-> People]
  BY ONLY <1>3 DEF Put
<1>18. DOMAIN c4 = Places /\ \A c \in Places : c4[c] = SavedConversation(c)
  BY ONLY <1>13, <1>17, StoreAssumption DEF Put, Places, SavedConversation
<1>19. DOMAIN G3 = {TheGroup} /\ G3[TheGroup] = [owner |-> Owner, muteAll |-> f, announcement |-> Empty, members |-> {me, you}]
  <2>1. G3 = [G2 EXCEPT ![TheGroup] = [g2 EXCEPT !.members = {me, you}]]
    BY ONLY <1>9, <1>10
  <2>0. g2 = [owner |-> Owner, muteAll |-> f, announcement |-> Empty, members |-> {me}]
    BY ONLY <1>6
  <2>2. [g2 EXCEPT !.members = {me, you}] = [owner |-> Owner, muteAll |-> f, announcement |-> Empty, members |-> {me, you}]
    BY ONLY <2>0
  <2> QED BY ONLY <1>9, <2>1, <2>2
<1>20. SeededMemory = [conversations |-> c4, preferences |-> {}, messages |-> <<>>, sent |-> {}, updated |-> {},
                       events |-> {}, reactions |-> {}, reads |-> {}, groups |-> G3, announcements |-> {},
                       announcementReads |-> {}]
  BY ONLY <1>14, <1>16
<1>21. G3[TheGroup] = [owner |-> Owner, muteAll |-> f, announcement |-> Empty,
                       members |-> {[user |-> Owner, role |-> "owner", muted |-> f],
                                    [user |-> Guest, role |-> "member", muted |-> f]}]
  BY ONLY <1>6, <1>10, <1>19, Zenon
<1> QED BY ONLY <1>0, <1>18, <1>19, <1>20, <1>21, ZenonT(40)

LEMMA SeededRows ==
    ASSUME NEW f, f = FALSE
    PROVE  SeededTables(EmptyTables) =
             [conversations |-> {SavedRow(PrivateChat), SavedRow(TheGroup)}, preferences |-> {}, messages |-> {},
              updated |-> {}, events |-> {}, reactions |-> {}, reads |-> {},
              groups |-> {[id |-> TheGroup, owner |-> Owner, muteAll |-> f, announcement |-> Empty]},
              members |-> {[group |-> TheGroup, user |-> Owner, role |-> "owner", muted |-> f],
                           [group |-> TheGroup, user |-> Guest, role |-> "member", muted |-> f]},
              announcements |-> {}, announcementReads |-> {}]
<1>1. PICK s0 : s0 = EmptyTables
  OBVIOUS
<1>2. s0 = [conversations |-> {}, preferences |-> {}, messages |-> {}, updated |-> {}, events |-> {},
            reactions |-> {}, reads |-> {}, groups |-> {}, members |-> {}, announcements |-> {}, announcementReads |-> {}]
  BY ONLY <1>1 DEF EmptyTables
<1>3. PICK r1, r4, s1 : /\ r1 = SavedRow(PrivateChat) /\ r4 = SavedRow(TheGroup)
                        /\ s1 = [s0 EXCEPT !.conversations = {SavedRow(PrivateChat)}]
  OBVIOUS
<1>4. s1 = [conversations |-> {r1}, preferences |-> {}, messages |-> {}, updated |-> {}, events |-> {},
            reactions |-> {}, reads |-> {}, groups |-> {}, members |-> {}, announcements |-> {}, announcementReads |-> {}]
  BY ONLY <1>2, <1>3
<1>5. /\ [id |-> PrivateChat, kind |-> "private", people |-> People] = r1 /\ r1.id = PrivateChat
      /\ [id |-> TheGroup, kind |-> "group", people |-> {}] = r4 /\ r4.id = TheGroup
  BY ONLY <1>3, StoreAssumption DEF SavedRow
<1>6. SQLiteSaveConversation(s0, PrivateChat, "private", People).store = s1
  <2>1. s0.conversations = {}
    BY ONLY <1>2
  <2>2. {r \in {} : r.id # PrivateChat} \cup {r1} = {r1}
    OBVIOUS
  <2> QED BY ONLY <1>3, <1>5, <2>1, <2>2 DEF SQLiteSaveConversation, Reply
<1>7. PICK x, me : /\ x = [id |-> TheGroup, owner |-> Owner, muteAll |-> f, announcement |-> Empty]
                   /\ me = [group |-> TheGroup, user |-> Owner, role |-> "owner", muted |-> f]
  OBVIOUS
<1>8. PICK s2 : s2 = [s1 EXCEPT !.groups = {x}, !.members = {me}]
  OBVIOUS
<1>9. s2 = [conversations |-> {r1}, preferences |-> {}, messages |-> {}, updated |-> {}, events |-> {},
            reactions |-> {}, reads |-> {}, groups |-> {x}, members |-> {me}, announcements |-> {}, announcementReads |-> {}]
  BY ONLY <1>4, <1>8
<1>10. SQLiteCreateGroup(s1, TheGroup, Owner).store = s2
  <2>1. s1.groups = {} /\ s1.members = {}
    BY ONLY <1>4
  <2>2. GroupRow(s1, TheGroup) = Nothing
    BY ONLY <2>1 DEF GroupRow, TheRow
  <2>3. SQLiteCreateGroup(s1, TheGroup, Owner)
          = Reply([s1 EXCEPT !.groups = @ \cup {[id |-> TheGroup, owner |-> Owner, muteAll |-> FALSE, announcement |-> Empty]},
                             !.members = @ \cup {[group |-> TheGroup, user |-> Owner, role |-> "owner", muted |-> FALSE]}], Accepted)
    BY ONLY <2>2 DEF SQLiteCreateGroup
  <2>4. /\ [id |-> TheGroup, owner |-> Owner, muteAll |-> FALSE, announcement |-> Empty] = x
        /\ [group |-> TheGroup, user |-> Owner, role |-> "owner", muted |-> FALSE] = me
    BY ONLY <1>7, f = FALSE, Zenon
  <2>5. SQLiteCreateGroup(s1, TheGroup, Owner) = Reply([s1 EXCEPT !.groups = s1.groups \cup {x}, !.members = s1.members \cup {me}], Accepted)
    BY ONLY <2>3, <2>4
  <2>6. s1.groups \cup {x} = {x} /\ s1.members \cup {me} = {me}
    BY ONLY <2>1
  <2>7. [s1 EXCEPT !.groups = s1.groups \cup {x}, !.members = s1.members \cup {me}] = s2
    BY ONLY <1>8, <2>6
  <2> QED BY ONLY <2>5, <2>7 DEF Reply
<1>11. PICK you : you = [group |-> TheGroup, user |-> Guest, role |-> "member", muted |-> f]
  OBVIOUS
<1>12. PICK s3 : s3 = [s2 EXCEPT !.members = {me, you}]
  OBVIOUS
<1>13. s3 = [conversations |-> {r1}, preferences |-> {}, messages |-> {}, updated |-> {}, events |-> {},
            reactions |-> {}, reads |-> {}, groups |-> {x}, members |-> {me, you}, announcements |-> {}, announcementReads |-> {}]
  BY ONLY <1>9, <1>12
<1>14. SQLiteAddGroupMember(s2, TheGroup, Guest).store = s3
  <2>1. s2.members = {me} /\ me.user = Owner
    BY ONLY <1>7, <1>9
  <2>2. ~ SQLiteIsGroupMember(s2, TheGroup, Guest)
    BY ONLY <2>1, StoreAssumption DEF SQLiteIsGroupMember
  <2>3. SQLiteAddGroupMember(s2, TheGroup, Guest)
          = Reply([s2 EXCEPT !.members = @ \cup {[group |-> TheGroup, user |-> Guest, role |-> "member", muted |-> FALSE]}], TRUE)
    BY ONLY <2>2 DEF SQLiteAddGroupMember
  <2>4. [group |-> TheGroup, user |-> Guest, role |-> "member", muted |-> FALSE] = you
    BY ONLY <1>11, f = FALSE, Zenon
  <2>5. [s2 EXCEPT !.members = @ \cup {you}] = s3
    <3>1. s2.members \cup {you} = {me, you}
      BY ONLY <2>1
    <3> QED BY ONLY <1>12, <3>1
  <2>6. SQLiteAddGroupMember(s2, TheGroup, Guest) = Reply(s3, TRUE)
    BY ONLY <2>3, <2>4, <2>5, Zenon
  <2> QED BY ONLY <2>6 DEF Reply
<1>15. PICK s4 : s4 = [s3 EXCEPT !.conversations = {r1, r4}]
  OBVIOUS
<1>16. s4 = [conversations |-> {r1, r4}, preferences |-> {}, messages |-> {}, updated |-> {}, events |-> {},
            reactions |-> {}, reads |-> {}, groups |-> {x}, members |-> {me, you}, announcements |-> {}, announcementReads |-> {}]
  BY ONLY <1>13, <1>15
<1>17. SQLiteSaveConversation(s3, TheGroup, "group", {}).store = s4
  <2>1. s3.conversations = {r1}
    BY ONLY <1>13
  <2>2. {r \in {r1} : r.id # TheGroup} \cup {r4} = {r1, r4}
    BY ONLY <1>5, StoreAssumption
  <2>3. SQLiteSaveConversation(s3, TheGroup, "group", {}).store
          = [s3 EXCEPT !.conversations = {r \in s3.conversations : r.id # TheGroup} \cup {r4}]
    BY ONLY <1>5 DEF SQLiteSaveConversation, Reply
  <2> QED BY ONLY <1>15, <2>1, <2>2, <2>3
<1>18. SeededTables(EmptyTables) = s4
  BY ONLY <1>1, <1>6, <1>10, <1>14, <1>17 DEF SeededTables
<1> QED BY ONLY <1>3, <1>7, <1>11, <1>16, <1>18

LEMMA StoreInitInv ==
    ASSUME StoreInit
    PROVE  StoreInv
<1>3. PICK f, conversations, groups :
             /\ f = FALSE
             /\ SeededMemory = [conversations |-> conversations, preferences |-> {}, messages |-> <<>>, sent |-> {},
                                updated |-> {}, events |-> {}, reactions |-> {}, reads |-> {}, groups |-> groups,
                                announcements |-> {}, announcementReads |-> {}]
             /\ DOMAIN conversations = Places
             /\ \A c \in Places : conversations[c] = SavedConversation(c)
             /\ DOMAIN groups = {TheGroup}
             /\ groups[TheGroup] = [owner |-> Owner, muteAll |-> f, announcement |-> Empty,
                                    members |-> {[user |-> Owner, role |-> "owner", muted |-> f],
                                                 [user |-> Guest, role |-> "member", muted |-> f]}]
  BY ONLY SeededMaps, Zenon
<1>2. f \in BOOLEAN
  BY ONLY <1>3, Zenon
<1>1. f = FALSE
  BY ONLY <1>3, Zenon
<1>4. PICK me, you, g : /\ me = [user |-> Owner, role |-> "owner", muted |-> f] /\ you = [user |-> Guest, role |-> "member", muted |-> f]
                        /\ g = groups[TheGroup]
  OBVIOUS
<1>5. g = [owner |-> Owner, muteAll |-> f, announcement |-> Empty, members |-> {me, you}]
  BY ONLY <1>3, <1>4
<1>6. PICK rows, x, you2, me2 : /\ rows = {SavedRow(PrivateChat), SavedRow(TheGroup)}
                     /\ x = [id |-> TheGroup, owner |-> Owner, muteAll |-> f, announcement |-> Empty]
                     /\ me2 = [group |-> TheGroup, user |-> Owner, role |-> "owner", muted |-> f]
                     /\ you2 = [group |-> TheGroup, user |-> Guest, role |-> "member", muted |-> f]
  OBVIOUS
<1>7. sqlite = [conversations |-> rows, preferences |-> {}, messages |-> {},
              updated |-> {}, events |-> {}, reactions |-> {}, reads |-> {}, groups |-> {x}, members |-> {me2, you2},
              announcements |-> {}, announcementReads |-> {}] /\ postgres = sqlite
  BY <1>1, <1>6, SeededRows DEF StoreInit, PostgresEmptyTables
<1>8. memory = [conversations |-> conversations, preferences |-> {}, messages |-> <<>>, sent |-> {},
                updated |-> {}, events |-> {}, reactions |-> {}, reads |-> {}, groups |-> groups,
                announcements |-> {}, announcementReads |-> {}]
  BY <1>3 DEF StoreInit
<1>9. /\ HasMaps(memory) /\ memory.conversations = conversations /\ memory.preferences = {} /\ memory.messages = <<>>
      /\ memory.sent = {} /\ memory.updated = {} /\ memory.events = {} /\ memory.reactions = {} /\ memory.reads = {}
      /\ memory.groups = groups /\ memory.announcements = {} /\ memory.announcementReads = {}
  BY ONLY <1>8 DEF HasMaps
<1>10. /\ HasTables(sqlite) /\ sqlite.conversations = rows /\ sqlite.preferences = {} /\ sqlite.messages = {}
       /\ sqlite.updated = {} /\ sqlite.events = {} /\ sqlite.reactions = {} /\ sqlite.reads = {}
       /\ sqlite.groups = {x} /\ sqlite.members = {me2, you2}
       /\ sqlite.announcements = {} /\ sqlite.announcementReads = {}
  BY ONLY <1>7 DEF HasTables
<1>11. ConversationsMatch(conversations, rows)
  BY ONLY <1>3, <1>6 DEF ConversationsMatch, Places
<1>12. MessagesMatch(<<>>, {}, clock)
  <2>1. DOMAIN <<>> = {}
    OBVIOUS
  <2>2. IsFiniteSet({})
    BY ONLY FS_EmptySet
  <2> QED BY ONLY <2>1, <2>2 DEF MessagesMatch
<1>13. KeysMatch({}, {})
  BY ONLY DEF KeysMatch
<1>14. PreferencesNormal({}) /\ MarksTyped({}) /\ EventsKeyed({}) /\ AboutMessages({}, {}, {}, {}) /\ AnnouncementsKept({}, {})
  BY ONLY DEF PreferencesNormal, MarksTyped, EventsKeyed, AboutMessages, AnnouncementsKept
<1>15. GroupMatches(groups, {x}, {me2, you2})
  <2>1. me \in [user : People, role : {"owner", "admin", "member"}, muted : BOOLEAN] /\ me.user = Owner /\ me.role = "owner" /\ me.muted = f
    BY ONLY <1>2, <1>4 DEF People
  <2>2. you \in [user : People, role : {"owner", "admin", "member"}, muted : BOOLEAN] /\ you.user = Guest /\ you.role = "member" /\ you.muted = f
    BY ONLY <1>2, <1>4 DEF People
  <2>3. g \in StoredGroups
    BY ONLY <1>2, <1>5, <2>1, <2>2 DEF StoredGroups, People
  <2>4. g.members = {me, you} /\ g.owner = Owner /\ g.muteAll = f /\ g.announcement = Empty
    BY ONLY <1>5
  <2>5. OneOwner(g)
    BY ONLY <2>1, <2>2, <2>4, StoreAssumption DEF OneOwner
  <2>6. x = GroupRowOf(g)
    BY ONLY <1>6, <2>4 DEF GroupRowOf
  <2>7. me2 = MemberRowOf(me) /\ you2 = MemberRowOf(you)
    BY ONLY <1>6, <2>1, <2>2 DEF MemberRowOf
  <2>8. {me2, you2} = {MemberRowOf(y) : y \in g.members}
    BY ONLY <2>4, <2>7
  <2> QED BY ONLY <1>3, <1>4, <2>3, <2>5, <2>6, <2>8 DEF GroupMatches
<1>16. IsFiniteSet({}) /\ {} \subseteq ReactionRows /\ TheGroup \in Places
  BY ONLY FS_EmptySet DEF Places
<1>17. Together(memory, sqlite, clock)
  BY ONLY <1>3, <1>9, <1>10, <1>11, <1>12, <1>13, <1>14, <1>15, <1>16 DEF Together, Shown
<1>18. TheGroup \in DOMAIN memory.groups
  BY ONLY <1>3, <1>9
<1>19. clock \in Nat /\ SameAnswers
  BY DEF StoreInit, SameAnswers
<1> QED BY ONLY <1>7, <1>17, <1>18, <1>19 DEF StoreInv

LEMMA StoreNextInv ==
    ASSUME StoreInv, [StoreNext]_storeVars
    PROVE  StoreInv'
<1>1. CASE UNCHANGED storeVars
  BY <1>1 DEF StoreInv, storeVars, SameAnswers, KeptGroups, OnlyReactionsKeepAGroup, IdsIn
<1>2. \A id \in Stamps : id \in Nat
  BY DEF StoreInv, Stamps
<1>3. Owner \in People /\ Guest \in People
  BY DEF People
<1>4. CASE MessageCalls
  <2>1. CASE \E r \in SendRequests : StoreMessageIdempotent(r)
    BY <2>1, StoreMessageIdempotentStep
  <2>2. ASSUME NEW id \in Stamps, DeleteMessage(id) PROVE StoreInv'
    BY <2>2, DeleteMessageStep
  <2>3. ASSUME NEW id \in Stamps, RecallMessage(id) PROVE StoreInv'
    BY <2>3, RecallMessageStep
  <2>4. ASSUME NEW id \in Stamps, NEW u \in People, NEW remove \in BOOLEAN, ReactToMessage(id, u, remove) PROVE StoreInv'
    BY <1>2, <2>4, ReactToMessageStep
  <2>5. ASSUME NEW id \in Stamps, NEW r \in SendRequests, StoreDynamicUpdateIdempotent(id, r) PROVE StoreInv'
    BY <1>2, <2>5, StoreDynamicUpdateIdempotentStep
  <2>6. ASSUME NEW id \in Stamps, NEW e \in EventRequests, AppendDynamicInteractionEvent(id, e) PROVE StoreInv'
    BY <1>2, <2>6, AppendDynamicInteractionEventStep
  <2>7. ASSUME NEW id \in Stamps, NEW e \in EventRequests, CommitDynamicInteractionEvent(id, e) PROVE StoreInv'
    BY <1>2, <2>7, CommitDynamicInteractionEventStep
  <2>8. ASSUME NEW c \in Places, NEW u \in People, MarkConversationRead(c, u) PROVE StoreInv'
    BY <2>8, MarkConversationReadStep
  <2> QED BY ONLY <1>4, <2>1, <2>2, <2>3, <2>4, <2>5, <2>6, <2>7, <2>8 DEF MessageCalls
<1>5. CASE PlaceCalls
  <2>1. CASE SaveConversation
    BY <2>1, SaveConversationStep
  <2>2. CASE DeleteConversation
    BY <2>2, DeleteConversationStep
  <2>3. ASSUME NEW c \in Places, GetOrCreateConversation(c) PROVE StoreInv'
    BY <2>3, GetOrCreateConversationStep
  <2>4. ASSUME NEW c \in Places, NEW r \in PreferenceRequests, SetConversationPreference(c, Guest, r) PROVE StoreInv'
    BY <1>3, <2>4, SetConversationPreferenceStep
  <2> QED BY ONLY <1>5, <2>1, <2>2, <2>3, <2>4 DEF PlaceCalls
<1>6. CASE GroupCalls
  <2>1. ASSUME NEW muteAll \in BOOLEAN, UpdateGroup("news", muteAll) PROVE StoreInv'
    BY <2>1, UpdateGroupStep
  <2>2. ASSUME NEW u \in People, NEW role \in {"admin", "member"}, SetGroupMemberRole(u, role) PROVE StoreInv'
    BY ONLY StoreInv, <2>2, SetGroupMemberRoleStep
  <2>3. ASSUME NEW muted \in BOOLEAN, SetGroupMemberMute(Guest, muted) PROVE StoreInv'
    BY <1>3, <2>3, SetGroupMemberMuteStep
  <2>4. ASSUME NEW from \in People, NEW to \in People, TransferGroupOwnership(from, to) PROVE StoreInv'
    BY <2>4, TransferGroupOwnershipStep
  <2>5. CASE DeleteGroup
    BY <2>5, DeleteGroupStep
  <2>6. ASSUME NEW u \in People, AddGroupMember(u) PROVE StoreInv'
    BY <2>6, AddGroupMemberStep
  <2>7. ASSUME NEW u \in People, RemoveGroupMember(u) PROVE StoreInv'
    BY <2>7, RemoveGroupMemberStep
  <2>8. ASSUME NEW pinned \in BOOLEAN, CreateGroupAnnouncement("news", pinned) PROVE StoreInv'
    BY <2>8, CreateGroupAnnouncementStep
  <2>9. ASSUME NEW id \in Stamps, NEW pinned \in BOOLEAN, UpdateGroupAnnouncement(id, "update", pinned) PROVE StoreInv'
    BY <2>9, UpdateGroupAnnouncementStep
  <2>10. ASSUME NEW id \in Stamps, DeleteGroupAnnouncement(id) PROVE StoreInv'
    BY <2>10, DeleteGroupAnnouncementStep
  <2>11. ASSUME NEW id \in Stamps, MarkGroupAnnouncementRead(id, Guest) PROVE StoreInv'
    BY <1>2, <1>3, <2>11, MarkGroupAnnouncementReadStep
  <2> QED BY ONLY <1>6, <2>1, <2>2, <2>3, <2>4, <2>5, <2>6, <2>7, <2>8, <2>9, <2>10, <2>11 DEF GroupCalls
<1> QED BY <1>1, <1>4, <1>5, <1>6 DEF StoreNext

(* What the gateway reads *)

\* The group is there on both stores or gone from both.
GroupAlike(m, d) ==
    \/ GroupMatches(m.groups, d.groups, d.members)
    \/ GroupGone(m.groups, d.groups, d.members) /\ TheGroup \notin DOMAIN m.conversations
Alike(m, d, now) == Shown(m, d, now) /\ GroupAlike(m, d)

LEMMA AlikeParts ==
    ASSUME NEW m, NEW d, NEW now, Alike(m, d, now)
    PROVE  /\ HasMaps(m) /\ HasTables(d)
           /\ ConversationsMatch(m.conversations, d.conversations)
           /\ m.preferences = d.preferences /\ PreferencesNormal(d.preferences)
           /\ MessagesMatch(m.messages, d.messages, now)
           /\ m.updated = d.updated /\ m.events = d.events /\ m.reactions = d.reactions
           /\ d.reactions \subseteq ReactionRows /\ IsFiniteSet(d.reactions)
           /\ m.reads = d.reads /\ MarksTyped(d.reads)
           /\ m.announcements = d.announcements /\ m.announcementReads = d.announcementReads
           /\ GroupAlike(m, d)
BY DEF Alike, Shown

LEMMA MembersReturned ==
    ASSUME NEW members, members \subseteq StoredMembers, NEW d,
           d.members = {MemberRowOf(x) : x \in members}
    PROVE  SQLiteGetGroupMembers(d, TheGroup) = members
<1>1. ASSUME NEW x \in members
      PROVE  /\ MemberRowOf(x).group = TheGroup
             /\ [user |-> MemberRowOf(x).user, role |-> MemberRowOf(x).role, muted |-> MemberRowOf(x).muted] = x
  BY DEF StoredMembers, MemberRowOf
<1>2. PICK D : D = {y \in d.members : y.group = TheGroup}
  OBVIOUS
<1>3. D = {MemberRowOf(x) : x \in members}
  BY ONLY <1>1, <1>2, d.members = {MemberRowOf(x) : x \in members}
<1>4. SQLiteGetGroupMembers(d, TheGroup) = {[user |-> y.user, role |-> y.role, muted |-> y.muted] : y \in D}
  BY ONLY <1>2 DEF SQLiteGetGroupMembers
<1>5. ASSUME NEW y \in D PROVE [user |-> y.user, role |-> y.role, muted |-> y.muted] \in members
  <2>1. PICK x \in members : y = MemberRowOf(x)
    BY ONLY <1>3, y \in D
  <2> QED BY ONLY <1>1, <2>1
<1>6. ASSUME NEW x \in members PROVE \E y \in D : x = [user |-> y.user, role |-> y.role, muted |-> y.muted]
  <2>1. MemberRowOf(x) \in D
    BY ONLY <1>3, x \in members
  <2>2. [user |-> MemberRowOf(x).user, role |-> MemberRowOf(x).role, muted |-> MemberRowOf(x).muted] = x
    BY <1>1
  <2> QED BY ONLY <2>1, <2>2
<1> QED BY ONLY <1>4, <1>5, <1>6

LEMMA SameGroup ==
    ASSUME NEW m, NEW d, NEW now, Alike(m, d, now)
    PROVE  /\ MemoryGetGroup(m, TheGroup) = SQLiteGetGroup(d, TheGroup)
           /\ \A u : MemoryGetUserGroups(m, u) = SQLiteGetUserGroups(d, u)
<1>1. CASE GroupMatches(m.groups, d.groups, d.members)
  <2>1. PICK g : g = m.groups[TheGroup]
    OBVIOUS
  <2>2. /\ DOMAIN m.groups = {TheGroup} /\ g \in StoredGroups
        /\ d.groups = {GroupRowOf(g)} /\ d.members = {MemberRowOf(x) : x \in g.members}
    BY <1>1, <2>1 DEF GroupMatches
  <2>3. g.members \subseteq StoredMembers
    BY <2>2 DEF StoredGroups, StoredMembers
  <2>4. PICK row : row = GroupRowOf(g)
    OBVIOUS
  <2>5. row \in ChatGroupRows /\ row.id = TheGroup /\ row.owner = g.owner /\ row.muteAll = g.muteAll /\ row.announcement = g.announcement
    BY ONLY <2>2, <2>4 DEF GroupRowOf, ChatGroupRows, StoredGroups
  <2>6. {r \in d.groups : r.id = TheGroup} = {row}
    BY ONLY <2>2, <2>4, <2>5
  <2>7. GroupRow(d, TheGroup) = row /\ row # Nothing
    <3>1. Nothing \notin ChatGroupRows
      BY StoreAssumption
    <3>2. row # Nothing
      BY ONLY <2>5, <3>1
    <3> QED BY ONLY <2>6, <3>2, OneRow DEF GroupRow
  <2>8. SQLiteGetGroupMembers(d, TheGroup) = g.members
    BY ONLY <2>2, <2>3, MembersReturned
  <2>9. SQLiteGetGroup(d, TheGroup) = [owner |-> g.owner, muteAll |-> g.muteAll, announcement |-> g.announcement, members |-> g.members]
    BY ONLY <2>5, <2>7, <2>8 DEF SQLiteGetGroup
  <2>10. g = [owner |-> g.owner, muteAll |-> g.muteAll, announcement |-> g.announcement, members |-> g.members]
    BY ONLY <2>2 DEF StoredGroups
  <2>11. MemoryGetGroup(m, TheGroup) = g
    BY ONLY <2>1, <2>2 DEF MemoryGetGroup
  <2>12. ASSUME NEW u PROVE MemoryGetUserGroups(m, u) = SQLiteGetUserGroups(d, u)
    <3>1. MemoryGetUserGroups(m, u) = {x \in {TheGroup} : \E y \in g.members : y.user = u}
      BY ONLY <2>1, <2>2 DEF MemoryGetUserGroups
    <3>2. \A x : MemberRowOf(x).group = TheGroup /\ MemberRowOf(x).user = x.user
      BY DEF MemberRowOf
    <3>3. (\E y \in d.members : y.group = TheGroup /\ y.user = u) <=> \E y \in g.members : y.user = u
      BY ONLY <2>2, <3>2
    <3>4. d.groups = {row} /\ row.id = TheGroup
      BY ONLY <2>2, <2>4, <2>5
    <3>5. PICK R : R = {r \in d.groups : \E y \in d.members : y.group = r.id /\ y.user = u}
      OBVIOUS
    <3>6. SQLiteGetUserGroups(d, u) = {r.id : r \in R}
      BY ONLY <3>5 DEF SQLiteGetUserGroups
    <3>7. R = {r \in {row} : \E y \in g.members : y.user = u}
      BY ONLY <3>3, <3>4, <3>5
    <3> QED BY ONLY <3>1, <3>4, <3>6, <3>7
  <2> QED BY ONLY <2>9, <2>10, <2>11, <2>12
<1>2. CASE GroupGone(m.groups, d.groups, d.members)
  <2>1. DOMAIN m.groups = {} /\ d.groups = {}
    BY <1>2 DEF GroupGone
  <2>2. {r \in d.groups : r.id = TheGroup} = {}
    BY <2>1
  <2>3. GroupRow(d, TheGroup) = Nothing
    BY ONLY <2>2 DEF GroupRow, TheRow
  <2>4. MemoryGetGroup(m, TheGroup) = SQLiteGetGroup(d, TheGroup)
    BY ONLY <2>1, <2>3 DEF MemoryGetGroup, SQLiteGetGroup
  <2> QED BY ONLY <2>1, <2>4 DEF MemoryGetUserGroups, SQLiteGetUserGroups
<1> QED BY <1>1, <1>2, AlikeParts DEF GroupAlike

LEMMA SameConversations ==
    ASSUME NEW m, NEW d, NEW now, Alike(m, d, now), NEW u \in People
    PROVE  /\ MemoryGetUserConversations(m, u) = SQLiteGetUserConversations(d, u, NameContains)
           /\ MemoryGetUserConversations(m, u) = PostgresGetUserConversations(d, u)
<1> USE AlikeParts
<1>1. PICK D : D = DOMAIN m.conversations
  OBVIOUS
<1>2. /\ D \subseteq Places /\ \A c \in D : m.conversations[c] = SavedConversation(c)
      /\ d.conversations = {SavedRow(c) : c \in D}
  BY <1>1 DEF ConversationsMatch
<1>3. \A c : /\ SavedRow(c).id = c /\ (SavedRow(c).kind = "private" <=> c # TheGroup)
             /\ (c # TheGroup => SavedRow(c).people = People)
             /\ (SavedConversation(c).kind = "private" <=> c # TheGroup)
             /\ (c # TheGroup => SavedConversation(c).people = People)
  BY DEF SavedRow, SavedConversation
<1>5. /\ \A y \in d.members : y.group = TheGroup
      /\ TheGroup \in D => (MemoryIsGroupMember(m, TheGroup, u) <=> \E y \in d.members : y.user = u)
  <2>1. CASE GroupMatches(m.groups, d.groups, d.members)
    <3>1. PICK g : g = m.groups[TheGroup]
      OBVIOUS
    <3>2. DOMAIN m.groups = {TheGroup} /\ d.members = {MemberRowOf(x) : x \in g.members}
      BY <2>1, <3>1 DEF GroupMatches
    <3>3. \A x : MemberRowOf(x).group = TheGroup /\ MemberRowOf(x).user = x.user
      BY DEF MemberRowOf
    <3>4. MemoryIsGroupMember(m, TheGroup, u) <=> \E x \in g.members : x.user = u
      BY ONLY <3>1, <3>2 DEF MemoryIsGroupMember
    <3> QED BY ONLY <3>2, <3>3, <3>4
  <2>2. CASE GroupGone(m.groups, d.groups, d.members) /\ TheGroup \notin DOMAIN m.conversations
    BY <1>1, <2>2 DEF GroupGone
  <2> QED BY <2>1, <2>2 DEF GroupAlike
<1>6. PICK M : M = {c \in D : c # TheGroup \/ \E y \in d.members : y.user = u}
  OBVIOUS
<1>7. MemoryGetUserConversations(m, u) = M
  <2>1. MemoryGetUserConversations(m, u) =
          {c \in D : IF m.conversations[c].kind = "private" THEN u \in m.conversations[c].people
                     ELSE MemoryIsGroupMember(m, c, u)}
    BY ONLY <1>1 DEF MemoryGetUserConversations
  <2>2. ASSUME NEW c \in D
        PROVE  (IF m.conversations[c].kind = "private" THEN u \in m.conversations[c].people
                ELSE MemoryIsGroupMember(m, c, u)) <=> (c # TheGroup \/ \E y \in d.members : y.user = u)
    BY ONLY <1>2, <1>3, <1>5, c \in D, u \in People
  <2> QED BY ONLY <1>6, <2>1, <2>2
<1>8. PICK G : G = {r.id : r \in {r \in d.conversations : \E y \in d.members : y.group = r.id /\ y.user = u}}
  OBVIOUS
<1>9. G = {c \in D : c = TheGroup /\ \E y \in d.members : y.user = u}
  <2>1. ASSUME NEW c \in D
        PROVE  (\E y \in d.members : y.group = SavedRow(c).id /\ y.user = u)
                 <=> (c = TheGroup /\ \E y \in d.members : y.user = u)
    BY ONLY <1>3, <1>5, c \in D
  <2>2. PICK R : R = {r \in d.conversations : \E y \in d.members : y.group = r.id /\ y.user = u}
    OBVIOUS
  <2>3. ASSUME NEW c PROVE SavedRow(c) \in R <=> c \in D /\ c = TheGroup /\ \E y \in d.members : y.user = u
    BY ONLY <1>2, <1>3, <2>1, <2>2
  <2>4. \A r \in R : \E c \in D : r = SavedRow(c)
    BY ONLY <1>2, <2>2
  <2>5. G = {r.id : r \in R}
    BY ONLY <1>8, <2>2
  <2> QED BY ONLY <1>3, <2>3, <2>4, <2>5
<1>11. {r.id : r \in {r \in d.conversations : r.kind = "private" /\ u \in r.people}} = {c \in D : c # TheGroup}
  <2>1. PICK R : R = {r \in d.conversations : r.kind = "private" /\ u \in r.people}
    OBVIOUS
  <2>2. ASSUME NEW c PROVE SavedRow(c) \in R <=> c \in D /\ c # TheGroup
    BY ONLY <1>2, <1>3, <2>1, u \in People
  <2>3. \A r \in R : \E c \in D : r = SavedRow(c)
    BY ONLY <1>2, <2>1
  <2>4. {r.id : r \in R} = {c \in D : c # TheGroup}
    BY ONLY <1>3, <2>2, <2>3
  <2> QED BY ONLY <2>1, <2>4
<1>12. SQLitePrivateConversations(d, u, NameContains) = {c \in D : c # TheGroup}
  <2>1. PICK R : R = {r \in d.conversations : r.kind = "private" /\ \E x \in r.people : x = u \/ <<x, u>> \in NameContains}
    OBVIOUS
  <2>2. ASSUME NEW c PROVE SavedRow(c) \in R <=> c \in D /\ c # TheGroup
    BY ONLY <1>2, <1>3, <2>1, u \in People
  <2>3. \A r \in R : \E c \in D : r = SavedRow(c)
    BY ONLY <1>2, <2>1
  <2>4. {r.id : r \in R} = {c \in D : c # TheGroup}
    BY ONLY <1>3, <2>2, <2>3
  <2> QED BY ONLY <2>1, <2>4 DEF SQLitePrivateConversations
<1>13. {c \in D : c # TheGroup} \cup G = M
  BY ONLY <1>6, <1>9
<1>14. SQLiteGetUserConversations(d, u, NameContains) = M
  BY ONLY <1>8, <1>12, <1>13 DEF SQLiteGetUserConversations, SQLiteGroupConversations
<1>15. PostgresGetUserConversations(d, u) = M
  BY ONLY <1>8, <1>11, <1>13 DEF PostgresGetUserConversations
<1> QED BY ONLY <1>7, <1>14, <1>15

LEMMA SamePreference ==
    ASSUME NEW m, NEW d, NEW now, Alike(m, d, now), NEW c, NEW u
    PROVE  MemoryGetConversationPreference(m, c, u) = SQLiteGetConversationPreference(d, c, u)
<1> USE AlikeParts
<1>1. PICK rows : rows = {p \in d.preferences : p.conversation = c /\ p.user = u}
  OBVIOUS
<1>2. MemoryGetConversationPreference(m, c, u) = TheRow(rows)
  <2>1. rows = {p \in m.preferences : p.conversation = c /\ p.user = u}
    BY <1>1
  <2> QED BY ONLY <2>1 DEF MemoryGetConversationPreference, TheRow
<1>3. PICK r : r = TheRow(rows)
  OBVIOUS
<1>4. rows \subseteq PreferenceRows /\ \A p \in rows : p.muted = (p.level = "muted")
  BY <1>1 DEF PreferencesNormal
<1>5. CASE rows = {}
  <2>1. r = Nothing
    BY <1>3, <1>5 DEF TheRow
  <2> QED BY ONLY <1>1, <1>2, <1>3, <2>1 DEF SQLiteGetConversationPreference
<1>6. CASE rows # {}
  <2>1. r \in PreferenceRows /\ r # Nothing /\ r.muted = (r.level = "muted")
    <3>1. Nothing \notin rows
      BY <1>4, StoreAssumption
    <3>2. r \in rows /\ r # Nothing
      BY ONLY <1>3, <1>6, <3>1, RowFound
    <3> QED BY ONLY <1>4, <3>2
  <2>2. PICK level, muted : level = NormalizeNotificationLevel(r.level, r.muted) /\ muted = (level = "muted")
    OBVIOUS
  <2>3. level = r.level
    BY ONLY <2>1, <2>2 DEF NormalizeNotificationLevel, PreferenceRows
  <2>4. muted = r.muted
    BY ONLY <2>1, <2>2, <2>3
  <2>5. [r EXCEPT !.level = level, !.muted = muted] = r
    BY ONLY <2>1, <2>3, <2>4 DEF PreferenceRows
  <2>6. SQLiteGetConversationPreference(d, c, u) = [r EXCEPT !.level = level, !.muted = muted]
    BY ONLY <1>1, <1>3, <2>1, <2>2, Zenon DEF SQLiteGetConversationPreference
  <2> QED BY ONLY <1>2, <1>3, <2>5, <2>6
<1> QED BY ONLY <1>5, <1>6

\* The newest messages are the same: the histories have the identifiers of the
\* rows.
LEMMA SameRecent ==
    ASSUME NEW m, NEW d, NEW now, Alike(m, d, now), NEW limit \in Nat \ {0}
    PROVE  MemoryGetRecentMessages(m, limit) = SQLiteGetRecentMessages(d, limit)
<1> USE AlikeParts, MessageFacts, MessageFields
<1>1. PICK all : all = UNION {ToSet(m.messages[c]) : c \in DOMAIN m.messages}
  OBVIOUS
<1>2. ASSUME NEW x \in all PROVE \E r \in d.messages : x.id = r.id
  <2>1. PICK c \in DOMAIN m.messages : x \in ToSet(m.messages[c])
    BY ONLY <1>1, <1>2
  <2>2. PICK i \in 1 .. Len(m.messages[c]) : x = m.messages[c][i]
    BY <2>1 DEF ToSet
  <2>3. PICK q \in d.messages : x = MessageOf(q)
    BY <2>2
  <2> QED BY <2>3
<1>3. ASSUME NEW r \in d.messages PROVE \E x \in all : x.id = r.id
  <2>1. r.conversation \in DOMAIN m.messages /\ HistoryHas(m.messages[r.conversation], r)
    OBVIOUS
  <2>2. PICK i \in 1 .. Len(m.messages[r.conversation]) : m.messages[r.conversation][i] = MessageOf(r)
    BY <2>1 DEF HistoryHas
  <2>3. MessageOf(r) \in ToSet(m.messages[r.conversation])
    BY <2>1, <2>2 DEF ToSet
  <2>4. MessageOf(r) \in all
    BY ONLY <1>1, <2>1, <2>3
  <2> QED BY ONLY <2>4, MessageFields
<1>4. {x.id : x \in all} = {r.id : r \in d.messages}
  BY ONLY <1>2, <1>3
<1>5. LatestIds(all, limit) = LatestIds(d.messages, limit)
  BY ONLY <1>4 DEF LatestIds
<1>6. ~ (limit <= 0)
  OBVIOUS
<1> QED BY ONLY <1>1, <1>5, <1>6 DEF MemoryGetRecentMessages, SQLiteGetRecentMessages

LEMMA SameRecords ==
    ASSUME NEW m, NEW d, NEW now, Alike(m, d, now), NEW u, NEW c, NEW id
    PROVE  /\ MemoryGetGroupAnnouncements(m, TheGroup, u) = SQLiteGetGroupAnnouncements(d, TheGroup, u)
           /\ MemoryGetMessageReactionIDs(m, id, u) = SQLiteGetMessageReactionIDs(d, id, u)
           /\ MemoryGetDynamicInteractionEvents(m, c, id) = SQLiteGetDynamicInteractionEvents(d, c, id)
<1>1. /\ m.announcements = d.announcements /\ m.announcementReads = d.announcementReads
      /\ m.reactions = d.reactions /\ m.events = d.events
  BY AlikeParts
<1>2. MemoryGetGroupAnnouncements(m, TheGroup, u) = SQLiteGetGroupAnnouncements(d, TheGroup, u)
  BY ONLY <1>1 DEF MemoryGetGroupAnnouncements, SQLiteGetGroupAnnouncements
<1>3. ReactionsTo(m, id) = RowReactions(d, id)
  BY ONLY <1>1 DEF ReactionsTo, RowReactions
<1>4. MemoryGetMessageReactionIDs(m, id, u) = SQLiteGetMessageReactionIDs(d, id, u)
  BY ONLY <1>3 DEF MemoryGetMessageReactionIDs, SQLiteGetMessageReactionIDs
<1>5. MemoryGetDynamicInteractionEvents(m, c, id) = SQLiteGetDynamicInteractionEvents(d, c, id)
  BY ONLY <1>1 DEF MemoryGetDynamicInteractionEvents, SQLiteGetDynamicInteractionEvents
<1> QED BY <1>2, <1>4, <1>5

LEMMA LookupsAgree ==
    ASSUME Alike(memory, sqlite, clock), postgres = sqlite
    PROVE  SameLookups
<1>1. /\ MemoryGetGroup(memory, TheGroup) = SQLiteGetGroup(sqlite, TheGroup)
      /\ MemoryGetGroup(memory, TheGroup) = PostgresGetGroup(postgres, TheGroup)
  BY SameGroup DEF PostgresGetGroup
<1>2. /\ MemoryGetRecentMessages(memory, 2) = SQLiteGetRecentMessages(sqlite, 2)
      /\ MemoryGetRecentMessages(memory, 2) = PostgresGetRecentMessages(postgres, 2)
  <2>1. 2 \in Nat \ {0}
    OBVIOUS
  <2> QED BY <2>1, SameRecent DEF PostgresGetRecentMessages
<1>3. ASSUME NEW u \in People
      PROVE  /\ MemoryGetUserConversations(memory, u) = SQLiteGetUserConversations(sqlite, u, NameContains)
             /\ MemoryGetUserConversations(memory, u) = PostgresGetUserConversations(postgres, u)
             /\ MemoryGetUserGroups(memory, u) = SQLiteGetUserGroups(sqlite, u)
             /\ MemoryGetUserGroups(memory, u) = PostgresGetUserGroups(postgres, u)
  <2>1. /\ MemoryGetUserConversations(memory, u) = SQLiteGetUserConversations(sqlite, u, NameContains)
        /\ MemoryGetUserConversations(memory, u) = PostgresGetUserConversations(sqlite, u)
    BY ONLY SameConversations, Alike(memory, sqlite, clock), u \in People
  <2>2. MemoryGetUserGroups(memory, u) = SQLiteGetUserGroups(sqlite, u)
    BY SameGroup
  <2> QED BY <2>1, <2>2 DEF PostgresGetUserGroups
<1>4. ASSUME NEW u, NEW c, NEW id
      PROVE  /\ MemoryGetGroupAnnouncements(memory, TheGroup, u) = SQLiteGetGroupAnnouncements(sqlite, TheGroup, u)
             /\ MemoryGetGroupAnnouncements(memory, TheGroup, u) = PostgresGetGroupAnnouncements(postgres, TheGroup, u)
             /\ MemoryGetConversationPreference(memory, c, u) = SQLiteGetConversationPreference(sqlite, c, u)
             /\ MemoryGetConversationPreference(memory, c, u) = PostgresGetConversationPreference(postgres, c, u)
             /\ MemoryGetMessageReactionIDs(memory, id, u) = SQLiteGetMessageReactionIDs(sqlite, id, u)
             /\ MemoryGetMessageReactionIDs(memory, id, u) = PostgresGetMessageReactionIDs(postgres, id, u)
             /\ MemoryGetDynamicInteractionEvents(memory, c, id) = SQLiteGetDynamicInteractionEvents(sqlite, c, id)
             /\ MemoryGetDynamicInteractionEvents(memory, c, id) = PostgresGetDynamicInteractionEvents(postgres, c, id)
  <2>1. /\ MemoryGetGroupAnnouncements(memory, TheGroup, u) = SQLiteGetGroupAnnouncements(sqlite, TheGroup, u)
        /\ MemoryGetMessageReactionIDs(memory, id, u) = SQLiteGetMessageReactionIDs(sqlite, id, u)
        /\ MemoryGetDynamicInteractionEvents(memory, c, id) = SQLiteGetDynamicInteractionEvents(sqlite, c, id)
    BY ONLY SameRecords, Alike(memory, sqlite, clock)
  <2>2. MemoryGetConversationPreference(memory, c, u) = SQLiteGetConversationPreference(sqlite, c, u)
    BY ONLY SamePreference, Alike(memory, sqlite, clock)
  <2> QED BY ONLY <2>1, <2>2, postgres = sqlite
          DEF PostgresGetGroupAnnouncements, PostgresGetConversationPreference,
              PostgresGetMessageReactionIDs, PostgresGetDynamicInteractionEvents
<1> QED BY ONLY <1>1, <1>2, <1>3, <1>4 DEF SameLookups

(* Pages: rows have one order with the latest first *)

Numbered(S) == IsFiniteSet(S) /\ \A r \in S : r.id \in Nat
Falling(f, n, S) == f \in [1 .. n -> S] /\ \A i, j \in 1 .. n : i < j => f[i].id > f[j].id
Above(S, x) == {r \in S : r.id > x.id}

\* The rows above the k-th of them are the k - 1 before it.
LEMMA Rank ==
    ASSUME NEW S, Numbered(S), NEW n \in Nat, n = Cardinality(S), NEW f, Falling(f, n, S), NEW k \in 1 .. n
    PROVE  Cardinality(Above(S, f[k])) = k - 1
<1> USE DEF Numbered, Falling
<1>1. f \in Injection(1 .. n, S)
  <2>1. ASSUME NEW i \in 1 .. n, NEW j \in 1 .. n, f[i] = f[j] PROVE i = j
    <3>1. ~ (i < j) /\ ~ (j < i)
      BY <2>1
    <3> QED BY <3>1
  <2> QED BY <2>1, Fun_IsInj DEF Injection
<1>2. \A r \in S : \E i \in 1 .. n : f[i] = r
  <2>1. Cardinality(1 .. n) = n
    BY FS_Interval
  <2>2. f \in Surjection(1 .. n, S)
    BY <1>1, <2>1, FS_Injection
  <2> QED BY <2>2 DEF Surjection
<1>3. PICK U : U = {r \in S : r.id > f[k].id}
  OBVIOUS
<1>4. PICK g : g = [i \in 1 .. (k - 1) |-> f[i]]
  OBVIOUS
<1>5. g \in Bijection(1 .. (k - 1), U)
  <2>1. ASSUME NEW i \in 1 .. (k - 1) PROVE g[i] = f[i] /\ i \in 1 .. n /\ g[i] \in U
    <3>1. i \in 1 .. n /\ i < k
      OBVIOUS
    <3> QED BY <1>3, <1>4, <3>1
  <2>2. g \in [1 .. (k - 1) -> U]
    BY <1>4, <2>1
  <2>3. ASSUME NEW r \in U PROVE \E i \in 1 .. (k - 1) : g[i] = r
    <3>1. PICK i \in 1 .. n : f[i] = r
      BY <1>2, <1>3
    <3>2. f[i].id > f[k].id /\ f[i].id \in Nat /\ f[k].id \in Nat
      BY <1>3, <3>1
    <3>3. ~ (k < i) /\ i # k
      BY <3>1, <3>2
    <3>4. i \in 1 .. (k - 1)
      BY <3>3
    <3> QED BY <2>1, <3>1, <3>4
  <2>4. ASSUME NEW i \in 1 .. (k - 1), NEW j \in 1 .. (k - 1), g[i] = g[j] PROVE i = j
    BY <1>1, <2>1, <2>4 DEF Injection, IsInjective
  <2> QED BY <2>2, <2>3, <2>4 DEF Bijection, Injection, Surjection, IsInjective
<1>6. ExistsBijection(1 .. (k - 1), U)
  BY <1>5 DEF ExistsBijection
<1>7. Cardinality(U) = k - 1
  BY <1>6, FS_CountingElements
<1> QED BY <1>3, <1>7 DEF Above

LEMMA OneOrder ==
    ASSUME NEW S, Numbered(S), \A r, q \in S : r.id = q.id => r = q,
           NEW n \in Nat, n = Cardinality(S),
           NEW f, Falling(f, n, S), NEW g, Falling(g, n, S)
    PROVE  f = g
<1>1. ASSUME NEW x \in S, NEW y \in S, x.id > y.id
      PROVE  Cardinality(Above(S, x)) # Cardinality(Above(S, y))
  <2> USE DEF Numbered
  <2>1. PICK A, B : A = Above(S, x) /\ B = Above(S, y)
    OBVIOUS
  <2>2. A = {r \in S : r.id > x.id} /\ B = {r \in S : r.id > y.id}
    BY <2>1 DEF Above
  <2>3. x \in B /\ x \notin A
    BY <1>1, <2>2
  <2>4. A \subseteq B
    BY <1>1, <2>2
  <2>5. IsFiniteSet(B)
    BY <2>2, FS_Subset
  <2>6. Cardinality(B) # Cardinality(A)
    BY <2>3, <2>4, <2>5, FS_Subset
  <2> QED BY <2>1, <2>6
<1>2. ASSUME NEW k \in 1 .. n PROVE f[k] = g[k]
  <2>1. Cardinality(Above(S, f[k])) = k - 1
    BY Rank
  <2>2. Cardinality(Above(S, g[k])) = k - 1
    BY Rank
  <2>3. f[k] \in S /\ g[k] \in S /\ f[k].id \in Nat /\ g[k].id \in Nat
    BY DEF Falling, Numbered
  <2>4. ~ (f[k].id > g[k].id) /\ ~ (g[k].id > f[k].id)
    BY ONLY <1>1, <2>1, <2>2, <2>3
  <2>5. f[k].id = g[k].id
    BY <2>3, <2>4
  <2> QED BY <2>3, <2>5
<1> QED BY <1>2 DEF Falling

LEMMA LatestFirstIs ==
    ASSUME NEW S, Numbered(S), \A r, q \in S : r.id = q.id => r = q,
           NEW n \in Nat, n = Cardinality(S),
           NEW g, Falling(g, n, S)
    PROVE  LatestFirst(S) = g
<1>1. PICK f : f = LatestFirst(S)
  OBVIOUS
<1>2. Falling(f, n, S)
  <2>1. f = CHOOSE x \in [1 .. n -> S] : \A i, j \in DOMAIN x : i < j => x[i].id > x[j].id
    BY ONLY <1>1, n = Cardinality(S) DEF LatestFirst
  <2>2. DOMAIN g = 1 .. n /\ g \in [1 .. n -> S] /\ \A i, j \in DOMAIN g : i < j => g[i].id > g[j].id
    BY DEF Falling
  <2>3. f \in [1 .. n -> S] /\ \A i, j \in DOMAIN f : i < j => f[i].id > f[j].id
    BY ONLY <2>1, <2>2
  <2> QED BY <2>3 DEF Falling
<1>3. f = g
  BY <1>2, OneOrder
<1> QED BY <1>1, <1>3

\* The row of every message of a history, in the order of the history.
RowsOf(d, c, h, R, now) ==
    /\ Len(h) \in Nat /\ DOMAIN h = 1 .. Len(h)
    /\ R \in [1 .. Len(h) -> d.messages]
    /\ \A i \in 1 .. Len(h) : /\ R[i].conversation = c /\ h[i] = MessageOf(R[i])
                              /\ h[i].id = R[i].id /\ h[i].sender = R[i].sender /\ R[i].id \in 1 .. now
    /\ \A i, j \in 1 .. Len(h) : i < j => R[i].id < R[j].id
    /\ \A r \in d.messages : r.conversation = c => \E i \in 1 .. Len(h) : r = R[i]

LEMMA HistoryRows ==
    ASSUME NEW m, NEW d, NEW now \in Nat, MessagesMatch(m.messages, d.messages, now), NEW c \in Places
    PROVE  \E R : RowsOf(d, c, MemoryHistory(m, c), R, now)
<1>1. PICK h : h = MemoryHistory(m, c)
  OBVIOUS
<1>2. PICK n : n = Len(h)
  OBVIOUS
<1>3. /\ h \in Seq(StoredMessages) /\ n \in Nat /\ DOMAIN h = 1 .. n /\ Rising(h)
      /\ \A i \in 1 .. n : \E r \in d.messages : r.conversation = c /\ h[i] = MessageOf(r)
      /\ \A r \in d.messages : r.conversation = c => HistoryHas(h, r)
  BY <1>1, <1>2, HistoryFacts
<1>4. PICK R : R = [i \in 1 .. n |-> CHOOSE r \in d.messages : r.conversation = c /\ h[i] = MessageOf(r)]
  OBVIOUS
<1>5. ASSUME NEW i \in 1 .. n PROVE R[i] \in d.messages /\ R[i].conversation = c /\ h[i] = MessageOf(R[i])
  <2>1. R[i] = CHOOSE r \in d.messages : r.conversation = c /\ h[i] = MessageOf(r)
    BY ONLY <1>4, <1>5
  <2> QED BY ONLY <1>3, <1>5, <2>1
<1>6. R \in [1 .. n -> d.messages]
  BY ONLY <1>4, <1>5
<1>7. \A i \in 1 .. n : h[i].id = R[i].id /\ h[i].sender = R[i].sender /\ R[i].id \in 1 .. now
  BY <1>5, MessageFields, MessageFacts
<1>8. \A i, j \in 1 .. n : i < j => R[i].id < R[j].id
  BY <1>2, <1>3, <1>7 DEF Rising
<1>9. ASSUME NEW r \in d.messages, r.conversation = c PROVE \E i \in 1 .. n : r = R[i]
  <2>1. PICK i \in 1 .. n : h[i] = MessageOf(r)
    BY <1>2, <1>3, <1>9 DEF HistoryHas
  <2>2. r.id = R[i].id
    BY <1>7, <2>1, MessageFields
  <2> QED BY <1>5, <2>2, MessageFacts
<1>10. RowsOf(d, c, h, R, now)
  BY ONLY <1>2, <1>3, <1>5, <1>6, <1>7, <1>8, <1>9 DEF RowsOf
<1> QED BY <1>1, <1>10

\* The rows of a page, and where it ends in the history.
PageStop(h, before) ==
    LET at == {i \in DOMAIN h : h[i].id = before} IN IF at = {} THEN Len(h) ELSE (CHOOSE i \in at : TRUE) - 1
PageRows(d, c, before) ==
    LET anchored == \E x \in d.messages : x.conversation = c /\ x.id = before
    IN {x \in d.messages : x.conversation = c /\ (before = 0 \/ (anchored /\ x.id < before))}
FirstRows(R, e) == {R[i] : i \in 1 .. e}
LatestOf(R, e) == [i \in 1 .. e |-> R[e - i + 1]]

LEMMA PageOf ==
    ASSUME NEW d, \A r, q \in d.messages : r.id = q.id => r = q, NEW c, NEW h, NEW R, NEW now \in Nat,
           RowsOf(d, c, h, R, now), NEW e \in Nat, e <= Len(h)
    PROVE  LatestFirst(FirstRows(R, e)) = LatestOf(R, e)
<1>1. PICK n, rows : n = Len(h) /\ rows = FirstRows(R, e)
  OBVIOUS
<1>2. /\ n \in Nat /\ e <= n /\ R \in [1 .. n -> d.messages] /\ \A i \in 1 .. n : R[i].id \in Nat
      /\ \A i, j \in 1 .. n : i < j => R[i].id < R[j].id
      /\ rows = {R[i] : i \in 1 .. e}
  BY <1>1 DEF RowsOf, FirstRows
<1>3. PICK b : b = [i \in 1 .. e |-> R[i]]
  OBVIOUS
<1>4. \A i \in 1 .. e : i \in 1 .. n /\ b[i] = R[i]
  BY <1>2, <1>3
<1>5. b \in Bijection(1 .. e, rows)
  <2>1. b \in [1 .. e -> rows]
    BY <1>2, <1>3
  <2>2. \A r \in rows : \E i \in 1 .. e : b[i] = r
    BY <1>2, <1>4
  <2>3. ASSUME NEW i \in 1 .. e, NEW j \in 1 .. e, b[i] = b[j] PROVE i = j
    <3>1. R[i] = R[j] /\ i \in 1 .. n /\ j \in 1 .. n /\ R[i].id \in Nat
      BY <1>2, <1>4, <2>3
    <3>2. ~ (i < j) /\ ~ (j < i)
      BY <1>2, <3>1
    <3> QED BY <3>2
  <2> QED BY <2>1, <2>2, <2>3 DEF Bijection, Injection, Surjection, IsInjective
<1>6. ExistsBijection(1 .. e, rows)
  BY <1>5 DEF ExistsBijection
<1>7. Cardinality(rows) = e /\ IsFiniteSet(rows)
  BY <1>6, FS_CountingElements, FS_NatBijection
<1>8. PICK g : g = [i \in 1 .. e |-> R[e - i + 1]]
  OBVIOUS
<1>9. \A i \in 1 .. e : e - i + 1 \in 1 .. e /\ e - i + 1 \in 1 .. n /\ g[i] = R[e - i + 1]
  BY <1>2, <1>8
<1>10. g \in [1 .. e -> rows]
  BY <1>2, <1>8, <1>9
<1>11. ASSUME NEW i \in 1 .. e, NEW j \in 1 .. e, i < j PROVE g[i].id > g[j].id
  <2>1. PICK a, z : a = e - i + 1 /\ z = e - j + 1
    OBVIOUS
  <2>2. a \in 1 .. n /\ z \in 1 .. n /\ z < a /\ g[i] = R[a] /\ g[j] = R[z]
    BY <1>9, <1>11, <2>1
  <2>3. R[z].id < R[a].id /\ R[z].id \in Nat /\ R[a].id \in Nat
    BY <1>2, <2>2
  <2> QED BY <2>2, <2>3
<1>12. (\A r \in rows : r.id \in Nat) /\ \A r, q \in rows : r.id = q.id => r = q
  <2>1. \A r \in rows : \E i \in 1 .. n : r = R[i]
    BY <1>2, <1>4
  <2>2. \A i \in 1 .. n : R[i] \in d.messages
    BY <1>2
  <2> QED BY <1>2, <2>1, <2>2
<1>13. Falling(g, e, rows) /\ Numbered(rows)
  BY ONLY <1>7, <1>10, <1>11, <1>12 DEF Falling, Numbered
<1>14. LatestFirst(rows) = g
  BY ONLY <1>7, <1>12, <1>13, LatestFirstIs, e \in Nat
<1> QED BY <1>1, <1>8, <1>14 DEF LatestOf

LEMMA PageEnd ==
    ASSUME NEW d, NEW c, NEW h, NEW R, NEW now \in Nat, RowsOf(d, c, h, R, now), NEW before,
           before = 0 \/ \E j \in 1 .. Len(h) : before = h[j].id
    PROVE  /\ PageStop(h, before) \in Nat /\ PageStop(h, before) <= Len(h)
           /\ PageRows(d, c, before) = FirstRows(R, PageStop(h, before))
<1>1. PICK n : n = Len(h)
  OBVIOUS
<1>2. PICK at : at = {i \in 1 .. n : h[i].id = before}
  OBVIOUS
<1>3. PICK e : e = IF at = {} THEN n ELSE (CHOOSE i \in at : TRUE) - 1
  OBVIOUS
<1>4. PICK rows : rows = PageRows(d, c, before)
  OBVIOUS
<1>5. /\ n \in Nat /\ DOMAIN h = 1 .. n /\ R \in [1 .. n -> d.messages]
      /\ \A i \in 1 .. n : R[i].conversation = c /\ h[i].id = R[i].id /\ R[i].id \in 1 .. now
      /\ \A i, j \in 1 .. n : i < j => R[i].id < R[j].id
      /\ \A r \in d.messages : r.conversation = c => \E i \in 1 .. n : r = R[i]
      /\ before = 0 \/ \E j \in 1 .. n : before = h[j].id
  BY <1>1 DEF RowsOf
<1>6. PageStop(h, before) = e
  BY ONLY <1>1, <1>2, <1>3, <1>5 DEF PageStop
<1>7. e \in Nat /\ e <= n /\ rows = {R[i] : i \in 1 .. e}
  <2>1. CASE before = 0
    <3>1. at = {}
      BY ONLY <1>2, <1>5, <2>1, now \in Nat
    <3>2. e = n
      BY ONLY <1>3, <3>1
    <3>3. rows = {x \in d.messages : x.conversation = c}
      BY ONLY <1>4, <2>1 DEF PageRows
    <3>4. rows = {R[i] : i \in 1 .. n}
      BY ONLY <1>5, <3>3
    <3> QED BY ONLY <1>5, <3>2, <3>4
  <2>2. ASSUME NEW j \in 1 .. n, before = h[j].id PROVE e \in Nat /\ e <= n /\ rows = {R[i] : i \in 1 .. e}
    <3>1. before = R[j].id /\ before \in Nat /\ before # 0
      BY ONLY <1>5, <2>2, now \in Nat
    <3>2. ASSUME NEW i \in 1 .. n PROVE (R[i].id < before <=> i < j) /\ (h[i].id = before <=> i = j)
      <4>1. (i < j => R[i].id < R[j].id) /\ (j < i => R[j].id < R[i].id)
        BY ONLY <1>5, <2>2, <3>2
      <4>2. R[i].id \in Nat /\ R[j].id \in Nat /\ h[i].id = R[i].id
        BY ONLY <1>5, <2>2, <3>2, now \in Nat
      <4> QED BY ONLY <1>5, <3>1, <4>1, <4>2, i \in 1 .. n, j \in 1 .. n
    <3>3. at = {j}
      BY ONLY <1>2, <3>2, j \in 1 .. n
    <3>4. e = j - 1
      BY ONLY <1>3, <3>3
    <3>5. \E x \in d.messages : x.conversation = c /\ x.id = before
      BY ONLY <1>5, <3>1, j \in 1 .. n
    <3>6. rows = {x \in d.messages : x.conversation = c /\ x.id < before}
      BY ONLY <1>4, <3>1, <3>5 DEF PageRows
    <3>7. rows = {R[i] : i \in 1 .. (j - 1)}
      <4>1. ASSUME NEW x \in rows PROVE \E i \in 1 .. (j - 1) : x = R[i]
        <5>1. PICK i \in 1 .. n : x = R[i]
          BY ONLY <1>5, <3>6, <4>1
        <5>2. i < j
          BY ONLY <3>2, <3>6, <4>1, <5>1
        <5>3. i \in 1 .. (j - 1)
          BY ONLY <1>5, <5>2, i \in 1 .. n, j \in 1 .. n
        <5> QED BY ONLY <5>1, <5>3
      <4>2. ASSUME NEW i \in 1 .. (j - 1) PROVE R[i] \in rows
        <5>1. i \in 1 .. n /\ i < j
          BY ONLY <1>5, <4>2, j \in 1 .. n
        <5> QED BY ONLY <1>5, <3>2, <3>6, <5>1
      <4> QED BY ONLY <4>1, <4>2
    <3>8. j - 1 \in Nat /\ j - 1 <= n
      BY ONLY <1>5, j \in 1 .. n
    <3> QED BY ONLY <3>4, <3>7, <3>8
  <2> QED BY ONLY <1>5, <2>1, <2>2
<1> QED BY ONLY <1>1, <1>4, <1>6, <1>7 DEF FirstRows

LEMMA SamePage ==
    ASSUME NEW m, NEW d, NEW now \in Nat, Alike(m, d, now), NEW c \in Places, NEW limit \in Nat \ {0},
           NEW before \in {0} \cup {x.id : x \in ToSet(MemoryHistory(m, c))}
    PROVE  MemoryGetMessagesBefore(m, c, before, limit) = SQLiteGetMessagesBefore(d, c, before, limit)
<1> USE AlikeParts
<1>1. PICK h, n : h = MemoryHistory(m, c) /\ n = Len(h)
  OBVIOUS
<1>2. MessagesMatch(m.messages, d.messages, now) /\ m.reactions = d.reactions
  OBVIOUS
<1>3. PICK R : RowsOf(d, c, h, R, now)
  BY ONLY <1>1, <1>2, HistoryRows, now \in Nat, c \in Places
<1>4. n \in Nat /\ DOMAIN h = 1 .. n
  BY ONLY <1>1, <1>3 DEF RowsOf
<1>5. R \in [1 .. n -> d.messages] /\ \A i \in 1 .. n : h[i] = MessageOf(R[i])
  BY ONLY <1>1, <1>3 DEF RowsOf
<1>6. PICK e : e = PageStop(h, before)
  OBVIOUS
<1>7. PICK rows : rows = PageRows(d, c, before)
  OBVIOUS
<1>8. before = 0 \/ \E j \in 1 .. n : before = h[j].id
  BY <1>1, <1>4 DEF ToSet
<1>9. e \in Nat /\ e <= n /\ rows = FirstRows(R, e)
  BY ONLY <1>1, <1>3, <1>6, <1>7, <1>8, PageEnd, now \in Nat
<1>10. PICK g : g = LatestOf(R, e)
  OBVIOUS
<1>11. LatestFirst(rows) = g
  <2>1. \A r, q \in d.messages : r.id = q.id => r = q
    BY <1>2, MessageFacts
  <2> QED BY ONLY <1>1, <1>3, <1>9, <1>10, <2>1, PageOf, now \in Nat
<1>12. g = [i \in 1 .. e |-> R[e - i + 1]]
  BY ONLY <1>10 DEF LatestOf
<1>13. g \in Seq(d.messages) /\ Len(g) = e
  <2>1. \A i \in 1 .. e : R[e - i + 1] \in d.messages
    BY ONLY <1>4, <1>5, <1>9
  <2>2. g \in [1 .. e -> d.messages]
    BY ONLY <1>12, <2>1
  <2> QED BY ONLY <1>9, <2>2
<1>14. PICK k : k = IF limit < e THEN limit ELSE e
  OBVIOUS
<1>15. k \in Nat /\ k <= e
  BY ONLY <1>9, <1>14, limit \in Nat \ {0}
<1>16. PICK s : s = SubSeq(g, 1, k)
  OBVIOUS
<1>17. s \in Seq(d.messages) /\ Len(s) = k /\ \A i \in 1 .. k : s[i] = g[i]
  <2>1. s = [i \in 1 .. k |-> g[1 + i - 1]]
    BY ONLY <1>9, <1>13, <1>15, <1>16
  <2>2. \A i \in 1 .. k : 1 + i - 1 = i /\ i \in 1 .. e /\ g[i] \in d.messages
    BY ONLY <1>9, <1>13, <1>15
  <2>3. \A i \in 1 .. k : s[i] = g[i] /\ s[i] \in d.messages
    BY ONLY <2>1, <2>2
  <2>4. s \in [1 .. k -> d.messages]
    BY ONLY <2>1, <2>3
  <2> QED BY ONLY <1>15, <2>3, <2>4
<1>18. PICK page : page = Reverse(s)
  OBVIOUS
<1>19. DOMAIN page = 1 .. k /\ \A i \in 1 .. k : page[i] = R[e - k + i]
  <2>1. page = [i \in 1 .. k |-> s[(k - i) + 1]]
    BY ONLY <1>17, <1>18 DEF Reverse
  <2>2. ASSUME NEW i \in 1 .. k PROVE page[i] = R[e - k + i]
    <3>1. PICK j : j = (k - i) + 1
      OBVIOUS
    <3>2. j \in 1 .. k /\ j \in 1 .. e /\ e - j + 1 = e - k + i
      BY ONLY <1>9, <1>15, <3>1, i \in 1 .. k
    <3>3. page[i] = s[j]
      BY ONLY <2>1, <3>1, i \in 1 .. k
    <3>4. s[j] = g[j]
      BY ONLY <1>17, <3>2
    <3>5. g[j] = R[e - j + 1]
      BY ONLY <1>12, <3>2
    <3> QED BY ONLY <3>2, <3>3, <3>4, <3>5
  <2> QED BY ONLY <2>1, <2>2
<1>20. SQLiteGetMessagesBefore(d, c, before, limit) = [i \in 1 .. k |-> Loaded(page[i], RowReactions(d, page[i].id))]
  BY ONLY <1>7, <1>11, <1>13, <1>14, <1>16, <1>18, <1>19 DEF SQLiteGetMessagesBefore, PageRows
<1>21. PICK first : first = IF limit <= 0 \/ limit > e THEN 1 ELSE e - limit + 1
  OBVIOUS
<1>22. e - first + 1 = k /\ \A i \in 1 .. k : first + i - 1 = e - k + i /\ e - k + i \in 1 .. n
  BY ONLY <1>4, <1>9, <1>14, <1>21, limit \in Nat \ {0}
<1>23. MemoryGetMessagesBefore(m, c, before, limit)
         = [i \in 1 .. (e - first + 1) |-> Loaded(h[first + i - 1], ReactionsTo(m, h[first + i - 1].id))]
  BY ONLY <1>1, <1>6, <1>21 DEF MemoryGetMessagesBefore, PageStop
<1>24. ASSUME NEW i \in 1 .. k
       PROVE  Loaded(h[first + i - 1], ReactionsTo(m, h[first + i - 1].id)) = Loaded(page[i], RowReactions(d, page[i].id))
  <2>1. PICK r : r = page[i]
    OBVIOUS
  <2>2. h[first + i - 1] = MessageOf(r) /\ MessageOf(r).id = r.id
    BY ONLY <1>5, <1>19, <1>22, <2>1, MessageFields, i \in 1 .. k
  <2>3. ReactionsTo(m, r.id) = RowReactions(d, r.id)
    BY ONLY <1>2 DEF ReactionsTo, RowReactions
  <2> QED BY ONLY <2>1, <2>2, <2>3, LoadedSame
<1> QED BY ONLY <1>20, <1>22, <1>23, <1>24

LEMMA PagesAgree ==
    ASSUME clock \in Nat, Alike(memory, sqlite, clock), postgres = sqlite
    PROVE  SamePages
<1>1. ASSUME NEW c \in Places, NEW limit \in 1 .. 2,
             NEW before \in {0} \cup {x.id : x \in ToSet(MemoryHistory(memory, c))}
      PROVE  MemoryGetMessagesBefore(memory, c, before, limit) = SQLiteGetMessagesBefore(sqlite, c, before, limit)
  <2>1. limit \in Nat \ {0}
    OBVIOUS
  <2> QED BY ONLY <1>1, <2>1, SamePage, clock \in Nat, Alike(memory, sqlite, clock), Zenon
<1> QED BY <1>1 DEF SamePages, PostgresGetMessagesBefore

(* Unread counts *)

\* The message of a history after which the unread ones begin, for a mark.
ReadPast(h, mark) ==
    IF mark.last # 0 THEN {i \in DOMAIN h : h[i].id = mark.last}
    ELSE {i \in 0 .. Len(h) : i + 1 \in DOMAIN h /\ h[i + 1].id > mark.at}
UnreadFrom(h, mark) ==
    LET p == ReadPast(h, mark) IN IF p = {} THEN Len(h) ELSE CHOOSE i \in p : \A j \in p : i <= j

LEMMA LeastExists ==
    ASSUME NEW T, T \subseteq Nat, T # {}
    PROVE  \E x \in T : \A y \in T : x <= y
<1>1. PICK x \in T : \A y \in T : ~ (<<y, x>> \in OpToRel(<, Nat))
  BY WFMin, NatLessThanWellFounded
<1>2. \A y \in T : ~ (y < x)
  BY <1>1 DEF OpToRel
<1> QED BY <1>2

\* A message is after that one exactly when it is later than the mark.
LEMMA UnreadAreLater ==
    ASSUME NEW d, NEW c, NEW h, NEW R, NEW now \in Nat, RowsOf(d, c, h, R, now), NEW mark \in ReadRows,
           mark.last # 0 => mark.at = mark.last,
           mark.last # 0 => \E r \in d.messages : r.conversation = c /\ r.id = mark.last,
           NEW i \in 1 .. Len(h)
    PROVE  i > UnreadFrom(h, mark) <=> R[i].id > mark.at
<1>1. PICK n : n = Len(h)
  OBVIOUS
<1>2. PICK p : p = ReadPast(h, mark)
  OBVIOUS
<1>3. PICK s : s = UnreadFrom(h, mark)
  OBVIOUS
<1>4. s = IF p = {} THEN n ELSE CHOOSE x \in p : \A j \in p : x <= j
  BY ONLY <1>1, <1>2, <1>3 DEF UnreadFrom
<1>5. /\ n \in Nat /\ DOMAIN h = 1 .. n /\ i \in 1 .. n
      /\ \A j \in 1 .. n : h[j].id = R[j].id /\ R[j].id \in Nat
      /\ \A x, j \in 1 .. n : x < j => R[x].id < R[j].id
      /\ \A r \in d.messages : r.conversation = c => \E j \in 1 .. n : r = R[j]
  BY <1>1 DEF RowsOf
<1>6. mark.at \in Nat /\ mark.last \in Nat
  BY ONLY mark \in ReadRows DEF ReadRows
<1>7. CASE mark.last # 0
  <2>1. PICK j \in 1 .. n : R[j].id = mark.last
    BY <1>5, <1>7
  <2>2. ASSUME NEW x \in 1 .. n PROVE (R[x].id > R[j].id <=> x > j) /\ (h[x].id = mark.last <=> x = j)
    <3>1. (x < j => R[x].id < R[j].id) /\ (j < x => R[j].id < R[x].id)
      BY ONLY <1>5, <2>1, <2>2
    <3>2. R[x].id \in Nat /\ R[j].id \in Nat /\ h[x].id = R[x].id
      BY ONLY <1>5, <2>1, <2>2
    <3> QED BY ONLY <1>5, <2>1, <3>1, <3>2, x \in 1 .. n, j \in 1 .. n
  <2>3. p = {x \in 1 .. n : h[x].id = mark.last}
    BY ONLY <1>2, <1>5, <1>7 DEF ReadPast
  <2>4. p = {j}
    BY ONLY <2>2, <2>3, j \in 1 .. n
  <2>5. s = j
    <3>1. s = CHOOSE x \in {j} : \A y \in {j} : x <= y
      BY ONLY <1>4, <2>4
    <3>2. j <= j
      BY ONLY <1>5, j \in 1 .. n
    <3> QED BY ONLY <3>1, <3>2
  <2>6. mark.at = R[j].id
    BY <1>7, <2>1
  <2> QED BY ONLY <1>3, <1>5, <2>2, <2>5, <2>6
<1>8. CASE mark.last = 0
  <2>1. p = {x \in 0 .. n : x + 1 \in 1 .. n /\ h[x + 1].id > mark.at}
    BY ONLY <1>1, <1>2, <1>5, <1>8 DEF ReadPast
  <2>2. ASSUME R[i].id > mark.at PROVE i - 1 \in p
    <3>1. i - 1 \in 0 .. n /\ (i - 1) + 1 = i
      BY ONLY <1>5
    <3>2. h[i].id > mark.at
      BY ONLY <1>5, <2>2
    <3> QED BY ONLY <1>5, <2>1, <3>1, <3>2
  <2>3. CASE p = {}
    <3>1. s = n
      BY ONLY <1>4, <2>3
    <3>2. ~ (R[i].id > mark.at)
      BY ONLY <2>2, <2>3
    <3>3. ~ (i > n)
      BY ONLY <1>5
    <3> QED BY ONLY <1>3, <3>1, <3>2, <3>3
  <2>4. CASE p # {}
    <3>1. p \subseteq Nat
      BY ONLY <2>1
    <3>2. \E x \in p : \A y \in p : x <= y
      BY ONLY <2>4, <3>1, LeastExists
    <3>3. s = CHOOSE x \in p : \A y \in p : x <= y
      BY ONLY <1>4, <2>4
    <3>4. s \in p /\ \A y \in p : s <= y
      BY ONLY <3>2, <3>3
    <3>5. s \in Nat /\ s + 1 \in 1 .. n /\ R[s + 1].id > mark.at
      BY ONLY <1>5, <2>1, <3>1, <3>4
    <3>6. ASSUME i > s PROVE R[i].id > mark.at
      <4>1. i = s + 1 \/ s + 1 < i
        BY ONLY <1>5, <3>5, <3>6
      <4>2. CASE i = s + 1
        BY ONLY <3>5, <4>2
      <4>3. CASE s + 1 < i
        <5>1. R[s + 1].id < R[i].id /\ R[s + 1].id \in Nat /\ R[i].id \in Nat
          BY ONLY <1>5, <3>5, <4>3
        <5> QED BY ONLY <1>6, <3>5, <5>1
      <4> QED BY ONLY <4>1, <4>2, <4>3
    <3>7. ASSUME R[i].id > mark.at PROVE i > s
      <4>1. s <= i - 1
        BY ONLY <2>2, <3>4, <3>7
      <4> QED BY ONLY <1>5, <3>5, <4>1
    <3> QED BY ONLY <1>3, <3>6, <3>7
  <2> QED BY ONLY <2>3, <2>4
<1> QED BY <1>7, <1>8

\* As many messages of a history as rows.
OneToOne(R, n) == \A i, j \in 1 .. n : R[i] = R[j] => i = j
Names(R, I, n, Q) == I \subseteq 1 .. n /\ (\A i \in I : R[i] \in Q) /\ \A r \in Q : \E i \in I : r = R[i]

LEMMA AsManyRows ==
    ASSUME NEW n \in Nat, NEW R, OneToOne(R, n), NEW I, NEW Q, Names(R, I, n, Q)
    PROVE  Cardinality(I) = Cardinality(Q)
<1> USE DEF OneToOne, Names
<1>1. IsFiniteSet(I)
  <2>1. IsFiniteSet(1 .. n)
    BY FS_Interval, 1 \in Int, n \in Int
  <2> QED BY <2>1, FS_Subset
<1>2. PICK b : b = [i \in I |-> R[i]]
  OBVIOUS
<1>3. b \in Bijection(I, Q)
  BY <1>2 DEF Bijection, Injection, Surjection, IsInjective
<1>4. ExistsBijection(I, Q)
  BY <1>3 DEF ExistsBijection
<1> QED BY <1>1, <1>4, FS_Bijection

UnreadIn(h, mark, u) == {i \in DOMAIN h : i > UnreadFrom(h, mark) /\ h[i].sender # u}

LEMMA UnreadCounted ==
    ASSUME NEW m, NEW c, NEW u, {r \in MemoryGetConversationReadStates(m, c) : r.user = u} # {}
    PROVE  MemoryCountUnreadMessages(m, c, u) =
             Cardinality(UnreadIn(MemoryHistory(m, c),
                                  TheRow({r \in MemoryGetConversationReadStates(m, c) : r.user = u}), u))
<1>1. TheRow({r \in MemoryGetConversationReadStates(m, c) : r.user = u})
        = CHOOSE r \in {r \in MemoryGetConversationReadStates(m, c) : r.user = u} : TRUE
  BY Zenon DEF TheRow
<1>2. MemoryCountUnreadMessages(m, c, u) =
        Cardinality(UnreadIn(MemoryHistory(m, c),
                             CHOOSE r \in {r \in MemoryGetConversationReadStates(m, c) : r.user = u} : TRUE, u))
  BY Zenon DEF MemoryCountUnreadMessages, UnreadIn, UnreadFrom, ReadPast
<1> QED BY ONLY <1>1, <1>2, Zenon

LEMMA SameUnread ==
    ASSUME NEW m, NEW d, NEW now \in Nat, Alike(m, d, now), NEW c \in Places, NEW u,
           \A r \in d.reads : r.conversation = c /\ r.user = u /\ r.last # 0 =>
               \E x \in d.messages : x.conversation = c /\ x.id = r.last
    PROVE  MemoryCountUnreadMessages(m, c, u) = SQLiteCountUnreadMessages(d, c, u)
<1>1. PICK h, n : h = MemoryHistory(m, c) /\ n = Len(h)
  OBVIOUS
<1>2. /\ MessagesMatch(m.messages, d.messages, now) /\ m.reads = d.reads
      /\ d.reads \subseteq ReadRows /\ \A r \in d.reads : r.last # 0 => r.at = r.last
  BY AlikeParts DEF MarksTyped
<1>3. PICK R : RowsOf(d, c, h, R, now)
  BY ONLY <1>1, <1>2, HistoryRows, now \in Nat, c \in Places
<1>4. /\ n \in Nat /\ DOMAIN h = 1 .. n /\ R \in [1 .. n -> d.messages]
      /\ \A i \in 1 .. n : R[i].conversation = c /\ h[i].sender = R[i].sender /\ R[i].id \in Nat
      /\ \A i, j \in 1 .. n : i < j => R[i].id < R[j].id
      /\ \A r \in d.messages : r.conversation = c => \E i \in 1 .. n : r = R[i]
  BY ONLY <1>1, <1>3, now \in Nat DEF RowsOf
<1>5. PICK rows : rows = {r \in {r \in d.reads : r.conversation = c} : r.user = u}
  OBVIOUS
<1>6. /\ rows = {r \in MemoryGetConversationReadStates(m, c) : r.user = u}
      /\ rows = {r \in SQLiteGetConversationReadStates(d, c) : r.user = u}
  BY ONLY <1>2, <1>5 DEF MemoryGetConversationReadStates, SQLiteGetConversationReadStates
<1>7. PICK mark : mark = TheRow(rows)
  OBVIOUS
<1>8. Nothing \notin rows /\ rows \subseteq ReadRows
  BY ONLY <1>2, <1>5, StoreAssumption
<1>9. PICK start : start = IF rows = {} THEN 0 ELSE UnreadFrom(h, mark)
  OBVIOUS
<1>10. PICK I : I = {i \in 1 .. n : i > start /\ h[i].sender # u}
  OBVIOUS
<1>11. MemoryCountUnreadMessages(m, c, u) = Cardinality(I)
  <2>1. CASE rows = {}
    <3>1. start = 0
      BY ONLY <1>9, <2>1
    <3> QED BY ONLY <1>1, <1>4, <1>6, <1>10, <2>1, <3>1 DEF MemoryCountUnreadMessages
  <2>2. CASE rows # {}
    <3>1. start = UnreadFrom(h, mark)
      BY ONLY <1>9, <2>2
    <3>2. MemoryCountUnreadMessages(m, c, u) = Cardinality(UnreadIn(h, mark, u))
      BY ONLY <1>1, <1>6, <1>7, <2>2, UnreadCounted, ZenonT(40)
    <3>3. UnreadIn(h, mark, u) = I
      BY ONLY <1>4, <1>10, <3>1 DEF UnreadIn
    <3> QED BY ONLY <3>2, <3>3
  <2> QED BY ONLY <2>1, <2>2
<1>12. PICK Q : Q = {r \in d.messages : r.conversation = c /\ r.sender # u /\ (mark = Nothing \/ r.id > mark.at)}
  OBVIOUS
<1>13. SQLiteCountUnreadMessages(d, c, u) = Cardinality(Q)
  BY ONLY <1>6, <1>7, <1>12 DEF SQLiteCountUnreadMessages
<1>14. ASSUME NEW i \in 1 .. n PROVE i > start <=> (mark = Nothing \/ R[i].id > mark.at)
  <2>1. CASE rows = {}
    <3>1. mark = Nothing /\ start = 0
      BY ONLY <1>7, <1>8, <1>9, <2>1, RowFound
    <3> QED BY ONLY <1>4, <1>14, <3>1
  <2>2. CASE rows # {}
    <3>1. mark \in rows /\ mark # Nothing
      BY ONLY <1>7, <1>8, <2>2, RowFound
    <3>2. mark \in ReadRows /\ mark \in d.reads /\ mark.conversation = c /\ mark.user = u
      BY ONLY <1>5, <1>8, <3>1
    <3>3. mark.last # 0 => mark.at = mark.last
      BY <1>2, <3>2
    <3>4. mark.last # 0 => \E x \in d.messages : x.conversation = c /\ x.id = mark.last
      BY <3>2
    <3>5. start = UnreadFrom(h, mark)
      BY ONLY <1>9, <2>2
    <3>6. i > UnreadFrom(h, mark) <=> R[i].id > mark.at
      BY ONLY <1>1, <1>3, <1>14, <3>2, <3>3, <3>4, UnreadAreLater, now \in Nat
    <3> QED BY ONLY <3>1, <3>5, <3>6
  <2> QED BY ONLY <2>1, <2>2
<1>15. \A i, j \in 1 .. n : R[i] = R[j] => i = j
  <2>1. ASSUME NEW i \in 1 .. n, NEW j \in 1 .. n, R[i] = R[j] PROVE i = j
    <3>1. ~ (i < j) /\ ~ (j < i)
      BY ONLY <1>4, <2>1
    <3> QED BY ONLY <1>4, <2>1, <3>1
  <2> QED BY ONLY <2>1
<1>16. \A i \in I : R[i] \in Q
  BY ONLY <1>4, <1>10, <1>12, <1>14
<1>17. ASSUME NEW r \in Q PROVE \E i \in I : r = R[i]
  <2>1. PICK i \in 1 .. n : r = R[i]
    BY ONLY <1>4, <1>12, <1>17
  <2>2. i \in I
    BY ONLY <1>4, <1>10, <1>12, <1>14, <1>17, <2>1
  <2> QED BY ONLY <2>1, <2>2
<1>18. I \subseteq 1 .. n
  BY ONLY <1>10
<1>19. Cardinality(I) = Cardinality(Q)
  <2>1. OneToOne(R, n) /\ Names(R, I, n, Q)
    BY ONLY <1>15, <1>16, <1>17, <1>18 DEF OneToOne, Names
  <2>2. n \in Nat
    BY ONLY <1>4
  <2> QED BY ONLY <2>1, <2>2, AsManyRows
<1> QED BY ONLY <1>11, <1>13, <1>19

(* The theorem *)

LEMMA NoStraysWhileTheGroupIsThere ==
    ASSUME StoreInv
    PROVE  NoStrayRecords
<1>1. SUFFICES ASSUME GroupExists PROVE NoStrayRecords
  BY DEF NoStrayRecords
<1>2. TheGroup \in DOMAIN memory.groups
  BY <1>1 DEF GroupExists, MemoryGetGroup
<1>3. postgres = sqlite /\ Together(memory, sqlite, clock)
  BY <1>2 DEF StoreInv
<1>4. PICK ids : ids = {x.id : x \in sqlite.messages}
  OBVIOUS
<1>5. /\ MessagesMatch(memory.messages, sqlite.messages, clock)
      /\ memory.reactions = sqlite.reactions /\ memory.updated = sqlite.updated
      /\ sqlite.reactions \subseteq ReactionRows /\ IsFiniteSet(sqlite.reactions)
      /\ AboutMessages(sqlite.updated, sqlite.events, sqlite.reactions, sqlite.messages)
      /\ KeysMatch(memory.sent, sqlite.messages)
  BY <1>3, TogetherParts
<1>6. PICK about : about = {r.message : r \in sqlite.reactions} \cup {r.message : r \in sqlite.updated}
  OBVIOUS
<1>7. about \subseteq ids
  BY ONLY <1>4, <1>5, <1>6 DEF AboutMessages
<1>8. {r.message : r \in memory.sent} \subseteq ids
  <2>1. ASSUME NEW x \in memory.sent PROVE x.message \in ids
    <3>1. PICK r \in sqlite.messages : x = KeyOf(r)
      BY ONLY <1>5, <2>1 DEF KeysMatch
    <3>2. x.message = r.id
      BY ONLY <3>1 DEF KeyOf
    <3> QED BY ONLY <1>4, <3>1, <3>2
  <2> QED BY ONLY <2>1
<1>9. ASSUME NEW id \in ids PROVE MemoryGetMessage(memory, id) # Nothing
  <2>1. \E r \in sqlite.messages : r.id = id
    BY ONLY <1>4, <1>9
  <2>2. /\ MemoryGetMessage(memory, id) = SQLiteGetMessage(sqlite, id)
        /\ MemoryGetMessage(memory, id) # Nothing <=> \E r \in sqlite.messages : r.id = id
        /\ MemoryGetMessage(memory, id) \in LoadedMessages \cup {Nothing}
    BY ONLY <1>5, SameMessage
  <2> QED BY ONLY <2>1, <2>2
<1>10. /\ {r.message : r \in memory.reactions} \cup {r.message : r \in memory.updated} = about
       /\ {r.message : r \in postgres.reactions} \cup {r.message : r \in postgres.updated} = about
       /\ {x.id : x \in postgres.messages} = ids
  BY ONLY <1>3, <1>4, <1>5, <1>6
<1> QED BY ONLY <1>4, <1>6, <1>7, <1>8, <1>9, <1>10 DEF NoStrayRecords

LEMMA StoreInvAgrees ==
    ASSUME StoreInv
    PROVE  StoresAgree
<1>1. SameAnswers /\ clock \in Nat
  BY DEF StoreInv
<1>2. KeptGroups = {} => postgres = sqlite /\ Alike(memory, sqlite, clock)
  <2>1. CASE TheGroup \in DOMAIN memory.groups
    <3>1. postgres = sqlite /\ Together(memory, sqlite, clock)
      BY <2>1 DEF StoreInv
    <3> QED BY <3>1 DEF Alike, GroupAlike, Together
  <2>2. CASE TheGroup \notin DOMAIN memory.groups
    BY <2>2 DEF StoreInv, Alike, GroupAlike
  <2> QED BY <2>1, <2>2
<1>3. SameContents
  BY <1>1, <1>2, PagesAgree, LookupsAgree DEF SameContents
<1>4. SameUnreadCounts
  <2>1. SUFFICES ASSUME KeptGroups = {}, NEW c \in Places, NEW u \in People, MarkedMessageIsThere(c, u)
                 PROVE  /\ MemoryCountUnreadMessages(memory, c, u) = SQLiteCountUnreadMessages(sqlite, c, u)
                        /\ MemoryCountUnreadMessages(memory, c, u) = PostgresCountUnreadMessages(postgres, c, u)
    BY DEF SameUnreadCounts
  <2>2. postgres = sqlite /\ Alike(memory, sqlite, clock)
    BY <1>2, <2>1
  <2>3. \A r \in sqlite.reads : r.conversation = c /\ r.user = u /\ r.last # 0 =>
            \E x \in sqlite.messages : x.conversation = c /\ x.id = r.last
    BY ONLY <2>1 DEF MarkedMessageIsThere
  <2>4. MemoryCountUnreadMessages(memory, c, u) = SQLiteCountUnreadMessages(sqlite, c, u)
    BY ONLY <1>1, <2>1, <2>2, <2>3, SameUnread, ZenonT(40)
  <2> QED BY <2>2, <2>4 DEF PostgresCountUnreadMessages
<1>5. OnlyReactionsKeepAGroup
  <2>1. CASE TheGroup \in DOMAIN memory.groups
    <3>1. postgres = sqlite
      BY <2>1 DEF StoreInv
    <3>2. KeptGroups = {}
      BY <3>1 DEF KeptGroups
    <3> QED BY <3>2 DEF OnlyReactionsKeepAGroup
  <2>2. CASE TheGroup \notin DOMAIN memory.groups
    BY <2>2 DEF StoreInv
  <2> QED BY <2>1, <2>2
<1> QED BY <1>1, <1>3, <1>4, <1>5, NoStraysWhileTheGroupIsThere DEF StoresAgree

\* For any two users, any requests and any sequence of calls, the in-memory
\* store, SQLite and PostgreSQL answer every call alike and show the same pages,
\* groups, preferences, reactions, events and, where the marked message is there,
\* unread counts, until PostgreSQL keeps a group that the others delete, which
\* only a reaction to one of its messages makes it do; and while the group is
\* there no record outlives its message (memory.go, sqlite.go, postgres.go,
\* read_state.go, announcements.go).
THEOREM StoresStayEqual == StoreSpec => []StoresAgree
<1>1. StoreInit => StoreInv
  BY StoreInitInv
<1>2. StoreInv /\ [StoreNext]_storeVars => StoreInv'
  BY StoreNextInv
<1>3. StoreInv => StoresAgree
  BY StoreInvAgrees
<1> QED BY <1>1, <1>2, <1>3, PTL DEF StoreSpec

=============================================================================
