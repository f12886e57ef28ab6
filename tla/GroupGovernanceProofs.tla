----------------------- MODULE GroupGovernanceProofs -----------------------
(***************************************************************************)
(* Theorems about GroupGovernance, for every set of users, goroutines and  *)
(* names, any limits and any failures of the store.                        *)
(***************************************************************************)
EXTENDS GroupGovernance, TLAPS

\* The constants of a record that stand for nothing are well typed.
LEMMA DefaultsType ==
  /\ NoSettings \in Settings
  /\ NoProjection \in Projections
  /\ Idle \in RequestRecord
<1>1. NoSettings.name \in Names /\ NoSettings \in Settings
  BY GroupAssumption DEF NoSettings, Settings
<1>2. NoProjection \in Projections
  BY <1>1 DEF NoProjection, Projections
<1>3. Idle \in RequestRecord
  BY <1>1, <1>2 DEF Idle, RequestRecord, Operations, Steps
<1> QED BY <1>1, <1>2, <1>3

\* What Asks returns.
LEMMA AsksType ==
  ASSUME NEW op \in Operations, NEW u \in Users, NEW pc \in Steps,
         NEW T \in SUBSET Users
  PROVE  /\ Asks(op, u, pc, T) \in RequestRecord
         /\ Asks(op, u, pc, T).op = op
         /\ Asks(op, u, pc, T).actor = u
         /\ Asks(op, u, pc, T).pc = pc
         /\ Asks(op, u, pc, T).targets = T
         /\ Asks(op, u, pc, T).added = {}
<1>1. Idle \in RequestRecord /\ Idle.added = {}
  BY DefaultsType DEF Idle
<1> QED BY <1>1 DEF Asks, RequestRecord

\* The arrival of a request that is neither creating nor, unless it names one
\* target, transferring preserves the invariant.
LEMMA BeginPreserves ==
  ASSUME OwnershipInvariant, NEW p \in Pumps, NEW r \in RequestRecord,
         Begin(p, r),
         \/ Known /\ r.pc \notin Creating \cup {"idle"}
         \/ /\ group.phase = "unborn"
            /\ r.pc = "insert_group" /\ r.op = "create"
            /\ \A q \in Pumps : request[q].op = "create" => request[q].pc = "idle",
         r.op = "transfer" => r.pc # "add" /\ r.actor \in Users /\ \E t \in Users : r.targets = {t}
  PROVE  OwnershipInvariant'
<1>1. PICK quiet \in BOOLEAN : quiet = Quiet
  BY DEF Quiet
<1> DEFINE s == [r EXCEPT !.alone = quiet]
<1>2. /\ s \in RequestRecord /\ s.op = r.op /\ s.pc = r.pc /\ s.actor = r.actor
      /\ s.targets = r.targets
  BY DEF RequestRecord
<1>3. \A q \in Pumps : /\ request[q] \in RequestRecord
                       /\ [request[q] EXCEPT !.alone = FALSE] \in RequestRecord
                       /\ [request[q] EXCEPT !.alone = FALSE].op = request[q].op
                       /\ [request[q] EXCEPT !.alone = FALSE].pc = request[q].pc
                       /\ [request[q] EXCEPT !.alone = FALSE].actor = request[q].actor
                       /\ [request[q] EXCEPT !.alone = FALSE].targets = request[q].targets
  BY DEF OwnershipInvariant, TypeOK, RequestRecord
<1>4. /\ request' \in [Pumps -> RequestRecord]
      /\ request'[p] = s
      /\ \A q \in Pumps \ {p} : /\ request'[q].op = request[q].op
                                /\ request'[q].pc = request[q].pc
                                /\ request'[q].actor = request[q].actor
                                /\ request'[q].targets = request[q].targets
  BY <1>1, <1>2, <1>3 DEF Begin
<1> HIDE DEF s
<1>5. /\ UNCHANGED <<group, role, muted, conversation>>
      /\ settled' \in BOOLEAN
      /\ arrived' \in 0..MaxRequests
  BY <1>1, GroupAssumption DEF Begin, tables, OwnershipInvariant, TypeOK
<1>6. TypeOK'
  BY <1>4, <1>5 DEF OwnershipInvariant, TypeOK
<1>7. OneOwner'
  BY <1>5 DEF OwnershipInvariant, OneOwner
<1>8. CreationIsExclusive'
  <2>1. CASE Known /\ r.pc \notin Creating \cup {"idle"}
    BY <1>2, <1>4, <1>5, <2>1 DEF OwnershipInvariant, CreationIsExclusive, Known, Live, Creating, Members
  <2>2. CASE /\ group.phase = "unborn"
             /\ r.pc = "insert_group" /\ r.op = "create"
             /\ \A q \in Pumps : request[q].op = "create" => request[q].pc = "idle"
    <3>1. \A q \in Pumps : request[q].pc = "idle"
      BY <2>2 DEF OwnershipInvariant, CreationIsExclusive, Creating
    <3>2. \A q \in Pumps : IF q = p THEN request'[q].pc = "insert_group" /\ request'[q].op = "create"
                                     ELSE request'[q].pc = "idle"
      BY <1>2, <1>4, <2>2, <3>1
    <3>3. group'.phase = "unborn" /\ Members' = {}
      BY <1>5, <2>2 DEF OwnershipInvariant, CreationIsExclusive, Members
    <3> QED BY <3>2, <3>3 DEF CreationIsExclusive, Creating
  <2> QED BY <2>1, <2>2
<1>9. TransferTarget'
  BY <1>2, <1>4 DEF OwnershipInvariant, TransferTarget
<1> QED BY <1>6, <1>7, <1>8, <1>9 DEF OwnershipInvariant
-----------------------------------------------------------------------------
\* The settings a handler reads are well typed.
LEMMA OwnSettingsType ==
  ASSUME TypeOK, NEW n \in Names, NEW b \in BOOLEAN
  PROVE  /\ OwnSettings \in Settings
         /\ [OwnSettings EXCEPT !.name = n] \in Settings
         /\ [OwnSettings EXCEPT !.mute_all = b] \in Settings
  BY DEF TypeOK, GroupRows, OwnSettings, Settings

\* Every arrival of a request preserves the invariant.
LEMMA ArrivalPreserves ==
  ASSUME OwnershipInvariant, NEW p \in Pumps, NEW u \in Users, Arrival(p, u)
  PROVE  OwnershipInvariant'
<1> USE DEF Operations, Steps, Creating
<1>t. TypeOK
  BY DEF OwnershipInvariant
<1>1. ASSUME NEW T \in SUBSET Users, CreateGroup(p, u, T)
      PROVE  OwnershipInvariant'
  <2>1. PICK r : r = [Asks("create", u, "insert_group", T) EXCEPT !.new = OwnSettings]
    OBVIOUS
  <2>2. r \in RequestRecord /\ r.op = "create" /\ r.pc = "insert_group"
    <3>1. OwnSettings \in Settings
      BY <1>t DEF TypeOK, GroupRows, OwnSettings, Settings
    <3>2. Asks("create", u, "insert_group", T) \in RequestRecord
      BY AsksType
    <3>3. /\ Asks("create", u, "insert_group", T).op = "create"
          /\ Asks("create", u, "insert_group", T).pc = "insert_group"
      BY AsksType
    <3> QED BY <2>1, <3>1, <3>2, <3>3 DEF RequestRecord
  <2> QED BY <1>1, <2>1, <2>2, BeginPreserves DEF CreateGroup
<1>2. ASSUME NEW T \in SUBSET Users, GroupInvite(p, u, T)
      PROVE  OwnershipInvariant'
  <2>1. PICK pc \in {"sync", "add"} : pc = IF T \subseteq Members THEN "sync" ELSE "add"
    OBVIOUS
  <2>2. PICK r : r = Asks("invite", u, pc, T \ Members)
    OBVIOUS
  <2>3. r \in RequestRecord /\ r.op = "invite" /\ r.pc = pc
    BY <2>2, AsksType
  <2> QED BY <1>2, <2>1, <2>2, <2>3, BeginPreserves DEF GroupInvite
<1>3. CASE JoinGroup(p, u)
  <2>1. PICK r : r = Asks("join", u, "add", {u})
    OBVIOUS
  <2>2. r \in RequestRecord /\ r.op = "join" /\ r.pc = "add"
    BY <2>1, AsksType
  <2> QED BY <1>3, <2>1, <2>2, BeginPreserves DEF JoinGroup
<1>4. CASE LeaveGroup(p, u)
  <2>1. PICK r : r = Asks("leave", u, "remove", {u})
    OBVIOUS
  <2>2. r \in RequestRecord /\ r.op = "leave" /\ r.pc = "remove"
    BY <2>1, AsksType
  <2> QED BY <1>4, <2>1, <2>2, BeginPreserves DEF LeaveGroup
<1>5. CASE DismissGroup(p, u)
  <2>1. PICK r : r = Asks("dismiss", u, "write", {})
    OBVIOUS
  <2>2. r \in RequestRecord /\ r.op = "dismiss" /\ r.pc = "write"
    BY <2>1, AsksType
  <2> QED BY <1>5, <2>1, <2>2, BeginPreserves DEF DismissGroup
<1>6. ASSUME NEW t \in Users, GroupKick(p, u, t)
      PROVE  OwnershipInvariant'
  <2>1. PICK r : r = Asks("kick", u, "remove", {t})
    OBVIOUS
  <2>2. r \in RequestRecord /\ r.op = "kick" /\ r.pc = "remove"
    BY <2>1, AsksType
  <2> QED BY <1>6, <2>1, <2>2, BeginPreserves DEF GroupKick
<1>7. ASSUME NEW t \in Users, TransferGroup(p, u, t)
      PROVE  OwnershipInvariant'
  <2>1. PICK r : r = Asks("transfer", u, "write", {t})
    OBVIOUS
  <2>2. r \in RequestRecord /\ r.pc = "write" /\ r.actor = u /\ r.targets = {t}
    BY <2>1, AsksType
  <2> QED BY <1>7, <2>1, <2>2, BeginPreserves DEF TransferGroup
<1>8. ASSUME NEW t \in Users, NEW b \in BOOLEAN, GroupBan(p, u, t, b)
      PROVE  OwnershipInvariant'
  <2>1. PICK r : r = [Asks("ban", u, "write", {t}) EXCEPT !.enabled = b]
    OBVIOUS
  <2>2. r \in RequestRecord /\ r.op = "ban" /\ r.pc = "write"
    <3>1. Asks("ban", u, "write", {t}) \in RequestRecord
      BY AsksType
    <3>2. Asks("ban", u, "write", {t}).op = "ban" /\ Asks("ban", u, "write", {t}).pc = "write"
      BY AsksType
    <3> QED BY <2>1, <3>1, <3>2 DEF RequestRecord
  <2> QED BY <1>8, <2>1, <2>2, BeginPreserves DEF GroupBan
<1>9. ASSUME NEW t \in Users, NEW b \in BOOLEAN, SetGroupAdmin(p, u, t, b)
      PROVE  OwnershipInvariant'
  <2>1. PICK r : r = [Asks("set_admin", u, "write", {t}) EXCEPT !.enabled = b]
    OBVIOUS
  <2>2. r \in RequestRecord /\ r.op = "set_admin" /\ r.pc = "write"
    <3>1. Asks("set_admin", u, "write", {t}) \in RequestRecord
      BY AsksType
    <3>2. /\ Asks("set_admin", u, "write", {t}).op = "set_admin"
          /\ Asks("set_admin", u, "write", {t}).pc = "write"
      BY AsksType
    <3> QED BY <2>1, <3>1, <3>2 DEF RequestRecord
  <2> QED BY <1>9, <2>1, <2>2, BeginPreserves DEF SetGroupAdmin
<1>10. ASSUME NEW n \in Names, UpdateGroup(p, u, n)
       PROVE  OwnershipInvariant'
  <2>1. PICK x, y : x = OwnSettings /\ y = [OwnSettings EXCEPT !.name = n]
    OBVIOUS
  <2>2. x \in Settings /\ y \in Settings
    BY <1>t, <2>1, OwnSettingsType
  <2>3. PICK r : r = [Asks("update", u, "write", {}) EXCEPT !.old = x, !.new = y]
    OBVIOUS
  <2>4. r \in RequestRecord /\ r.op = "update" /\ r.pc = "write"
    <3>1. Asks("update", u, "write", {}) \in RequestRecord
      BY AsksType
    <3>2. Asks("update", u, "write", {}).op = "update" /\ Asks("update", u, "write", {}).pc = "write"
      BY AsksType
    <3> QED BY <2>2, <2>3, <3>1, <3>2 DEF RequestRecord
  <2> QED BY <1>10, <2>1, <2>3, <2>4, BeginPreserves DEF UpdateGroup
<1>11. ASSUME NEW b \in BOOLEAN, GroupMuteAll(p, u, b)
       PROVE  OwnershipInvariant'
  <2>1. PICK y : y = [OwnSettings EXCEPT !.mute_all = b]
    OBVIOUS
  <2>2. y \in Settings
    BY <1>t, <2>1, OwnSettingsType, DefaultsType DEF Settings
  <2>3. PICK r : r = [Asks("mute_all", u, "write", {}) EXCEPT !.new = y]
    OBVIOUS
  <2>4. r \in RequestRecord /\ r.op = "mute_all" /\ r.pc = "write"
    <3>1. Asks("mute_all", u, "write", {}) \in RequestRecord
      BY AsksType
    <3>2. Asks("mute_all", u, "write", {}).op = "mute_all" /\ Asks("mute_all", u, "write", {}).pc = "write"
      BY AsksType
    <3> QED BY <2>2, <2>3, <3>1, <3>2 DEF RequestRecord
  <2> QED BY <1>11, <2>1, <2>3, <2>4, BeginPreserves DEF GroupMuteAll
<1> QED BY <1>1, <1>2, <1>3, <1>4, <1>5, <1>6, <1>7, <1>8, <1>9, <1>10, <1>11 DEF Arrival

-----------------------------------------------------------------------------
\* A request record a handler may go on with.
Sound(r) ==
    /\ r \in RequestRecord
    /\ r.pc \notin Creating
    /\ r.op = "transfer" => r.pc # "add" /\ r.actor \in Users /\ \E t \in Users : r.targets = {t}

\* A handler that is past creation runs when the group has come into being and
\* no other handler is creating it; it may go on with a new program counter.
LEMMA SoundMoves ==
  ASSUME OwnershipInvariant, NEW p \in Pumps, request[p].pc # "idle",
         request[p].pc \notin Creating
  PROVE  /\ group.phase \in {"live", "dismissed"}
         /\ Sound(request[p])
         /\ Sound(Idle)
         /\ \A pc \in Steps \ (Creating \cup {"add"}) :
               Sound([request[p] EXCEPT !.pc = pc])
<1>1. request[p] \in RequestRecord
  BY DEF OwnershipInvariant, TypeOK
<1>2. Sound(request[p])
  BY <1>1 DEF Sound, OwnershipInvariant, TransferTarget
<1>3. Sound(Idle)
  BY DefaultsType DEF Sound, Idle, Creating
<1>4. ASSUME NEW pc \in Steps \ (Creating \cup {"add"})
      PROVE  Sound([request[p] EXCEPT !.pc = pc])
  BY <1>1, <1>2 DEF Sound, RequestRecord
<1>5. group.phase \in {"live", "dismissed"}
  BY DEF OwnershipInvariant, TypeOK, GroupRows, Phases, CreationIsExclusive, Creating
<1> QED BY <1>2, <1>3, <1>4, <1>5

\* A handler's step that goes on with a sound record and does not unmake the
\* group preserves the parts of the invariant that are about requests.
LEMMA RequestPreserved ==
  ASSUME OwnershipInvariant, NEW p \in Pumps, request[p].pc # "idle",
         request[p].pc \notin Creating, NEW r, Sound(r),
         request' = [request EXCEPT ![p] = r],
         group'.phase \in {"live", "dismissed"}
  PROVE  request' \in [Pumps -> RequestRecord] /\ CreationIsExclusive' /\ TransferTarget'
<1>1. /\ request' \in [Pumps -> RequestRecord]
      /\ request'[p] = r
      /\ \A q \in Pumps \ {p} : request'[q] = request[q]
  BY DEF OwnershipInvariant, TypeOK, Sound
<1>2. \A q \in Pumps : request'[q].pc \notin Creating
  BY <1>1 DEF Sound, OwnershipInvariant, CreationIsExclusive
<1>3. CreationIsExclusive'
  BY <1>2 DEF CreationIsExclusive, Creating
<1>4. TransferTarget'
  BY <1>1 DEF Sound, OwnershipInvariant, TransferTarget
<1> QED BY <1>1, <1>3, <1>4

\* A step that makes nobody owner and keeps the group's owner keeps OneOwner.
LEMMA OneOwnerKept ==
  ASSUME OneOwner, group'.owner = group.owner,
         \A u \in Users : role'[u] = "owner" => role[u] = "owner"
  PROVE  OneOwner'
  BY DEF OneOwner

\* A transfer that finds the owner it expects leaves one owner, the new one.
LEMMA TransferKeepsOneOwner ==
  ASSUME TypeOK, OneOwner, NEW from, NEW to \in Users, CanTransfer(from, to),
         TransferOwnership(from, to)
  PROVE  /\ group' \in GroupRows /\ group'.phase = "live"
         /\ role' \in [Users -> Roles] /\ muted' \in [Users -> BOOLEAN]
         /\ OneOwner'
<1>1. group' \in GroupRows /\ group'.phase = "live" /\ group'.owner = to
  BY DEF TypeOK, GroupRows, CanTransfer, TransferOwnership, Live
<1>2. role' \in [Users -> Roles]
  BY DEF TypeOK, Roles, TransferOwnership
<1>3. muted' \in [Users -> BOOLEAN]
  BY DEF TypeOK, TransferOwnership
<1>4. \A u \in Users : role'[u] = "owner" => u = to
  BY DEF OneOwner, CanTransfer, TransferOwnership
<1>5. OneOwner'
  BY <1>1, <1>4 DEF OneOwner
<1> QED BY <1>1, <1>2, <1>3, <1>5

\* What the handlers do after a failed sync and after each undone addition.
LEMMA FailureMoves ==
  ASSUME OwnershipInvariant, NEW p \in Pumps, request[p].pc # "idle",
         request[p].pc \notin Creating
  PROVE  /\ Sound(AfterFailedSync(p))
         /\ Sound(Failed(AfterFailedSync(p)))
         /\ Sound(Failed([request[p] EXCEPT !.pc = "undo"]))
         /\ Sound(Failed([request[p] EXCEPT !.pc = "resync"]))
         /\ request[p].pc # "add" => \A u \in Users :
               Sound(AfterUndoAdd(request[p], u)) /\ Sound(Failed(AfterUndoAdd(request[p], u)))
<1>1. ASSUME NEW r, Sound(r)
      PROVE  Sound(Failed(r))
  BY <1>1 DEF Sound, Failed, RequestRecord
<1>2. /\ Sound(Idle)
      /\ Sound([request[p] EXCEPT !.pc = "undo"])
      /\ Sound([request[p] EXCEPT !.pc = "resync"])
  BY SoundMoves DEF Steps, Creating
<1>3. Sound(AfterFailedSync(p))
  BY <1>2 DEF AfterFailedSync
<1>4. ASSUME NEW u \in Users, request[p].pc # "add"
      PROVE  Sound(AfterUndoAdd(request[p], u))
  <2>1. Sound([request[p] EXCEPT !.added = @ \ {u}])
    <3>1. Sound(request[p])
      BY SoundMoves
    <3> QED BY <3>1 DEF Sound, RequestRecord
  <2> QED BY <1>2, <2>1 DEF AfterUndoAdd
<1> QED BY <1>1, <1>2, <1>3, <1>4

\* A handler's step that writes at most the roles and mutes of members, makes
\* nobody owner, and goes on with a sound record.
LEMMA MembersStep ==
  ASSUME OwnershipInvariant, NEW p \in Pumps, request[p].pc # "idle",
         request[p].pc \notin Creating, NEW r, Sound(r),
         request' = [request EXCEPT ![p] = r],
         group' = group,
         role' \in [Users -> Roles], muted' \in [Users -> BOOLEAN],
         conversation' \in Projections \cup {NoConversation},
         settled' \in BOOLEAN, arrived' = arrived,
         \A u \in Users : role'[u] = "owner" => role[u] = "owner"
  PROVE  OwnershipInvariant'
<1>1. group'.phase \in {"live", "dismissed"}
  BY SoundMoves
<1>2. request' \in [Pumps -> RequestRecord] /\ CreationIsExclusive' /\ TransferTarget'
  BY <1>1, RequestPreserved
<1>3. OneOwner'
  BY OneOwnerKept DEF OwnershipInvariant
<1>4. TypeOK'
  BY <1>2 DEF OwnershipInvariant, TypeOK
<1> QED BY <1>2, <1>3, <1>4 DEF OwnershipInvariant

\* The same for a step that writes the group's settings only.
LEMMA SettingsStep ==
  ASSUME OwnershipInvariant, NEW p \in Pumps, request[p].pc # "idle",
         request[p].pc \notin Creating, NEW r, Sound(r),
         request' = [request EXCEPT ![p] = r],
         NEW s \in Settings, SetSettings(s) \/ group' = group,
         UNCHANGED <<role, muted, conversation, settled, arrived>>
  PROVE  OwnershipInvariant'
<1>1. group' \in GroupRows /\ group'.phase = group.phase /\ group'.owner = group.owner
  BY DEF OwnershipInvariant, TypeOK, GroupRows, Settings, SetSettings
<1>2. group'.phase \in {"live", "dismissed"}
  BY <1>1, SoundMoves
<1>3. request' \in [Pumps -> RequestRecord] /\ CreationIsExclusive' /\ TransferTarget'
  BY <1>2, RequestPreserved
<1>4. OneOwner'
  BY <1>1, OneOwnerKept DEF OwnershipInvariant
<1>5. TypeOK'
  BY <1>1, <1>3 DEF OwnershipInvariant, TypeOK
<1> QED BY <1>3, <1>4, <1>5 DEF OwnershipInvariant

\* The two inserts of Store.CreateGroup.
LEMMA CreationPreserves ==
  ASSUME OwnershipInvariant, NEW p \in Pumps, InsertGroup(p) \/ InsertOwner(p)
  PROVE  OwnershipInvariant'
<1>1. request[p] \in RequestRecord
  BY DEF OwnershipInvariant, TypeOK
<1>2. \A q \in Pumps \ {p} : request[q].pc = "idle"
  BY DEF OwnershipInvariant, CreationIsExclusive, Creating, InsertGroup, InsertOwner
<1>3. request[p].op = "create"
  BY DEF OwnershipInvariant, CreationIsExclusive, Creating, InsertGroup, InsertOwner
<1>4. ASSUME NEW pc \in Steps
      PROVE  /\ [request[p] EXCEPT !.pc = pc] \in RequestRecord
             /\ [request[p] EXCEPT !.pc = pc].pc = pc
             /\ [request[p] EXCEPT !.pc = pc].op = "create"
             /\ [request[p] EXCEPT !.pc = pc].actor = request[p].actor
  BY <1>1, <1>3 DEF RequestRecord
<1>5. CASE InsertGroup(p)
  <2>1. PICK r : r = [request[p] EXCEPT !.pc = "insert_owner"]
    OBVIOUS
  <2>2. r \in RequestRecord /\ r.pc = "insert_owner" /\ r.op = "create" /\ r.actor = request[p].actor
    BY <1>4, <2>1 DEF Steps
  <2>3. request' = [request EXCEPT ![p] = r]
    BY <1>5, <2>1 DEF InsertGroup, Goto
  <2>4. /\ request' \in [Pumps -> RequestRecord]
        /\ request'[p] = r
        /\ \A q \in Pumps \ {p} : request'[q] = request[q]
    BY <2>2, <2>3 DEF OwnershipInvariant, TypeOK
  <2>5. \A u \in Users : role[u] = ""
    BY <1>5 DEF InsertGroup, OwnershipInvariant, CreationIsExclusive, Members
  <2>6. request[p].actor \in Users \cup {None} /\ request[p].new.name \in Names
    BY <1>1 DEF RequestRecord, Settings
  <2>7. group' \in GroupRows /\ group'.phase = "live" /\ group'.owner = request[p].actor
    BY <1>5, <2>6 DEF InsertGroup, GroupRows, Phases
  <2>8. TypeOK'
    BY <1>5, <2>4, <2>7 DEF InsertGroup, OwnershipInvariant, TypeOK, history
  <2>9. OneOwner'
    BY <1>5, <2>5 DEF InsertGroup, OneOwner
  <2>10. CreationIsExclusive'
    BY <1>2, <2>2, <2>4, <2>7 DEF CreationIsExclusive, Creating, Live
  <2>11. TransferTarget'
    BY <2>2, <2>4 DEF OwnershipInvariant, TransferTarget
  <2> QED BY <2>8, <2>9, <2>10, <2>11 DEF OwnershipInvariant
<1>6. CASE InsertOwner(p)
  <2> DEFINE u == request[p].actor
  <2>0. PICK pc \in {"sync", "add"} : pc = IF request[p].targets = {} THEN "sync" ELSE "add"
    OBVIOUS
  <2>1. PICK r : /\ r = Idle \/ r = [request[p] EXCEPT !.pc = pc]
                 /\ request' = [request EXCEPT ![p] = r]
    <3>1. CASE role[u] = ""
      <4>1. request' = [request EXCEPT ![p].pc = pc]
        BY <1>6, <2>0, <3>1 DEF InsertOwner, Goto
      <4> QED BY <4>1
    <3>2. CASE role[u] # ""
      BY <1>6, <3>2 DEF InsertOwner, Finish
    <3> QED BY <3>1, <3>2
  <2>2. r \in RequestRecord /\ r.pc \notin Creating /\ r.op # "transfer"
    <3>1. CASE r = Idle
      BY <3>1, DefaultsType DEF Idle, Creating
    <3>2. CASE r = [request[p] EXCEPT !.pc = pc]
      <4>1. r \in RequestRecord /\ r.pc = pc /\ r.op = "create"
        BY <1>4, <3>2 DEF Steps
      <4> QED BY <4>1 DEF Creating
    <3> QED BY <2>1, <3>1, <3>2
  <2>3. /\ request' \in [Pumps -> RequestRecord]
        /\ request'[p] = r
        /\ \A q \in Pumps \ {p} : request'[q] = request[q]
    BY <2>1, <2>2 DEF OwnershipInvariant, TypeOK
  <2>4. group' = group /\ group.phase = "live" /\ group.owner = u
    BY <1>6 DEF InsertOwner, OwnershipInvariant, CreationIsExclusive, Live
  <2>5. role' \in [Users -> Roles]
    BY <1>6 DEF InsertOwner, OwnershipInvariant, TypeOK, Roles
  <2>6. TypeOK'
    BY <1>6, <2>3, <2>5 DEF InsertOwner, OwnershipInvariant, TypeOK, history
  <2>7. OneOwner'
    <3>1. \A v \in Users : role'[v] = "owner" => v = u \/ role[v] = "owner"
      BY <1>6 DEF InsertOwner, OwnershipInvariant, TypeOK
    <3> QED BY <2>4, <3>1 DEF OwnershipInvariant, OneOwner
  <2>8. CreationIsExclusive'
    BY <1>2, <2>2, <2>3, <2>4 DEF CreationIsExclusive, Creating
  <2>9. TransferTarget'
    BY <2>2, <2>3 DEF OwnershipInvariant, TransferTarget
  <2> QED BY <2>6, <2>7, <2>8, <2>9 DEF OwnershipInvariant
<1> QED BY <1>5, <1>6

\* The writes that change members' roles or mutes.
LEMMA MemberWritesPreserve ==
  ASSUME OwnershipInvariant, NEW p \in Pumps,
         \/ \E u \in Users : AddMember(p, u) \/ UndoAdd(p, u)
         \/ RemoveMember(p) \/ WriteMute(p) \/ WriteRole(p) \/ UndoRemove(p)
  PROVE  OwnershipInvariant'
<1>1. request[p].pc # "idle" /\ request[p].pc \notin Creating
  BY DEF AddMember, UndoAdd, RemoveMember, WriteMute, WriteRole, UndoRemove, At, Creating
<1>2. /\ role \in [Users -> Roles] /\ muted \in [Users -> BOOLEAN]
      /\ conversation \in Projections \cup {NoConversation} /\ settled \in BOOLEAN
      /\ request[p] \in RequestRecord
  BY DEF OwnershipInvariant, TypeOK
<1>3. /\ Sound(Idle)
      /\ Sound([request[p] EXCEPT !.pc = "sync"])
      /\ Sound([request[p] EXCEPT !.pc = "undo"])
      /\ Sound([request[p] EXCEPT !.pc = "resync"])
  BY <1>1, SoundMoves DEF Steps, Creating
<1>4. ASSUME NEW u \in Users, AddMember(p, u)
      PROVE  OwnershipInvariant'
  <2>1. CASE role[u] = ""
    <3>1. PICK pc \in {"sync", "add"} : pc = IF request[p].targets = {u} THEN "sync" ELSE "add"
      OBVIOUS
    <3>2. PICK r : r = [request[p] EXCEPT !.added = @ \cup {u}, !.targets = @ \ {u}, !.pc = pc]
      OBVIOUS
    <3>3. request' = [request EXCEPT ![p] = r]
      BY <1>2, <1>4, <2>1, <3>1, <3>2 DEF AddMember
    <3>4. Sound(r)
      <4>1. request[p].op # "transfer"
        BY <1>4 DEF AddMember, OwnershipInvariant, TransferTarget
      <4>2. r \in RequestRecord /\ r.pc = pc /\ r.op = request[p].op
        BY <1>2, <3>2 DEF RequestRecord, Steps
      <4> QED BY <4>1, <4>2 DEF Sound, Creating
    <3>5. /\ role' \in [Users -> Roles] /\ muted' \in [Users -> BOOLEAN]
          /\ \A v \in Users : role'[v] = "owner" => role[v] = "owner"
      BY <1>2, <1>4, <2>1 DEF AddMember, Roles
    <3> QED BY <1>1, <1>2, <1>4, <3>3, <3>4, <3>5, MembersStep DEF AddMember, history
  <2>2. CASE role[u] # ""
    <3>1. PICK r : r \in {Idle, [request[p] EXCEPT !.pc = "undo"]} /\ request' = [request EXCEPT ![p] = r]
      BY <1>4, <2>2 DEF AddMember, Goto, Finish
    <3> QED BY <1>1, <1>2, <1>3, <1>4, <2>2, <3>1, MembersStep DEF AddMember, history
  <2> QED BY <2>1, <2>2
<1>5. ASSUME NEW u \in Users, UndoAdd(p, u)
      PROVE  OwnershipInvariant'
  <2>1. PICK r : r = AfterUndoAdd(request[p], u)
    OBVIOUS
  <2>2. Sound(r) /\ request' = [request EXCEPT ![p] = r]
    BY <1>1, <1>5, <2>1, FailureMoves DEF UndoAdd
  <2>3. /\ role' \in [Users -> Roles] /\ muted' \in [Users -> BOOLEAN]
        /\ \A v \in Users : role'[v] = "owner" => role[v] = "owner"
    BY <1>2, <1>5 DEF UndoAdd, Roles
  <2> QED BY <1>1, <1>2, <1>5, <2>2, <2>3, MembersStep DEF UndoAdd, history
<1>6. CASE RemoveMember(p)
  <2>1. PICK r : r \in {Idle, [request[p] EXCEPT !.pc = "sync"]} /\ request' = [request EXCEPT ![p] = r]
    BY <1>6 DEF RemoveMember, Goto, Finish
  <2>2. /\ role' \in [Users -> Roles] /\ muted' \in [Users -> BOOLEAN]
        /\ \A v \in Users : role'[v] = "owner" => role[v] = "owner"
    BY <1>2, <1>6 DEF RemoveMember, Roles
  <2> QED BY <1>1, <1>2, <1>3, <1>6, <2>1, <2>2, MembersStep DEF RemoveMember, history
<1>7. CASE WriteMute(p)
  <2>1. muted' \in [Users -> BOOLEAN]
    <3>1. (role[Target(p)] # "" /\ request[p].enabled) \in BOOLEAN
      OBVIOUS
    <3> QED BY <1>2, <1>7, <3>1 DEF WriteMute
  <2> QED BY <1>1, <1>2, <1>3, <1>7, <2>1, MembersStep DEF WriteMute, Finish, history
<1>8. CASE WriteRole(p)
  <2>1. /\ role' \in [Users -> Roles]
        /\ \A v \in Users : role'[v] = "owner" => role[v] = "owner"
    BY <1>2, <1>8 DEF WriteRole, Roles
  <2> QED BY <1>1, <1>2, <1>3, <1>8, <2>1, MembersStep DEF WriteRole, Finish, history
<1>9. CASE UndoRemove(p)
  <2>1. PICK r : r = [request[p] EXCEPT !.pc = "resync"] /\ request' = [request EXCEPT ![p] = r]
    BY <1>9 DEF UndoRemove, Goto
  <2>2. /\ role' \in [Users -> Roles]
        /\ \A v \in Users : role'[v] = "owner" => role[v] = "owner"
    BY <1>2, <1>9 DEF UndoRemove, Roles
  <2> QED BY <1>1, <1>2, <1>3, <1>9, <2>1, <2>2, MembersStep DEF UndoRemove, history
<1> QED BY <1>4, <1>5, <1>6, <1>7, <1>8, <1>9

\* The sync, and the steps after a store call that failed.
LEMMA SyncPreserves ==
  ASSUME OwnershipInvariant, NEW p \in Pumps,
         ReadMembership(p) \/ SaveConversation(p) \/ UndoFails(p)
  PROVE  OwnershipInvariant'
<1>1. request[p].pc # "idle" /\ request[p].pc \notin Creating
  BY DEF ReadMembership, SaveConversation, UndoFails, Creating
<1>2. /\ role \in [Users -> Roles] /\ muted \in [Users -> BOOLEAN]
      /\ conversation \in Projections \cup {NoConversation} /\ settled \in BOOLEAN
      /\ request[p] \in RequestRecord /\ group \in GroupRows
  BY DEF OwnershipInvariant, TypeOK
<1>3. CASE ReadMembership(p)
  <2>1. CASE Live
    <3>1. Projection \in Projections
      BY <1>2 DEF Projection, Projections, GroupRows, Members
    <3>2. PICK pc \in {"save", "resave"} : pc = IF Syncing(p) THEN "save" ELSE "resave"
      OBVIOUS
    <3>3. PICK x \in Projections : x = Projection
      BY <3>1
    <3>4. PICK r : r = [request[p] EXCEPT !.read = x, !.pc = pc]
      OBVIOUS
    <3>5. request' = [request EXCEPT ![p] = r]
      BY <1>3, <2>1, <3>2, <3>3, <3>4 DEF ReadMembership
    <3>6. Sound(r)
      <4>1. Sound(request[p])
        BY <1>1, SoundMoves
      <4> QED BY <3>4, <4>1 DEF Sound, RequestRecord, Steps, Creating
    <3> QED BY <1>1, <1>2, <1>3, <3>5, <3>6, MembersStep DEF ReadMembership, tables, history
  <2>2. CASE ~Live
    <3>1. PICK r : r = AfterFailedSync(p)
      OBVIOUS
    <3>2. Sound(r) /\ request' = [request EXCEPT ![p] = r]
      BY <1>1, <1>3, <2>2, <3>1, FailureMoves DEF ReadMembership
    <3> QED BY <1>1, <1>2, <1>3, <3>2, MembersStep DEF ReadMembership, tables, history
  <2> QED BY <2>1, <2>2
<1>4. CASE SaveConversation(p)
  <2>1. conversation' \in Projections
    BY <1>2, <1>4 DEF SaveConversation, RequestRecord
  <2>2. settled' \in BOOLEAN
    BY <1>4 DEF SaveConversation
  <2>3. Sound(Idle)
    BY <1>1, SoundMoves
  <2> QED BY <1>1, <1>2, <1>4, <2>1, <2>2, <2>3, MembersStep DEF SaveConversation, Finish
<1>5. CASE UndoFails(p)
  <2>1. \E r : Sound(r) /\ request' = [request EXCEPT ![p] = r]
    <3>1. CASE request[p].added # {}
      <4>1. PICK u \in request[p].added : request' = [request EXCEPT ![p] =
                IF AfterUndoAdd(request[p], u) = Idle THEN Idle ELSE Failed(AfterUndoAdd(request[p], u))]
        BY <1>5, <3>1 DEF UndoFails
      <4>2. u \in Users /\ request[p].pc # "add"
        BY <1>2, <1>5 DEF UndoFails, RequestRecord
      <4>3. Sound(Idle) /\ Sound(Failed(AfterUndoAdd(request[p], u)))
        BY <1>1, <4>2, SoundMoves, FailureMoves
      <4>4. CASE AfterUndoAdd(request[p], u) = Idle
        BY <4>1, <4>3, <4>4
      <4>5. CASE AfterUndoAdd(request[p], u) # Idle
        BY <4>1, <4>3, <4>5
      <4> QED BY <4>4, <4>5
    <3>2. CASE request[p].added = {} /\ request[p].op \in {"leave", "kick"}
      <4>1. PICK r : r = Failed([request[p] EXCEPT !.pc = "resync"])
        OBVIOUS
      <4> QED BY <1>1, <1>5, <3>2, <4>1, FailureMoves DEF UndoFails
    <3>3. CASE request[p].added = {} /\ request[p].op \notin {"leave", "kick"}
      BY <1>1, <1>5, <3>3, SoundMoves DEF UndoFails, Finish
    <3> QED BY <3>1, <3>2, <3>3
  <2> QED BY <1>1, <1>2, <1>5, <2>1, MembersStep DEF UndoFails, tables, history
<1> QED BY <1>3, <1>4, <1>5

\* A failing store call, also of Store.CreateGroup.
LEMMA FailurePreserves ==
  ASSUME OwnershipInvariant, NEW p \in Pumps, StoreFails(p)
  PROVE  OwnershipInvariant'
<1>1. /\ role \in [Users -> Roles] /\ muted \in [Users -> BOOLEAN]
      /\ conversation \in Projections \cup {NoConversation} /\ settled \in BOOLEAN
      /\ UNCHANGED <<group, role, muted, conversation, settled, arrived>>
  BY DEF OwnershipInvariant, TypeOK, StoreFails, tables, history
<1>2. CASE request[p].pc \in Creating
  <2>1. request' = [request EXCEPT ![p] = Idle]
    BY <1>2 DEF StoreFails, Syncing, Creating
  <2>2. /\ request' \in [Pumps -> RequestRecord]
        /\ \A q \in Pumps : request'[q].pc = "idle"
        /\ request'[p].op = "join"
        /\ \A q \in Pumps \ {p} : request'[q] = request[q]
    <3>1. Idle \in RequestRecord /\ Idle.pc = "idle" /\ Idle.op = "join"
      BY DefaultsType DEF Idle
    <3>2. \A q \in Pumps \ {p} : request[q].pc = "idle"
      BY <1>2 DEF OwnershipInvariant, CreationIsExclusive
    <3> QED BY <2>1, <3>1, <3>2 DEF OwnershipInvariant, TypeOK
  <2>3. TypeOK'
    BY <1>1, <2>2 DEF OwnershipInvariant, TypeOK
  <2>4. OneOwner'
    BY <1>1 DEF OwnershipInvariant, OneOwner
  <2>5. CreationIsExclusive'
    <3>1. group'.phase = "unborn" => Members' = {}
      BY <1>1 DEF OwnershipInvariant, CreationIsExclusive, Members
    <3> QED BY <2>2, <3>1 DEF CreationIsExclusive, Creating
  <2>6. TransferTarget'
    BY <2>2 DEF OwnershipInvariant, TransferTarget
  <2> QED BY <2>3, <2>4, <2>5, <2>6 DEF OwnershipInvariant
<1>3. CASE request[p].pc \notin Creating
  <2>1. request[p].pc # "idle"
    BY DEF StoreFails
  <2>2. \E r : Sound(r) /\ request' = [request EXCEPT ![p] = r]
    <3>1. CASE Syncing(p) /\ request[p].op # "create"
      <4>1. PICK r : r = Failed(AfterFailedSync(p))
        OBVIOUS
      <4>2. request' = [request EXCEPT ![p] = r]
        BY <3>1, <4>1 DEF StoreFails
      <4> QED BY <1>3, <2>1, <4>1, <4>2, FailureMoves
    <3>2. CASE ~(Syncing(p) /\ request[p].op # "create") /\ request[p].pc = "add" /\ request[p].added # {}
      <4>1. PICK r : r = Failed([request[p] EXCEPT !.pc = "undo"])
        OBVIOUS
      <4>2. request' = [request EXCEPT ![p] = r]
        BY <3>2, <4>1 DEF StoreFails
      <4> QED BY <1>3, <2>1, <4>1, <4>2, FailureMoves
    <3>3. CASE ~(Syncing(p) /\ request[p].op # "create") /\ ~(request[p].pc = "add" /\ request[p].added # {})
      <4>1. request' = [request EXCEPT ![p] = Idle]
        BY <3>3 DEF StoreFails
      <4> QED BY <1>3, <2>1, <4>1, SoundMoves
    <3> QED BY <3>1, <3>2, <3>3
  <2> QED BY <1>1, <1>3, <2>1, <2>2, MembersStep
<1> QED BY <1>2, <1>3

\* The writes of the group's row, its deletion included.
LEMMA GroupWritesPreserve ==
  ASSUME OwnershipInvariant, NEW p \in Pumps,
         \/ WriteUpdate(p) \/ WriteMuteAll(p) \/ UndoUpdate(p)
         \/ WriteTransfer(p) \/ UndoTransfer(p) \/ DeleteGroup(p)
  PROVE  OwnershipInvariant'
<1>1. request[p].pc # "idle" /\ request[p].pc \notin Creating
  BY DEF WriteUpdate, WriteMuteAll, UndoUpdate, WriteTransfer, UndoTransfer, DeleteGroup, At, Creating
<1>2. /\ request[p] \in RequestRecord
      /\ role \in [Users -> Roles] /\ muted \in [Users -> BOOLEAN]
      /\ conversation \in Projections \cup {NoConversation} /\ settled \in BOOLEAN
  BY DEF OwnershipInvariant, TypeOK
<1>3. /\ request[p].new \in Settings /\ request[p].old \in Settings
      /\ request[p].actor \in Users \cup {None}
  BY <1>2 DEF RequestRecord
<1>4. Sound(Idle) /\ Sound([request[p] EXCEPT !.pc = "sync"])
  BY <1>1, SoundMoves DEF Steps, Creating
<1>5. CASE WriteUpdate(p)
  <2>1. PICK r : r \in {Idle, [request[p] EXCEPT !.pc = "sync"]} /\ request' = [request EXCEPT ![p] = r]
    BY <1>5 DEF WriteUpdate, Goto, Finish
  <2>2. SetSettings(request[p].new) \/ group' = group
    BY <1>5 DEF WriteUpdate
  <2> QED BY <1>1, <1>3, <1>4, <1>5, <2>1, <2>2, SettingsStep DEF WriteUpdate, history
<1>6. CASE WriteMuteAll(p)
  <2>1. SetSettings(request[p].new) \/ group' = group
    BY <1>6 DEF WriteMuteAll
  <2> QED BY <1>1, <1>3, <1>4, <1>6, <2>1, SettingsStep DEF WriteMuteAll, Finish, history
<1>7. CASE UndoUpdate(p)
  <2>1. SetSettings(request[p].old) \/ group' = group
    BY <1>7 DEF UndoUpdate
  <2> QED BY <1>1, <1>3, <1>4, <1>7, <2>1, SettingsStep DEF UndoUpdate, Finish, history
<1>8. CASE WriteTransfer(p)
  <2>1. PICK r : r \in {Idle, [request[p] EXCEPT !.pc = "sync"]} /\ request' = [request EXCEPT ![p] = r]
    BY <1>8 DEF WriteTransfer, Goto, Finish
  <2>2. PICK t \in Users : t = Target(p)
    BY <1>8 DEF WriteTransfer, At, OwnershipInvariant, TransferTarget, Target
  <2>3. CASE CanTransfer(request[p].actor, t)
    <3>1. TransferOwnership(request[p].actor, t)
      BY <1>8, <2>2, <2>3 DEF WriteTransfer
    <3>2. /\ group' \in GroupRows /\ group'.phase = "live"
          /\ role' \in [Users -> Roles] /\ muted' \in [Users -> BOOLEAN] /\ OneOwner'
      BY <2>3, <3>1, TransferKeepsOneOwner DEF OwnershipInvariant
    <3>3. request' \in [Pumps -> RequestRecord] /\ CreationIsExclusive' /\ TransferTarget'
      BY <1>1, <1>4, <2>1, <3>2, RequestPreserved
    <3>4. TypeOK'
      BY <1>8, <3>2, <3>3 DEF OwnershipInvariant, TypeOK, WriteTransfer, history
    <3> QED BY <3>2, <3>3, <3>4 DEF OwnershipInvariant
  <2>4. CASE ~CanTransfer(request[p].actor, t)
    <3>1. UNCHANGED <<group, role, muted, conversation, settled, arrived>>
      BY <1>8, <2>2, <2>4 DEF WriteTransfer, history
    <3> QED BY <1>1, <1>2, <1>4, <2>1, <3>1, MembersStep
  <2> QED BY <2>3, <2>4
<1>9. CASE UndoTransfer(p)
  <2>1. request' = [request EXCEPT ![p] = Idle]
    BY <1>9 DEF UndoTransfer, Finish
  <2>2. PICK t \in Users : t = Target(p)
    BY <1>9 DEF UndoTransfer, At, OwnershipInvariant, TransferTarget, Target
  <2>3. CASE CanTransfer(t, request[p].actor)
    <3>1. TransferOwnership(t, request[p].actor)
      BY <1>9, <2>2, <2>3 DEF UndoTransfer
    <3>2. request[p].actor \in Users
      BY <1>9 DEF UndoTransfer, At, OwnershipInvariant, TransferTarget
    <3>3. /\ group' \in GroupRows /\ group'.phase = "live"
          /\ role' \in [Users -> Roles] /\ muted' \in [Users -> BOOLEAN] /\ OneOwner'
      BY <2>3, <3>1, <3>2, TransferKeepsOneOwner DEF OwnershipInvariant
    <3>4. request' \in [Pumps -> RequestRecord] /\ CreationIsExclusive' /\ TransferTarget'
      BY <1>1, <1>4, <2>1, <3>3, RequestPreserved
    <3>5. TypeOK'
      BY <1>9, <3>3, <3>4 DEF OwnershipInvariant, TypeOK, UndoTransfer, history
    <3> QED BY <3>3, <3>4, <3>5 DEF OwnershipInvariant
  <2>4. CASE ~CanTransfer(t, request[p].actor)
    <3>1. UNCHANGED <<group, role, muted, conversation, settled, arrived>>
      BY <1>9, <2>2, <2>4 DEF UndoTransfer, history
    <3> QED BY <1>1, <1>2, <1>4, <2>1, <3>1, MembersStep
  <2> QED BY <2>3, <2>4
<1>10. CASE DeleteGroup(p)
  <2>1. request' = [request EXCEPT ![p] = Idle]
    BY <1>10 DEF DeleteGroup, Finish
  <2>2. CASE Live
    <3>1. /\ group' \in GroupRows /\ group'.phase = "dismissed"
          /\ role' = [u \in Users |-> ""] /\ muted' = [u \in Users |-> FALSE]
          /\ conversation' = NoConversation
      BY <1>10, <2>2, ZenonT(30) DEF DeleteGroup, OwnershipInvariant, TypeOK, GroupRows, Phases
    <3>2. request' \in [Pumps -> RequestRecord] /\ CreationIsExclusive' /\ TransferTarget'
      BY <1>1, <1>4, <2>1, <3>1, RequestPreserved
    <3>3. OneOwner'
      BY <3>1 DEF OneOwner
    <3>4. TypeOK'
      BY <1>10, <3>1, <3>2 DEF OwnershipInvariant, TypeOK, DeleteGroup, history, Roles
    <3> QED BY <3>2, <3>3, <3>4 DEF OwnershipInvariant
  <2>3. CASE ~Live
    <3>1. UNCHANGED <<group, role, muted, conversation, settled, arrived>>
      BY <1>10, <2>3 DEF DeleteGroup, tables, history
    <3> QED BY <1>1, <1>2, <1>4, <2>1, <3>1, MembersStep
  <2> QED BY <2>2, <2>3
<1> QED BY <1>5, <1>6, <1>7, <1>8, <1>9, <1>10

-----------------------------------------------------------------------------
\* The invariant holds initially.
LEMMA InitEstablishes == Init => OwnershipInvariant
<1> SUFFICES ASSUME Init PROVE OwnershipInvariant
  OBVIOUS
<1>1. request \in [Pumps -> RequestRecord] /\ \A p \in Pumps : request[p] = Idle
  BY DefaultsType DEF Init
<1>2. group \in GroupRows
  <2>1. NoSettings.name \in Names
    BY DefaultsType DEF Settings
  <2> QED BY <2>1 DEF Init, GroupRows, Phases
<1>3. TypeOK
  <2>1. role \in [Users -> Roles] /\ muted \in [Users -> BOOLEAN]
    BY DEF Init, Roles
  <2>2. conversation \in Projections \cup {NoConversation}
    BY DEF Init
  <2>4. settled \in BOOLEAN
    <3>1. settled = FALSE
      BY Zenon DEF Init
    <3> QED BY <3>1
  <2>3. arrived \in 0..MaxRequests
    <3>1. arrived = 0
      BY Zenon DEF Init
    <3> QED BY <3>1, GroupAssumption
  <2> QED BY <1>1, <1>2, <2>1, <2>2, <2>3, <2>4 DEF TypeOK
<1>4. OneOwner
  BY DEF Init, OneOwner
<1>5. Members = {}
  BY DEF Init, Members
<1>6. CreationIsExclusive
  BY <1>1, <1>5 DEF CreationIsExclusive, Idle, Creating
<1>7. TransferTarget
  BY <1>1 DEF TransferTarget, Idle
<1> QED BY <1>3, <1>4, <1>6, <1>7 DEF OwnershipInvariant

\* Every step preserves it.
LEMMA NextPreserves == OwnershipInvariant /\ [Next]_vars => OwnershipInvariant'
<1> SUFFICES ASSUME OwnershipInvariant, [Next]_vars PROVE OwnershipInvariant'
  OBVIOUS
<1>1. CASE UNCHANGED vars
  BY <1>1 DEF vars, OwnershipInvariant, TypeOK, OneOwner, CreationIsExclusive, TransferTarget, Members, Live
<1>2. ASSUME NEW p \in Pumps, HandlerStep(p)
      PROVE  OwnershipInvariant'
  BY <1>2, CreationPreserves, MemberWritesPreserve, SyncPreserves, FailurePreserves, GroupWritesPreserve
     DEF HandlerStep
<1>3. ASSUME NEW p \in Pumps, NEW u \in Users, Arrival(p, u)
      PROVE  OwnershipInvariant'
  BY <1>3, ArrivalPreserves
<1> QED BY <1>1, <1>2, <1>3 DEF Next

\* However group requests interleave and store calls fail, the tables keep
\* their types and group_members never shows an owner other than
\* groups.owner_id.
THEOREM GroupHasOneOwner == Spec => [](TypeOK /\ OneOwner)
<1>1. OwnershipInvariant => TypeOK /\ OneOwner
  BY DEF OwnershipInvariant
<1> QED BY <1>1, InitEstablishes, NextPreserves, PTL DEF Spec

\* A step that changes the owner of a live group is a transfer, or the undoing
\* of one, between its requester and the member it names.
LEMMA OwnerChangesByTransfer ==
  ASSUME OwnershipInvariant, NEW p \in Pumps,
         HandlerStep(p) \/ \E u \in Users : Arrival(p, u),
         Live, Live', group'.owner # group.owner
  PROVE  /\ request[p].op = "transfer"
         /\ {group.owner, group'.owner} = {request[p].actor} \cup request[p].targets
<1>1. CASE \E u \in Users : Arrival(p, u)
  <2>1. group' = group
    BY <1>1 DEF Arrival, CreateGroup, GroupInvite, JoinGroup, LeaveGroup, DismissGroup, GroupKick,
               TransferGroup, GroupBan, SetGroupAdmin, UpdateGroup, GroupMuteAll, Begin, tables
  <2> QED BY <2>1
<1>2. CASE WriteTransfer(p) \/ UndoTransfer(p)
  <2>1. request[p].op = "transfer"
    BY <1>2 DEF WriteTransfer, UndoTransfer, At
  <2>2. PICK t \in Users : request[p].targets = {t}
    BY <2>1 DEF OwnershipInvariant, TransferTarget
  <2>3. Target(p) = t
    BY <2>2 DEF Target
  <2>4. group \in GroupRows
    BY DEF OwnershipInvariant, TypeOK
  <2>5. CASE WriteTransfer(p)
    <3>1. CanTransfer(request[p].actor, t) /\ TransferOwnership(request[p].actor, t)
      BY <2>3, <2>5 DEF WriteTransfer
    <3>2. group.owner = request[p].actor /\ group'.owner = t
      BY <2>4, <3>1 DEF CanTransfer, TransferOwnership, GroupRows
    <3> QED BY <2>1, <2>2, <3>2
  <2>6. CASE UndoTransfer(p)
    <3>1. CanTransfer(t, request[p].actor) /\ TransferOwnership(t, request[p].actor)
      BY <2>3, <2>6 DEF UndoTransfer
    <3>2. group.owner = t /\ group'.owner = request[p].actor
      BY <2>4, <3>1 DEF CanTransfer, TransferOwnership, GroupRows
    <3> QED BY <2>1, <2>2, <3>2
  <2> QED BY <1>2, <2>5, <2>6
<1>3. CASE WriteUpdate(p) \/ WriteMuteAll(p) \/ UndoUpdate(p)
  <2>1. group' = group \/ \E x : SetSettings(x)
    BY <1>3 DEF WriteUpdate, WriteMuteAll, UndoUpdate
  <2>2. group'.owner = group.owner
    BY <2>1 DEF SetSettings, OwnershipInvariant, TypeOK, GroupRows
  <2> QED BY <2>2
<1>4. CASE InsertGroup(p)
  BY <1>4 DEF InsertGroup, OwnershipInvariant, CreationIsExclusive, Live
<1>5. CASE DeleteGroup(p)
  BY <1>5 DEF DeleteGroup, OwnershipInvariant, TypeOK, GroupRows, Live
<1>6. CASE \/ InsertOwner(p) \/ RemoveMember(p) \/ WriteMute(p) \/ WriteRole(p)
           \/ \E u \in Users : AddMember(p, u) \/ UndoAdd(p, u)
           \/ ReadMembership(p) \/ SaveConversation(p) \/ UndoRemove(p)
           \/ StoreFails(p) \/ UndoFails(p)
  <2>1. group' = group
    BY <1>6 DEF InsertOwner, RemoveMember, WriteMute, WriteRole, AddMember, UndoAdd,
               ReadMembership, SaveConversation, UndoRemove, StoreFails, UndoFails, tables
  <2> QED BY <2>1
<1> QED BY <1>1, <1>2, <1>3, <1>4, <1>5, <1>6 DEF HandlerStep

\* Concurrent transfers and their rollbacks never take a group from an owner
\* who did not give it away.
THEOREM OwnershipNeverTaken == Spec => OwnershipIsHandedOver
<1>1. ASSUME OwnershipInvariant, [Next]_vars
      PROVE  [Live /\ Live' /\ group'.owner # group.owner =>
                 \E p \in Pumps : /\ request[p].op = "transfer"
                                  /\ {group.owner, group'.owner}
                                        = {request[p].actor} \cup request[p].targets]_vars
  <2>1. CASE UNCHANGED vars
    BY <2>1
  <2>2. CASE Next
    <3>1. PICK p \in Pumps : HandlerStep(p) \/ \E u \in Users : Arrival(p, u)
      BY <2>2 DEF Next
    <3> QED BY <1>1, <3>1, OwnerChangesByTransfer
  <2> QED BY <1>1, <2>1, <2>2
<1> QED BY <1>1, InitEstablishes, NextPreserves, PTL DEF Spec, OwnershipIsHandedOver

-----------------------------------------------------------------------------
(* Self-repair: the inductive invariant *)

Busy(p) == request[p].pc # "idle"

\* What was read is what is there.
Fresh(r) == Live /\ r.read = Projection

\* A request that is alone has the tables to itself.
AloneInv ==
    \A p \in Pumps : Busy(p) /\ request[p].alone =>
        /\ \A q \in Pumps \ {p} : ~Busy(q)
        /\ request[p].pc \in {"save", "resave"} => Fresh(request[p])

\* What UndisturbedSyncAligns says of a quiet state, and that a live group has
\* its owner among the members, which a rollback of a transfer relies on.
AlignedNow ==
    IF Live THEN conversation = Projection /\ group.owner \in Members
            ELSE conversation = NoConversation /\ Members = {}

SameRow == group.owner = conversation.owner /\ group.name = conversation.title

\* invite and join: the members are the participants and those it has added.
AddUnderway(r) ==
    /\ r.pc \in {"add", "sync", "save", "undo"} /\ SameRow
    /\ Members = conversation.participants \cup r.added /\ r.added \cap conversation.participants = {}
    /\ r.pc = "add" /\ r.op = "invite" => r.targets \cap Members = {}
    /\ r.pc = "add" /\ r.op = "join" => r.added = {} /\ \E t \in Users : r.targets = {t}
    /\ r.pc = "undo" => r.added # {}
    /\ r.pc # "add" /\ r.op = "join" => r.added # {}

\* leave and kick: the members are the participants without the one who goes.
RemoveUnderway(r) ==
    /\ r.pc \in {"remove", "sync", "save", "undo"} /\ SameRow /\ r.added = {}
    /\ \E t \in Users :
          /\ r.targets = {t} /\ t # group.owner
          /\ Members = IF r.pc = "remove" THEN conversation.participants ELSE conversation.participants \ {t}
          /\ r.pc # "remove" => t \in conversation.participants

\* update: the name that was read is the title.
UpdateUnderway(r) ==
    /\ r.pc \in {"write", "sync", "save", "undo"} /\ r.added = {}
    /\ group.owner = conversation.owner /\ Members = conversation.participants
    /\ r.old.name = conversation.title
    /\ r.pc = "write" => group.name = conversation.title

\* transfer: the conversation's owner gave the group away and can have it back.
TransferUnderway(r) ==
    /\ r.pc \in {"write", "sync", "save", "undo"} /\ r.added = {}
    /\ Members = conversation.participants /\ group.name = conversation.title
    /\ conversation.owner = r.actor
    /\ \E t \in Users :
          /\ r.targets = {t} /\ t # r.actor
          /\ IF r.pc = "write" THEN group.owner = r.actor
             ELSE group.owner = t /\ role[t] # "" /\ role[r.actor] \in {"member", "admin"}

\* The requests that write once: nothing has happened yet.
WriteUnderway(r) ==
    /\ r.pc = "write" /\ conversation = Projection
    /\ r.op = "mute_all" => r.new.name = group.name

Stage(r) ==
    /\ conversation \in Projections /\ conversation.owner \in conversation.participants
    /\ \/ r.op \in {"invite", "join"} /\ AddUnderway(r)
       \/ r.op \in {"leave", "kick"} /\ RemoveUnderway(r)
       \/ r.op = "update" /\ UpdateUnderway(r)
       \/ r.op = "transfer" /\ TransferUnderway(r)
       \/ r.op \in {"ban", "set_admin", "mute_all", "dismiss"} /\ WriteUnderway(r)

\* A request that began with an aligned conversation and met no other one.
UnderWay(r) ==
    /\ Live /\ r.alone
    /\ r.pc \in {"undo", "resync", "resave"} => r.failed
    /\ (r.pc \in {"resync", "resave"} /\ group.owner \in Members) \/ Stage(r)

\* Since the conversation was settled it is aligned, or one request is on its
\* way from an aligned conversation and knows its way back.
SettledInv ==
    settled => /\ group.phase # "unborn"
               /\ \A p \in Pumps : Busy(p) => UnderWay(request[p])
               /\ Quiet => AlignedNow

SyncInv == OwnershipInvariant /\ AloneInv /\ SettledInv

\* How a request that was under way goes on.
Outcome(r) == IF r.pc = "idle" THEN AlignedNow ELSE UnderWay(r)

\* The step of p leaves it with the request r.
Carries(p, r) ==
    /\ request' = [request EXCEPT ![p] = r] /\ r \in RequestRecord
    /\ r.pc # "idle" => r.alone = request[p].alone
    /\ r.pc \in {"save", "resave"} => Fresh(r)'

\* A handler's step takes the request to a record, and on from where it was.
GoesOn(p) ==
    \E r : /\ Carries(p, r)
           /\ UnderWay(request[p]) /\ (request[p].pc \in {"save", "resave"} => Fresh(request[p])) => Outcome(r)'

-----------------------------------------------------------------------------
(* Self-repair: lemmas *)

LEMMA IdleIs == Idle \in RequestRecord /\ Idle.pc = "idle" /\ Idle.added = {}
  BY DefaultsType DEF Idle

\* A record with another program counter.
LEMMA PcMove ==
  ASSUME NEW q \in RequestRecord, NEW pc \in Steps
  PROVE  \E r \in RequestRecord :
            /\ r = [q EXCEPT !.pc = pc] /\ r.pc = pc /\ r.op = q.op /\ r.actor = q.actor /\ r.targets = q.targets
            /\ r.added = q.added /\ r.old = q.old /\ r.new = q.new /\ r.read = q.read
            /\ r.alone = q.alone /\ r.failed = q.failed
<1>1. [q EXCEPT !.pc = pc] \in RequestRecord
  BY DEF RequestRecord
<1> QED BY <1>1 DEF RequestRecord

LEMMA FailedIs ==
  ASSUME NEW q \in RequestRecord
  PROVE  /\ Failed(q) \in RequestRecord /\ Failed(q).pc = q.pc /\ Failed(q).op = q.op /\ Failed(q).actor = q.actor
         /\ Failed(q).targets = q.targets /\ Failed(q).added = q.added /\ Failed(q).old = q.old /\ Failed(q).new = q.new
         /\ Failed(q).alone = q.alone /\ Failed(q).failed = TRUE
  BY DEF Failed, RequestRecord

\* The members after a change of one row.
LEMMA MembersAfter ==
  ASSUME role \in [Users -> Roles], NEW u \in Users, NEW x \in Roles, role' = [role EXCEPT ![u] = x]
  PROVE  Members' = IF x = "" THEN Members \ {u} ELSE Members \cup {u}
<1>1. role'[u] = x /\ \A v \in Users \ {u} : role'[v] = role[v]
  OBVIOUS
<1> QED BY <1>1 DEF Members

\* The conversation that has the row and the members of the group is aligned.
LEMMA AlignedBy ==
  ASSUME conversation \in Projections, group.owner = conversation.owner, group.name = conversation.title,
         Members = conversation.participants
  PROVE  conversation = Projection
  BY DEF Projections, Projection

LEMMA AlignedFields ==
  ASSUME TypeOK, conversation = Projection
  PROVE  /\ conversation \in Projections /\ SameRow /\ Members = conversation.participants
         /\ conversation.owner = group.owner /\ conversation.title = group.name
<1>1. group.owner \in Users \cup {None} /\ group.name \in Names /\ Members \in SUBSET Users
  BY DEF TypeOK, GroupRows, Members
<1> QED BY <1>1 DEF Projection, Projections, SameRow

\* A step that leaves the tables alone leaves all this alone.
LEMMA TablesKeep ==
  ASSUME UNCHANGED <<group, role, conversation>>
  PROVE  /\ AlignedNow' <=> AlignedNow
         /\ Live' <=> Live
         /\ Projection' = Projection
         /\ \A r : UnderWay(r)' <=> UnderWay(r)
<1>1. (Live' <=> Live) /\ Members' = Members /\ Projection' = Projection
  BY DEF Live, Members, Projection
<1>2. AlignedNow' <=> AlignedNow
  BY <1>1 DEF AlignedNow
<1>3. ASSUME NEW r PROVE UnderWay(r)' <=> UnderWay(r)
  <2>1. /\ AddUnderway(r)' <=> AddUnderway(r)
        /\ RemoveUnderway(r)' <=> RemoveUnderway(r)
        /\ UpdateUnderway(r)' <=> UpdateUnderway(r)
        /\ TransferUnderway(r)' <=> TransferUnderway(r)
        /\ WriteUnderway(r)' <=> WriteUnderway(r)
    BY <1>1 DEF AddUnderway, RemoveUnderway, UpdateUnderway, TransferUnderway, WriteUnderway, SameRow
  <2>2. Stage(r)' <=> Stage(r)
    BY <2>1 DEF Stage
  <2> QED BY <1>1, <2>2 DEF UnderWay
<1> QED BY <1>1, <1>2, <1>3

\* The stage that a program counter and an operation tell.
LEMMA StageOf ==
  ASSUME NEW r, UnderWay(r), r.pc \notin {"resync", "resave"}
  PROVE  /\ conversation \in Projections /\ conversation.owner \in conversation.participants /\ Live /\ r.alone
         /\ r.op \in {"invite", "join"} => AddUnderway(r)
         /\ r.op \in {"leave", "kick"} => RemoveUnderway(r)
         /\ r.op = "update" => UpdateUnderway(r)
         /\ r.op = "transfer" => TransferUnderway(r)
         /\ r.op \in {"ban", "set_admin", "mute_all", "dismiss"} => WriteUnderway(r)
         /\ r.op \in {"invite", "join", "leave", "kick", "update", "transfer", "ban", "set_admin", "mute_all", "dismiss"}
  BY DEF UnderWay, Stage

\* Whatever is under way has the owner among the members when it syncs.
LEMMA OwnerStays ==
  ASSUME NEW r, UnderWay(r), r.pc \in {"sync", "save", "resync", "resave"}
  PROVE  group.owner \in Members
<1>1. CASE r.pc \in {"resync", "resave"}
  BY <1>1 DEF UnderWay, Stage, AddUnderway, RemoveUnderway, UpdateUnderway, TransferUnderway, WriteUnderway
<1>2. CASE r.pc \in {"sync", "save"}
  <2>1. Stage(r) /\ conversation.owner \in conversation.participants
    BY <1>2 DEF UnderWay, Stage
  <2>2. CASE AddUnderway(r)
    BY <2>1, <2>2 DEF AddUnderway, SameRow
  <2>3. CASE RemoveUnderway(r)
    BY <1>2, <2>1, <2>3 DEF RemoveUnderway, SameRow
  <2>4. CASE UpdateUnderway(r)
    BY <2>1, <2>4 DEF UpdateUnderway
  <2>5. CASE TransferUnderway(r)
    BY <1>2, <2>1, <2>5 DEF TransferUnderway, Members
  <2>6. CASE WriteUnderway(r)
    BY <1>2, <2>6 DEF WriteUnderway
  <2> QED BY <2>1, <2>2, <2>3, <2>4, <2>5, <2>6 DEF Stage
<1> QED BY <1>1, <1>2

-----------------------------------------------------------------------------
(* Self-repair: one lemma per handler step *)

\* The step ends the request, with the conversation aligned.
LEMMA Ends ==
  ASSUME NEW p, Finish(p), UnderWay(request[p]) /\ (request[p].pc \in {"save", "resave"} => Fresh(request[p])) => AlignedNow'
  PROVE  GoesOn(p)
<1>1. Carries(p, Idle)
  BY IdleIs DEF Carries, Finish
<1> QED BY <1>1, IdleIs DEF GoesOn, Outcome

LEMMA CreationGoesOn ==
  ASSUME OwnershipInvariant, NEW p \in Pumps, InsertGroup(p) \/ InsertOwner(p)
  PROVE  GoesOn(p)
<1>0. request[p] \in RequestRecord /\ request[p].pc \in Creating
  BY DEF OwnershipInvariant, TypeOK, InsertGroup, InsertOwner, Creating
<1>1. ~UnderWay(request[p])
  BY <1>0 DEF UnderWay, Stage, AddUnderway, RemoveUnderway, UpdateUnderway, TransferUnderway, WriteUnderway, Creating
<1>2. PICK x \in {"sync", "add"} : x = IF request[p].targets = {} THEN "sync" ELSE "add"
  OBVIOUS
<1>3. PICK pc \in {"insert_owner", "sync", "add"} : Goto(p, pc) \/ Finish(p)
  BY <1>2 DEF InsertGroup, InsertOwner
<1>4. CASE Finish(p)
  BY <1>1, <1>4, Ends
<1>5. CASE Goto(p, pc)
  <2>1. PICK r \in RequestRecord : r = [request[p] EXCEPT !.pc = pc] /\ r.pc = pc /\ r.alone = request[p].alone
    <3>1. pc \in Steps
      BY DEF Steps
    <3> QED BY <1>0, <3>1, PcMove
  <2>2. request' = [request EXCEPT ![p] = r]
    BY <1>5, <2>1 DEF Goto
  <2>3. Carries(p, r)
    BY <2>1, <2>2 DEF Carries
  <2> QED BY <1>1, <2>3 DEF GoesOn
<1> QED BY <1>3, <1>4, <1>5

LEMMA AddGoesOn ==
  ASSUME OwnershipInvariant, NEW p \in Pumps, NEW u \in Users, AddMember(p, u)
  PROVE  GoesOn(p)
<1>0. /\ request[p] \in RequestRecord /\ role \in [Users -> Roles] /\ request[p].pc = "add" /\ u \in request[p].targets
      /\ UNCHANGED <<group, conversation>>
  BY DEF OwnershipInvariant, TypeOK, AddMember
<1>1. PICK q \in RequestRecord : q = request[p]
  BY <1>0
<1>2. ASSUME UnderWay(q)
      PROVE  /\ conversation \in Projections /\ conversation.owner \in conversation.participants /\ Live /\ q.alone
             /\ q.op \in {"invite", "join"} /\ AddUnderway(q)
  <2>1. q.pc = "add"
    BY <1>0, <1>1
  <2> QED BY <1>2, <2>1, StageOf DEF RemoveUnderway, UpdateUnderway, TransferUnderway, WriteUnderway
<1>3. CASE role[u] = ""
  <2>1. PICK pc \in {"sync", "add"} : pc = IF q.targets = {u} THEN "sync" ELSE "add"
    OBVIOUS
  <2>2. PICK r : r = [q EXCEPT !.added = q.added \cup {u}, !.targets = q.targets \ {u}, !.pc = pc]
    OBVIOUS
  <2>3. /\ r \in RequestRecord /\ r.pc = pc /\ r.op = q.op /\ r.alone = q.alone /\ r.failed = q.failed
        /\ r.added = q.added \cup {u} /\ r.targets = q.targets \ {u}
    BY <2>2 DEF RequestRecord, Steps
  <2>4. request' = [request EXCEPT ![p] = r]
    BY <1>0, <1>1, <1>3, <2>1, <2>2 DEF AddMember
  <2>5. Carries(p, r)
    BY <1>1, <2>1, <2>3, <2>4 DEF Carries
  <2>6. ASSUME UnderWay(q) PROVE UnderWay(r)'
    <3>1. Members' = Members \cup {u} /\ u \notin Members
      <4>1. role' = [role EXCEPT ![u] = "member"] /\ "member" \in Roles
        BY <1>3 DEF AddMember, Roles
      <4> QED BY <1>0, <1>3, <4>1, MembersAfter DEF Members
    <3>2. AddUnderway(q) /\ q.op \in {"invite", "join"} /\ q.pc = "add" /\ q.alone /\ Live
      BY <1>0, <1>1, <1>2, <2>6
    <3>3. conversation' = conversation /\ SameRow' /\ Live'
      BY <1>0, <3>2 DEF AddUnderway, SameRow, Live
    <3>4. /\ Members' = conversation.participants \cup r.added /\ r.added \cap conversation.participants = {}
      BY <2>3, <3>1, <3>2 DEF AddUnderway
    <3>5. r.op = "invite" => r.targets \cap Members' = {}
      BY <2>3, <3>1, <3>2 DEF AddUnderway
    <3>6. r.op = "join" => pc = "sync"
      BY <1>0, <1>1, <2>1, <2>3, <3>2 DEF AddUnderway
    <3>7. AddUnderway(r)'
      BY <2>1, <2>3, <3>3, <3>4, <3>5, <3>6 DEF AddUnderway
    <3>8. Stage(r)'
      BY <1>2, <2>3, <2>6, <3>2, <3>3, <3>7 DEF Stage
    <3> QED BY <2>1, <2>3, <3>2, <3>3, <3>8 DEF UnderWay
  <2>7. r.pc # "idle"
    BY <2>3
  <2> QED BY <1>1, <2>5, <2>6, <2>7 DEF GoesOn, Outcome
<1>4. CASE role[u] # ""
  <2>1. UNCHANGED <<group, role, conversation>> /\ u \in Members
    BY <1>0, <1>4 DEF AddMember, Members
  <2>2. CASE q.added = {}
    <3>1. Finish(p)
      BY <1>1, <1>4, <2>2 DEF AddMember
    <3>2. ASSUME UnderWay(q) PROVE AlignedNow'
      <4>1. AddUnderway(q) /\ Live /\ conversation \in Projections /\ conversation.owner \in conversation.participants
        BY <1>2, <3>2
      <4>2. conversation = Projection /\ group.owner \in Members
        BY <2>2, <4>1, AlignedBy DEF AddUnderway, SameRow
      <4> QED BY <2>1, <4>1, <4>2, TablesKeep DEF AlignedNow
    <3> QED BY <1>1, <3>1, <3>2, Ends
  <2>3. CASE q.added # {}
    <3>1. Goto(p, "undo")
      BY <1>1, <1>4, <2>3 DEF AddMember
    <3>2. ~UnderWay(q)
      <4> SUFFICES ASSUME UnderWay(q) PROVE FALSE
        OBVIOUS
      <4>1. AddUnderway(q) /\ q.op \in {"invite", "join"} /\ q.pc = "add" /\ u \in q.targets
        BY <1>0, <1>1, <1>2
      <4> QED BY <2>1, <2>3, <4>1 DEF AddUnderway
    <3>3. PICK r \in RequestRecord : r = [q EXCEPT !.pc = "undo"] /\ r.pc = "undo" /\ r.alone = q.alone
      <4>1. "undo" \in Steps
        BY DEF Steps
      <4> QED BY <4>1, PcMove
    <3>4. Carries(p, r)
      BY <1>1, <3>1, <3>3 DEF Carries, Goto
    <3> QED BY <1>1, <3>2, <3>4 DEF GoesOn
  <2> QED BY <2>2, <2>3
<1> QED BY <1>3, <1>4

LEMMA UndoAddGoesOn ==
  ASSUME OwnershipInvariant, NEW p \in Pumps, NEW u \in Users, UndoAdd(p, u)
  PROVE  GoesOn(p)
<1>0. /\ request[p] \in RequestRecord /\ role \in [Users -> Roles] /\ request[p].pc = "undo" /\ u \in request[p].added
      /\ UNCHANGED <<group, conversation>> /\ role' = [role EXCEPT ![u] = ""]
      /\ request' = [request EXCEPT ![p] = AfterUndoAdd(request[p], u)]
  BY DEF OwnershipInvariant, TypeOK, UndoAdd
<1>1. PICK q \in RequestRecord : q = request[p]
  BY <1>0
<1>2. Members' = Members \ {u}
  BY <1>0, MembersAfter DEF Roles
<1>3. ASSUME UnderWay(q)
      PROVE  /\ conversation \in Projections /\ conversation.owner \in conversation.participants /\ Live /\ q.alone /\ q.failed
             /\ q.op \in {"invite", "join"} /\ SameRow /\ Members = conversation.participants \cup q.added
             /\ q.added \cap conversation.participants = {}
  <2>1. q.pc = "undo" /\ q.added # {}
    BY <1>0, <1>1
  <2>2. q.failed
    BY <1>3, <2>1 DEF UnderWay
  <2> QED BY <1>3, <2>1, <2>2, StageOf DEF AddUnderway, RemoveUnderway, UpdateUnderway, TransferUnderway, WriteUnderway
<1>4. CASE q.added # {u}
  <2>1. PICK r : r = [q EXCEPT !.added = q.added \ {u}]
    OBVIOUS
  <2>2. /\ r \in RequestRecord /\ r.pc = "undo" /\ r.op = q.op /\ r.alone = q.alone /\ r.failed = q.failed
        /\ r.added = q.added \ {u}
    BY <1>0, <1>1, <2>1 DEF RequestRecord
  <2>3. request' = [request EXCEPT ![p] = r]
    BY <1>0, <1>1, <1>4, <2>1 DEF AfterUndoAdd
  <2>4. Carries(p, r)
    BY <1>1, <2>2, <2>3 DEF Carries
  <2>5. ASSUME UnderWay(q) PROVE UnderWay(r)'
    <3>1. Live' /\ SameRow' /\ conversation' = conversation
      BY <1>0, <1>3, <2>5 DEF Live, SameRow
    <3>2. /\ Members' = conversation.participants \cup r.added /\ r.added \cap conversation.participants = {} /\ r.added # {}
      BY <1>0, <1>1, <1>2, <1>3, <1>4, <2>2, <2>5
    <3>3. AddUnderway(r)'
      BY <2>2, <3>1, <3>2 DEF AddUnderway
    <3> QED BY <1>3, <2>2, <2>5, <3>1, <3>3 DEF UnderWay, Stage
  <2>6. Outcome(r)' <=> UnderWay(r)'
    BY <2>2 DEF Outcome
  <2> QED BY <1>1, <2>4, <2>5, <2>6 DEF GoesOn
<1>5. CASE q.added = {u} /\ q.op = "invite" /\ q.targets = {}
  <2>1. PICK r \in RequestRecord : /\ r = [q EXCEPT !.pc = "resync"] /\ r.pc = "resync" /\ r.alone = q.alone
                                   /\ r.failed = q.failed
    <3>1. "resync" \in Steps
      BY DEF Steps
    <3> QED BY <3>1, PcMove
  <2>2. request' = [request EXCEPT ![p] = r]
    BY <1>0, <1>1, <1>5, <2>1 DEF AfterUndoAdd
  <2>3. Carries(p, r)
    BY <1>1, <2>1, <2>2 DEF Carries
  <2>4. ASSUME UnderWay(q) PROVE UnderWay(r)'
    <3>1. Live' /\ group'.owner \in Members'
      BY <1>0, <1>1, <1>2, <1>3, <2>4 DEF Live, SameRow
    <3> QED BY <1>3, <2>1, <2>4, <3>1 DEF UnderWay
  <2>5. Outcome(r)' <=> UnderWay(r)'
    BY <2>1 DEF Outcome
  <2> QED BY <1>1, <2>3, <2>4, <2>5 DEF GoesOn
<1>6. CASE q.added = {u} /\ ~(q.op = "invite" /\ q.targets = {})
  <2>1. Finish(p)
    BY <1>0, <1>1, <1>6 DEF AfterUndoAdd, Finish
  <2>2. ASSUME UnderWay(q) PROVE AlignedNow'
    <3>1. Live' /\ Members' = conversation.participants /\ group' = group /\ conversation' = conversation
      BY <1>0, <1>2, <1>3, <1>6, <2>2 DEF Live
    <3>2. conversation' = Projection'
      BY <1>3, <2>2, <3>1 DEF Projection, Projections, SameRow
    <3>3. group'.owner \in Members'
      BY <1>3, <2>2, <3>1 DEF SameRow
    <3> QED BY <3>1, <3>2, <3>3 DEF AlignedNow
  <2> QED BY <1>1, <2>1, <2>2, Ends
<1> QED BY <1>4, <1>5, <1>6

LEMMA RemoveGoesOn ==
  ASSUME OwnershipInvariant, NEW p \in Pumps, RemoveMember(p)
  PROVE  GoesOn(p)
<1>0. /\ request[p] \in RequestRecord /\ role \in [Users -> Roles] /\ request[p].pc = "remove"
      /\ UNCHANGED <<group, conversation>> /\ role' = [role EXCEPT ![Target(p)] = ""]
      /\ IF role[Target(p)] = "" THEN Finish(p) ELSE Goto(p, "sync")
  BY DEF OwnershipInvariant, TypeOK, RemoveMember
<1>1. PICK q \in RequestRecord : q = request[p]
  BY <1>0
<1>2. ASSUME UnderWay(q)
      PROVE  /\ conversation \in Projections /\ conversation.owner \in conversation.participants /\ Live /\ q.alone
             /\ q.op \in {"leave", "kick"} /\ SameRow /\ q.added = {} /\ Members = conversation.participants
             /\ \E t \in Users : q.targets = {t} /\ t # group.owner /\ Target(p) = t
  <2>1. q.pc = "remove"
    BY <1>0, <1>1
  <2>2. RemoveUnderway(q) /\ q.op \in {"leave", "kick"}
    BY <1>2, <2>1, StageOf DEF AddUnderway, UpdateUnderway, TransferUnderway, WriteUnderway
  <2>3. PICK t \in Users : q.targets = {t} /\ t # group.owner
    BY <2>2 DEF RemoveUnderway
  <2>4. Target(p) = t
    BY <1>1, <2>3 DEF Target
  <2> QED BY <1>2, <2>1, <2>2, <2>3, <2>4, StageOf DEF RemoveUnderway
<1>3. ASSUME UnderWay(q) PROVE Members' = Members \ {Target(p)} /\ Target(p) \in Users
  <2>1. Target(p) \in Users
    BY <1>2, <1>3
  <2> QED BY <1>0, <2>1, MembersAfter DEF Roles
<1>4. CASE role[Target(p)] = ""
  <2>1. Finish(p)
    BY <1>0, <1>4
  <2>2. ASSUME UnderWay(q) PROVE AlignedNow'
    <3>1. Members' = Members /\ group' = group /\ conversation' = conversation /\ Live'
      BY <1>0, <1>2, <1>3, <1>4, <2>2 DEF Members, Live
    <3>2. conversation = Projection /\ group.owner \in Members
      BY <1>2, <2>2, AlignedBy DEF SameRow
    <3> QED BY <3>1, <3>2 DEF AlignedNow, Projection
  <2> QED BY <1>1, <2>1, <2>2, Ends
<1>5. CASE role[Target(p)] # ""
  <2>1. PICK r \in RequestRecord : /\ r = [q EXCEPT !.pc = "sync"] /\ r.pc = "sync" /\ r.op = q.op /\ r.targets = q.targets
                                   /\ r.added = q.added /\ r.alone = q.alone /\ r.failed = q.failed
    <3>1. "sync" \in Steps
      BY DEF Steps
    <3> QED BY <3>1, PcMove
  <2>2. Carries(p, r)
    BY <1>0, <1>1, <1>5, <2>1 DEF Carries, Goto
  <2>3. ASSUME UnderWay(q) PROVE UnderWay(r)'
    <3>1. PICK t \in Users : q.targets = {t} /\ t # group.owner /\ Target(p) = t
      BY <1>2, <2>3
    <3>2. t \in Members
      BY <1>5, <3>1 DEF Members
    <3>3. Members' = conversation.participants \ {t} /\ t \in conversation.participants
      BY <1>2, <1>3, <2>3, <3>1, <3>2
    <3>4. Live' /\ SameRow' /\ conversation' = conversation /\ group' = group
      BY <1>0, <1>2, <2>3 DEF Live, SameRow
    <3>5. RemoveUnderway(r)'
      <4>1. r.targets = {t} /\ t # group.owner /\ r.added = {}
        BY <1>2, <2>1, <2>3, <3>1
      <4> QED BY <2>1, <3>3, <3>4, <4>1 DEF RemoveUnderway
    <3> QED BY <1>2, <2>1, <2>3, <3>4, <3>5 DEF UnderWay, Stage
  <2>4. Outcome(r)' <=> UnderWay(r)'
    BY <2>1 DEF Outcome
  <2> QED BY <1>1, <2>2, <2>3, <2>4 DEF GoesOn
<1> QED BY <1>4, <1>5

LEMMA UndoRemoveGoesOn ==
  ASSUME OwnershipInvariant, NEW p \in Pumps, UndoRemove(p)
  PROVE  GoesOn(p)
<1>0. /\ request[p] \in RequestRecord /\ role \in [Users -> Roles] /\ request[p].pc = "undo"
      /\ request[p].op \in {"leave", "kick"} /\ UNCHANGED <<group, conversation>> /\ Goto(p, "resync")
      /\ role' = IF role[Target(p)] = "" THEN [role EXCEPT ![Target(p)] = "member"] ELSE role
  BY DEF OwnershipInvariant, TypeOK, UndoRemove
<1>1. PICK q \in RequestRecord : q = request[p]
  BY <1>0
<1>2. PICK r \in RequestRecord : /\ r = [q EXCEPT !.pc = "resync"] /\ r.pc = "resync" /\ r.alone = q.alone /\ r.failed = q.failed
  <2>1. "resync" \in Steps
    BY DEF Steps
  <2> QED BY <2>1, PcMove
<1>3. Carries(p, r)
  BY <1>0, <1>1, <1>2 DEF Carries, Goto
<1>4. ASSUME UnderWay(q) PROVE UnderWay(r)'
  <2>1. /\ RemoveUnderway(q) /\ Live /\ q.alone /\ q.failed /\ q.pc = "undo"
        /\ conversation \in Projections /\ conversation.owner \in conversation.participants
    <3>1. q.pc = "undo" /\ q.op \in {"leave", "kick"}
      BY <1>0, <1>1
    <3>2. q.failed
      BY <1>4, <3>1 DEF UnderWay
    <3> QED BY <1>4, <3>1, <3>2, StageOf
  <2>2. group.owner \in Members
    BY <2>1 DEF RemoveUnderway, SameRow
  <2>3. \A v \in Members : role'[v] # ""
    BY <1>0 DEF Members
  <2>4. Live' /\ group'.owner \in Members'
    BY <1>0, <2>1, <2>2, <2>3 DEF Live, Members
  <2> QED BY <1>2, <2>1, <2>4 DEF UnderWay
<1>5. Outcome(r)' <=> UnderWay(r)'
  BY <1>2 DEF Outcome
<1> QED BY <1>1, <1>3, <1>4, <1>5 DEF GoesOn

\* The writes of handlers that do not sync.
LEMMA WriteGoesOn ==
  ASSUME OwnershipInvariant, NEW p \in Pumps, WriteMute(p) \/ WriteRole(p) \/ WriteMuteAll(p) \/ DeleteGroup(p)
  PROVE  GoesOn(p)
<1>0. /\ role \in [Users -> Roles] /\ group \in GroupRows /\ TypeOK /\ Finish(p)
      /\ request[p].op \in {"ban", "set_admin", "mute_all", "dismiss"} /\ request[p].pc = "write"
  BY DEF OwnershipInvariant, TypeOK, WriteMute, WriteRole, WriteMuteAll, DeleteGroup, At
<1> SUFFICES ASSUME UnderWay(request[p]) PROVE AlignedNow'
  BY <1>0, Ends
<1>1. /\ WriteUnderway(request[p]) /\ Live /\ conversation \in Projections
      /\ conversation.owner \in conversation.participants
  BY <1>0, StageOf
<1>2. conversation = Projection /\ group.owner \in Members
  BY <1>0, <1>1, AlignedFields DEF WriteUnderway
<1>3. CASE WriteMute(p)
  <2>1. UNCHANGED <<group, role, conversation>>
    BY <1>3 DEF WriteMute
  <2> QED BY <1>1, <1>2, <2>1, TablesKeep DEF AlignedNow
<1>4. CASE WriteRole(p)
  <2>1. \A v \in Users : role'[v] = "" <=> role[v] = ""
    BY <1>0, <1>4 DEF WriteRole
  <2>2. Members' = Members /\ group' = group /\ conversation' = conversation
    BY <1>4, <2>1 DEF WriteRole, Members
  <2> QED BY <1>1, <1>2, <2>2 DEF AlignedNow, Projection, Live
<1>5. CASE WriteMuteAll(p)
  <2>1. SetSettings(request[p].new) /\ role' = role /\ conversation' = conversation /\ request[p].op = "mute_all"
    BY <1>1, <1>5 DEF WriteMuteAll, At
  <2>2. request[p].new.name = group.name
    BY <1>1, <2>1 DEF WriteUnderway
  <2>3. group'.name = group.name /\ group'.owner = group.owner /\ group'.phase = group.phase
    BY <1>0, <2>1, <2>2 DEF SetSettings, GroupRows
  <2>4. Members' = Members
    BY <2>1 DEF Members
  <2> QED BY <1>1, <1>2, <2>1, <2>3, <2>4 DEF AlignedNow, Projection, Live
<1>6. CASE DeleteGroup(p)
  <2>1. /\ group' = [group EXCEPT !.phase = "dismissed", !.owner = None]
        /\ role' = [u \in Users |-> ""] /\ conversation' = NoConversation
    BY <1>1, <1>6 DEF DeleteGroup
  <2>2. group'.phase = "dismissed" /\ Members' = {}
    BY <1>0, <2>1 DEF GroupRows, Members
  <2> QED BY <2>1, <2>2 DEF AlignedNow, Live
<1> QED BY <1>3, <1>4, <1>5, <1>6

LEMMA UpdateGoesOn ==
  ASSUME OwnershipInvariant, NEW p \in Pumps, WriteUpdate(p) \/ UndoUpdate(p)
  PROVE  GoesOn(p)
<1>0. /\ request[p] \in RequestRecord /\ group \in GroupRows /\ request[p].op = "update"
      /\ UNCHANGED <<role, conversation>>
  BY DEF OwnershipInvariant, TypeOK, WriteUpdate, UndoUpdate, At
<1>1. PICK q \in RequestRecord : q = request[p]
  BY <1>0
<1>2. Members' = Members
  BY <1>0 DEF Members
<1>3. ASSUME UnderWay(q), q.pc \in {"write", "undo"}
      PROVE  /\ conversation \in Projections /\ conversation.owner \in conversation.participants /\ Live /\ q.alone
             /\ UpdateUnderway(q)
  BY <1>0, <1>1, <1>3, StageOf
<1>4. CASE WriteUpdate(p)
  <2>1. q.pc = "write"
    BY <1>1, <1>4 DEF WriteUpdate, At
  <2>2. CASE ~Live
    <3>1. Finish(p) /\ ~UnderWay(q)
      BY <1>4, <2>2 DEF WriteUpdate, UnderWay
    <3> QED BY <1>1, <3>1, Ends
  <2>3. CASE Live
    <3>1. SetSettings(q.new) /\ Goto(p, "sync")
      BY <1>1, <1>4, <2>3 DEF WriteUpdate
    <3>2. group'.owner = group.owner /\ group'.phase = group.phase
      BY <1>0, <3>1 DEF SetSettings, GroupRows
    <3>3. PICK r \in RequestRecord : /\ r = [q EXCEPT !.pc = "sync"] /\ r.pc = "sync" /\ r.op = q.op /\ r.old = q.old
                                     /\ r.added = q.added /\ r.alone = q.alone
      <4>1. "sync" \in Steps
        BY DEF Steps
      <4> QED BY <4>1, PcMove
    <3>4. Carries(p, r)
      BY <1>1, <3>1, <3>3 DEF Carries, Goto
    <3>5. ASSUME UnderWay(q) PROVE UnderWay(r)'
      <4>1. UpdateUnderway(r)'
        BY <1>0, <1>2, <1>3, <2>1, <3>2, <3>3, <3>5 DEF UpdateUnderway
      <4>2. Live' /\ r.op = "update"
        BY <1>0, <1>1, <2>3, <3>2, <3>3 DEF Live
      <4> QED BY <1>0, <1>3, <2>1, <3>3, <3>5, <4>1, <4>2 DEF UnderWay, Stage
    <3>6. Outcome(r)' <=> UnderWay(r)'
      BY <3>3 DEF Outcome
    <3> QED BY <1>1, <3>4, <3>5, <3>6 DEF GoesOn
  <2> QED BY <2>2, <2>3
<1>5. CASE UndoUpdate(p)
  <2>1. q.pc = "undo" /\ Finish(p)
    BY <1>1, <1>5 DEF UndoUpdate, At
  <2>2. ASSUME UnderWay(q) PROVE AlignedNow'
    <3>1. UpdateUnderway(q) /\ Live /\ conversation \in Projections /\ conversation.owner \in conversation.participants
      BY <1>3, <2>1, <2>2
    <3>2. SetSettings(q.old)
      BY <1>1, <1>5, <3>1 DEF UndoUpdate
    <3>3. group'.name = q.old.name /\ group'.owner = group.owner /\ group'.phase = group.phase
      BY <1>0, <3>2 DEF SetSettings, GroupRows
    <3>4. conversation' = Projection'
      BY <1>0, <1>2, <3>1, <3>3 DEF Projection, Projections, UpdateUnderway
    <3> QED BY <1>2, <3>1, <3>3, <3>4 DEF AlignedNow, Live, UpdateUnderway
  <2> QED BY <1>1, <2>1, <2>2, Ends
<1> QED BY <1>4, <1>5

LEMMA TransferGoesOn ==
  ASSUME OwnershipInvariant, NEW p \in Pumps, WriteTransfer(p) \/ UndoTransfer(p)
  PROVE  GoesOn(p)
<1>0. /\ request[p] \in RequestRecord /\ group \in GroupRows /\ role \in [Users -> Roles] /\ request[p].op = "transfer"
      /\ conversation' = conversation
  BY DEF OwnershipInvariant, TypeOK, WriteTransfer, UndoTransfer, At
<1>1. PICK q \in RequestRecord : q = request[p]
  BY <1>0
<1>2. PICK t \in Users : q.targets = {t}
  BY <1>0, <1>1 DEF OwnershipInvariant, TransferTarget
<1>3. Target(p) = t
  BY <1>1, <1>2 DEF Target
<1>4. ASSUME UnderWay(q), q.pc \in {"write", "undo"}
      PROVE  /\ conversation \in Projections /\ conversation.owner \in conversation.participants /\ Live /\ q.alone
             /\ TransferUnderway(q) /\ q.actor \in Members /\ t # q.actor
             /\ q.pc = "undo" => /\ group.owner = t /\ role[t] # "" /\ role[q.actor] \in {"member", "admin"}
             /\ q.pc = "write" => group.owner = q.actor
  <2>1. /\ conversation \in Projections /\ conversation.owner \in conversation.participants /\ Live /\ q.alone
        /\ TransferUnderway(q)
    BY <1>0, <1>1, <1>4, StageOf
  <2>2. PICK s \in Users :
          /\ q.targets = {s} /\ s # q.actor
          /\ IF q.pc = "write" THEN group.owner = q.actor
             ELSE group.owner = s /\ role[s] # "" /\ role[q.actor] \in {"member", "admin"}
    BY <2>1 DEF TransferUnderway
  <2>3. s = t
    BY <1>2, <2>2
  <2> QED BY <1>4, <2>1, <2>2, <2>3 DEF TransferUnderway
<1>5. ASSUME NEW from \in Users, NEW to \in Users, from # to, role[to] # "", TransferOwnership(from, to)
      PROVE  /\ Members' = Members /\ group'.owner = to /\ group'.name = group.name /\ group'.phase = group.phase
             /\ role'[to] = "owner" /\ (role[from] # "" => role'[from] = "member")
  <2>1. role' = [u \in Users |-> IF u = to THEN "owner" ELSE IF u = from /\ role[u] # "" THEN "member" ELSE role[u]]
    BY <1>5 DEF TransferOwnership
  <2>2. \A u \in Users : role'[u] # "" <=> role[u] # ""
    BY <1>5, <2>1
  <2>3. Members' = Members
    BY <2>2 DEF Members
  <2>4. role'[to] = "owner" /\ (role[from] # "" => role'[from] = "member")
    BY <1>5, <2>1
  <2>5. group'.owner = to /\ group'.name = group.name /\ group'.phase = group.phase
    BY <1>0, <1>5 DEF TransferOwnership, GroupRows
  <2> QED BY <2>3, <2>4, <2>5
<1>6. CASE WriteTransfer(p)
  <2>1. q.pc = "write"
    BY <1>1, <1>6 DEF WriteTransfer, At
  <2>2. CASE ~CanTransfer(q.actor, t)
    <3>1. Finish(p) /\ UNCHANGED <<group, role, conversation>>
      BY <1>0, <1>1, <1>3, <1>6, <2>2 DEF WriteTransfer
    <3>2. ASSUME UnderWay(q) PROVE AlignedNow'
      <4>1. /\ Live /\ conversation \in Projections /\ conversation.owner \in conversation.participants
            /\ TransferUnderway(q) /\ group.owner = q.actor
        BY <1>4, <2>1, <3>2
      <4>2. conversation = Projection /\ group.owner \in Members
        BY <4>1, AlignedBy DEF TransferUnderway
      <4> QED BY <3>1, <4>1, <4>2, TablesKeep DEF AlignedNow
    <3> QED BY <1>1, <3>1, <3>2, Ends
  <2>3. CASE CanTransfer(q.actor, t)
    <3>1. TransferOwnership(q.actor, t) /\ Goto(p, "sync")
      BY <1>1, <1>3, <1>6, <2>3 DEF WriteTransfer
    <3>2. PICK r \in RequestRecord : /\ r = [q EXCEPT !.pc = "sync"] /\ r.pc = "sync" /\ r.op = q.op /\ r.actor = q.actor
                                     /\ r.targets = q.targets /\ r.added = q.added /\ r.alone = q.alone
      <4>1. "sync" \in Steps
        BY DEF Steps
      <4> QED BY <4>1, PcMove
    <3>3. Carries(p, r)
      BY <1>1, <3>1, <3>2 DEF Carries, Goto
    <3>4. ASSUME UnderWay(q) PROVE UnderWay(r)'
      <4>1. /\ TransferUnderway(q) /\ q.actor \in Members /\ t # q.actor /\ Live /\ q.alone
            /\ conversation \in Projections /\ conversation.owner \in conversation.participants
        BY <1>4, <2>1, <3>4
      <4>2. q.actor \in Users /\ role[q.actor] # "" /\ role[t] # ""
        BY <2>3, <4>1 DEF Members, CanTransfer
      <4>3. /\ Members' = Members /\ group'.owner = t /\ group'.name = group.name /\ group'.phase = group.phase
            /\ role'[t] = "owner" /\ role'[q.actor] = "member"
        BY <1>5, <3>1, <4>1, <4>2
      <4>4. TransferUnderway(r)'
        <5>1. r.targets = {t} /\ t # r.actor /\ r.added = {} /\ r.pc = "sync" /\ r.actor = q.actor
          BY <1>2, <3>2, <4>1 DEF TransferUnderway
        <5>2. Members' = conversation'.participants /\ group'.name = conversation'.title /\ conversation'.owner = r.actor
          BY <1>0, <4>1, <4>3, <5>1 DEF TransferUnderway
        <5> QED BY <4>3, <5>1, <5>2 DEF TransferUnderway
      <4>5. Live' /\ r.op = "transfer"
        BY <1>0, <1>1, <3>2, <4>1, <4>3 DEF Live
      <4> QED BY <1>0, <3>2, <4>1, <4>4, <4>5 DEF UnderWay, Stage
    <3>5. Outcome(r)' <=> UnderWay(r)'
      BY <3>2 DEF Outcome
    <3> QED BY <1>1, <3>3, <3>4, <3>5 DEF GoesOn
  <2> QED BY <2>2, <2>3
<1>7. CASE UndoTransfer(p)
  <2>1. q.pc = "undo" /\ Finish(p)
    BY <1>1, <1>7 DEF UndoTransfer, At
  <2>2. ASSUME UnderWay(q) PROVE AlignedNow'
    <3>1. /\ TransferUnderway(q) /\ q.actor \in Members /\ t # q.actor /\ Live
          /\ conversation \in Projections /\ conversation.owner \in conversation.participants
          /\ group.owner = t /\ role[t] # "" /\ role[q.actor] \in {"member", "admin"}
      BY <1>4, <2>1, <2>2
    <3>2. TransferOwnership(t, q.actor) /\ q.actor \in Users
      BY <1>1, <1>3, <1>7, <3>1 DEF UndoTransfer, CanTransfer, Members
    <3>3. Members' = Members /\ group'.owner = q.actor /\ group'.name = group.name /\ group'.phase = group.phase
      BY <1>5, <3>1, <3>2
    <3>4. conversation' = Projection'
      BY <1>0, <3>1, <3>3 DEF Projection, Projections, TransferUnderway
    <3> QED BY <3>1, <3>3, <3>4 DEF AlignedNow, Live
  <2> QED BY <1>1, <2>1, <2>2, Ends
<1> QED BY <1>6, <1>7

\* What is under way stays so from the reads of the sync to its write.
LEMMA ReadKeepsStage ==
  ASSUME NEW q, NEW r, UnderWay(q), q.pc \in {"sync", "resync"},
         r.pc = IF q.pc = "sync" THEN "save" ELSE "resave",
         r.op = q.op, r.actor = q.actor, r.targets = q.targets, r.added = q.added, r.old = q.old, r.new = q.new,
         r.alone = q.alone, r.failed = q.failed
  PROVE  UnderWay(r)
<1>1. CASE q.pc = "resync"
  <2>1. group.owner \in Members
    BY <1>1, OwnerStays
  <2> QED BY <1>1, <2>1 DEF UnderWay
<1>2. CASE q.pc = "sync"
  <2>1. Stage(q) /\ r.pc = "save"
    BY <1>2 DEF UnderWay
  <2>2. AddUnderway(q) => AddUnderway(r)
    BY <1>2, <2>1 DEF AddUnderway
  <2>3. RemoveUnderway(q) => RemoveUnderway(r)
    BY <1>2, <2>1 DEF RemoveUnderway
  <2>4. UpdateUnderway(q) => UpdateUnderway(r)
    BY <1>2, <2>1 DEF UpdateUnderway
  <2>5. TransferUnderway(q) => TransferUnderway(r)
    BY <1>2, <2>1 DEF TransferUnderway
  <2>6. ~WriteUnderway(q)
    BY <1>2 DEF WriteUnderway
  <2>7. Stage(r)
    BY <2>1, <2>2, <2>3, <2>4, <2>5, <2>6 DEF Stage
  <2> QED BY <2>1, <2>7 DEF UnderWay
<1> QED BY <1>1, <1>2

LEMMA ReadGoesOn ==
  ASSUME OwnershipInvariant, NEW p \in Pumps, ReadMembership(p)
  PROVE  GoesOn(p)
<1>0. /\ request[p] \in RequestRecord /\ request[p].pc \in {"sync", "resync"} /\ UNCHANGED <<group, role, conversation>>
  BY DEF OwnershipInvariant, TypeOK, ReadMembership, tables
<1>1. PICK q \in RequestRecord : q = request[p]
  BY <1>0
<1>2. CASE Live
  <2>1. Projection \in Projections
    <3>1. group.owner \in Users \cup {None} /\ group.name \in Names /\ Members \in SUBSET Users
      BY DEF OwnershipInvariant, TypeOK, GroupRows, Members
    <3> QED BY <3>1 DEF Projection, Projections
  <2>2. PICK pc \in {"save", "resave"} : pc = IF q.pc = "sync" THEN "save" ELSE "resave"
    OBVIOUS
  <2>3. Syncing(p) <=> q.pc = "sync"
    BY <1>0, <1>1 DEF Syncing
  <2>4. PICK v \in Projections : v = Projection
    BY <2>1
  <2>5. PICK r : r = [q EXCEPT !.read = v, !.pc = pc]
    OBVIOUS
  <2>6. /\ r \in RequestRecord /\ r.pc = pc /\ r.op = q.op /\ r.actor = q.actor /\ r.targets = q.targets
        /\ r.added = q.added /\ r.old = q.old /\ r.new = q.new /\ r.alone = q.alone /\ r.failed = q.failed /\ r.read = v
    BY <2>5 DEF RequestRecord, Steps
  <2>7. request' = [request EXCEPT ![p] = r]
    BY <1>1, <1>2, <2>2, <2>3, <2>4, <2>5 DEF ReadMembership
  <2>8. Fresh(r)'
    <3>1. Live' /\ Projection' = Projection
      BY <1>0, <1>2, TablesKeep
    <3> QED BY <2>4, <2>6, <3>1 DEF Fresh
  <2>9. Carries(p, r)
    BY <1>1, <2>6, <2>7, <2>8 DEF Carries
  <2>10. ASSUME UnderWay(q) PROVE UnderWay(r)'
    <3>1. UnderWay(r)
      BY <1>0, <1>1, <2>2, <2>6, <2>10, ReadKeepsStage
    <3> QED BY <1>0, <3>1, TablesKeep
  <2>11. Outcome(r)' <=> UnderWay(r)'
    BY <2>2, <2>6 DEF Outcome
  <2> QED BY <1>1, <2>9, <2>10, <2>11 DEF GoesOn
<1>3. CASE ~Live
  <2>1. ~UnderWay(q)
    BY <1>3 DEF UnderWay
  <2>2. request' = [request EXCEPT ![p] = AfterFailedSync(p)]
    BY <1>3 DEF ReadMembership
  <2>3. PICK r \in RequestRecord : /\ r = AfterFailedSync(p) /\ (r.pc # "idle" => r.alone = q.alone)
                                   /\ r.pc \notin {"save", "resave"}
    <3>1. "resync" \in Steps /\ "undo" \in Steps
      BY DEF Steps
    <3>2. PICK x \in RequestRecord : x = [q EXCEPT !.pc = "resync"] /\ x.pc = "resync" /\ x.alone = q.alone
      BY <3>1, PcMove
    <3>3. PICK y \in RequestRecord : y = [q EXCEPT !.pc = "undo"] /\ y.pc = "undo" /\ y.alone = q.alone
      BY <3>1, PcMove
    <3>4. AfterFailedSync(p) \in {Idle, x, y}
      BY <1>1, <3>2, <3>3 DEF AfterFailedSync
    <3> QED BY <3>2, <3>3, <3>4, IdleIs
  <2>4. Carries(p, r)
    BY <1>1, <2>2, <2>3 DEF Carries
  <2> QED BY <1>1, <2>1, <2>4 DEF GoesOn
<1> QED BY <1>2, <1>3

LEMMA SaveGoesOn ==
  ASSUME OwnershipInvariant, NEW p \in Pumps, SaveConversation(p)
  PROVE  GoesOn(p)
<1>1. request[p].pc \in {"save", "resave"} /\ conversation' = request[p].read /\ Finish(p) /\ UNCHANGED <<group, role>>
  BY DEF SaveConversation
<1>2. ASSUME UnderWay(request[p]), Fresh(request[p]) PROVE AlignedNow'
  <2>1. group.owner \in Members /\ Live /\ request[p].read = Projection
    BY <1>1, <1>2, OwnerStays DEF Fresh
  <2>2. Live' /\ Projection' = Projection /\ Members' = Members /\ group' = group
    BY <1>1, <2>1 DEF Live, Projection, Members
  <2> QED BY <1>1, <2>1, <2>2 DEF AlignedNow
<1> QED BY <1>1, <1>2, Ends

\* Where a request that is under way stands when a store call fails.
LEMMA FailedStage ==
  ASSUME NEW q, NEW r, UnderWay(q), r.op = q.op, r.actor = q.actor, r.targets = q.targets, r.added = q.added,
         r.old = q.old, r.new = q.new, r.alone = q.alone, r.failed = TRUE,
         \/ q.pc \in {"sync", "save"} /\ q.op = "invite" /\ q.added = {} /\ r.pc = "resync"
         \/ q.pc \in {"sync", "save"} /\ ~(q.op = "invite" /\ q.added = {}) /\ r.pc = "undo"
         \/ q.pc = "add" /\ q.added # {} /\ r.pc = "undo"
  PROVE  UnderWay(r)
<1>1. CASE r.pc = "resync"
  <2>1. group.owner \in Members
    BY <1>1, OwnerStays
  <2> QED BY <1>1, <2>1 DEF UnderWay
<1>2. CASE r.pc = "undo"
  <2>1. Stage(q) /\ q.pc \in {"add", "sync", "save"}
    BY <1>2 DEF UnderWay
  <2>2. AddUnderway(q) /\ q.op \in {"invite", "join"} => AddUnderway(r)
    BY <1>2, <2>1 DEF AddUnderway
  <2>3. RemoveUnderway(q) => RemoveUnderway(r)
    BY <1>2, <2>1 DEF RemoveUnderway
  <2>4. UpdateUnderway(q) => UpdateUnderway(r)
    BY <1>2, <2>1 DEF UpdateUnderway
  <2>5. TransferUnderway(q) => TransferUnderway(r)
    BY <1>2, <2>1 DEF TransferUnderway
  <2>6. ~WriteUnderway(q)
    BY <2>1 DEF WriteUnderway
  <2>7. Stage(r)
    BY <2>1, <2>2, <2>3, <2>4, <2>5, <2>6 DEF Stage
  <2> QED BY <2>1, <2>7 DEF UnderWay
<1> QED BY <1>1, <1>2

\* A request that has written nothing leaves the conversation aligned.
LEMMA NothingWritten ==
  ASSUME NEW q, UnderWay(q), ~q.failed, q.pc \notin {"sync", "save"}, ~(q.pc = "add" /\ q.added # {})
  PROVE  AlignedNow
<1>1. Stage(q) /\ q.pc \notin {"undo", "resync", "resave"} /\ Live
  BY DEF UnderWay
<1>2. conversation \in Projections /\ conversation.owner \in conversation.participants
  BY <1>1 DEF Stage
<1>3. ASSUME SameRow, Members = conversation.participants PROVE AlignedNow
  <2>1. conversation = Projection
    BY <1>2, <1>3, AlignedBy DEF SameRow
  <2> QED BY <1>1, <1>2, <1>3, <2>1 DEF AlignedNow, SameRow
<1>4. CASE AddUnderway(q)
  BY <1>1, <1>3, <1>4 DEF AddUnderway
<1>5. CASE RemoveUnderway(q)
  BY <1>1, <1>3, <1>5 DEF RemoveUnderway
<1>6. CASE UpdateUnderway(q)
  BY <1>1, <1>3, <1>6 DEF UpdateUnderway, SameRow
<1>7. CASE TransferUnderway(q)
  BY <1>1, <1>3, <1>7 DEF TransferUnderway, SameRow
<1>8. CASE WriteUnderway(q)
  <2>1. conversation = Projection
    BY <1>8 DEF WriteUnderway
  <2>2. conversation.owner = group.owner /\ conversation.participants = Members
    BY <2>1 DEF Projection
  <2> QED BY <1>1, <1>2, <2>1, <2>2 DEF AlignedNow
<1> QED BY <1>1, <1>4, <1>5, <1>6, <1>7, <1>8 DEF Stage

LEMMA FailureGoesOn ==
  ASSUME OwnershipInvariant, NEW p \in Pumps, StoreFails(p)
  PROVE  GoesOn(p)
<1>0. /\ request[p] \in RequestRecord /\ UNCHANGED <<group, role, conversation>> /\ ~request[p].failed
  BY DEF OwnershipInvariant, TypeOK, StoreFails, tables
<1>1. PICK q \in RequestRecord : q = request[p]
  BY <1>0
<1>2. "resync" \in Steps /\ "undo" \in Steps
  BY DEF Steps
<1>3. PICK x \in RequestRecord :
         /\ x = [q EXCEPT !.pc = "resync"] /\ x.pc = "resync" /\ x.op = q.op /\ x.actor = q.actor
         /\ x.targets = q.targets /\ x.added = q.added /\ x.old = q.old /\ x.new = q.new /\ x.alone = q.alone
  BY <1>2, PcMove
<1>4. PICK y \in RequestRecord :
         /\ y = [q EXCEPT !.pc = "undo"] /\ y.pc = "undo" /\ y.op = q.op /\ y.actor = q.actor
         /\ y.targets = q.targets /\ y.added = q.added /\ y.old = q.old /\ y.new = q.new /\ y.alone = q.alone
  BY <1>2, PcMove
<1>5. ASSUME NEW z \in {x, y}, request' = [request EXCEPT ![p] = Failed(z)],
             \/ q.pc \in {"sync", "save"} /\ q.op = "invite" /\ q.added = {} /\ z = x
             \/ q.pc \in {"sync", "save"} /\ ~(q.op = "invite" /\ q.added = {}) /\ z = y
             \/ q.pc = "add" /\ q.added # {} /\ z = y
      PROVE  GoesOn(p)
  <2>1. /\ z \in RequestRecord /\ z.pc \in {"resync", "undo"} /\ z.op = q.op /\ z.actor = q.actor
        /\ z.targets = q.targets /\ z.added = q.added /\ z.old = q.old /\ z.new = q.new /\ z.alone = q.alone
    BY <1>3, <1>4
  <2>2. PICK r \in RequestRecord :
           /\ r = Failed(z) /\ r.pc = z.pc /\ r.op = q.op /\ r.actor = q.actor /\ r.targets = q.targets
           /\ r.added = q.added /\ r.old = q.old /\ r.new = q.new /\ r.alone = q.alone /\ r.failed = TRUE
    BY <2>1, FailedIs
  <2>3. Carries(p, r)
    BY <1>1, <1>5, <2>1, <2>2 DEF Carries
  <2>4. ASSUME UnderWay(q) PROVE UnderWay(r)'
    <3>1. \/ q.pc \in {"sync", "save"} /\ q.op = "invite" /\ q.added = {} /\ r.pc = "resync"
          \/ q.pc \in {"sync", "save"} /\ ~(q.op = "invite" /\ q.added = {}) /\ r.pc = "undo"
          \/ q.pc = "add" /\ q.added # {} /\ r.pc = "undo"
      BY <1>3, <1>4, <1>5, <2>2
    <3>2. UnderWay(r)
      BY <2>2, <2>4, <3>1, FailedStage
    <3> QED BY <1>0, <3>2, TablesKeep
  <2>5. Outcome(r)' <=> UnderWay(r)'
    BY <2>1, <2>2 DEF Outcome
  <2> QED BY <1>1, <2>3, <2>4, <2>5 DEF GoesOn
<1>6. CASE Syncing(p) /\ q.op # "create"
  <2>1. request' = [request EXCEPT ![p] = Failed(AfterFailedSync(p))] /\ q.pc \in {"sync", "save"}
    BY <1>1, <1>6 DEF StoreFails, Syncing
  <2>2. AfterFailedSync(p) = IF q.op = "invite" /\ q.added = {} THEN x ELSE y
    BY <1>1, <1>3, <1>4, <1>6 DEF AfterFailedSync
  <2> QED BY <1>5, <2>1, <2>2
<1>7. CASE ~(Syncing(p) /\ q.op # "create") /\ q.pc = "add" /\ q.added # {}
  <2>1. request' = [request EXCEPT ![p] = Failed(y)]
    BY <1>1, <1>4, <1>7 DEF StoreFails
  <2> QED BY <1>5, <1>7, <2>1
<1>8. CASE ~(Syncing(p) /\ q.op # "create") /\ ~(q.pc = "add" /\ q.added # {})
  <2>1. Finish(p)
    BY <1>1, <1>8 DEF StoreFails, Finish
  <2>2. ASSUME UnderWay(q) PROVE AlignedNow'
    <3>1. q.op # "create" \/ q.pc \notin {"sync", "save"}
      BY <2>2, StageOf
    <3>2. q.pc \notin {"sync", "save"}
      BY <1>1, <1>8, <3>1 DEF Syncing
    <3>3. AlignedNow
      BY <1>0, <1>1, <1>8, <2>2, <3>2, NothingWritten
    <3> QED BY <1>0, <3>3, TablesKeep
  <2> QED BY <1>1, <2>1, <2>2, Ends
<1> QED BY <1>6, <1>7, <1>8

LEMMA UndoFailureGoesOn ==
  ASSUME OwnershipInvariant, NEW p \in Pumps, UndoFails(p)
  PROVE  GoesOn(p)
<1>0. request[p] \in RequestRecord /\ request[p].pc = "undo" /\ ~request[p].failed
  BY DEF OwnershipInvariant, TypeOK, UndoFails
<1>1. PICK q \in RequestRecord : q = request[p]
  BY <1>0
<1>2. ~UnderWay(q)
  BY <1>0, <1>1 DEF UnderWay
<1>3. PICK x \in RequestRecord : x = [q EXCEPT !.pc = "resync"] /\ x.pc = "resync" /\ x.alone = q.alone
  <2>1. "resync" \in Steps
    BY DEF Steps
  <2> QED BY <2>1, PcMove
<1>4. ASSUME NEW r \in RequestRecord, request' = [request EXCEPT ![p] = r], r.pc # "idle" => r.alone = q.alone,
             r.pc \notin {"save", "resave"}
      PROVE  GoesOn(p)
  <2>1. Carries(p, r)
    BY <1>1, <1>4 DEF Carries
  <2> QED BY <1>1, <1>2, <2>1 DEF GoesOn
<1>5. Failed(x) \in RequestRecord /\ Failed(x).pc = "resync" /\ Failed(x).alone = q.alone
  BY <1>3, FailedIs
<1>6. CASE q.added # {}
  <2>1. PICK u \in q.added :
           request' = [request EXCEPT ![p] = IF AfterUndoAdd(q, u) = Idle THEN Idle ELSE Failed(AfterUndoAdd(q, u))]
    BY <1>1, <1>6 DEF UndoFails
  <2>2. PICK y : y = [q EXCEPT !.added = q.added \ {u}]
    OBVIOUS
  <2>3. y \in RequestRecord /\ y.pc = "undo" /\ y.alone = q.alone
    BY <1>0, <1>1, <2>2 DEF RequestRecord
  <2>4. AfterUndoAdd(q, u) \in {Idle, x, y}
    BY <1>3, <2>2 DEF AfterUndoAdd
  <2>5. Failed(y) \in RequestRecord /\ Failed(y).pc = "undo" /\ Failed(y).alone = q.alone
    BY <2>3, FailedIs
  <2>6. PICK r : /\ r = IF AfterUndoAdd(q, u) = Idle THEN Idle ELSE Failed(AfterUndoAdd(q, u))
                 /\ r \in {Idle, Failed(x), Failed(y)}
    BY <2>4
  <2>7. r \in RequestRecord /\ (r.pc # "idle" => r.alone = q.alone) /\ r.pc \notin {"save", "resave"}
    BY <1>5, <2>5, <2>6, IdleIs
  <2> QED BY <1>4, <2>1, <2>6, <2>7
<1>7. CASE q.added = {} /\ q.op \in {"leave", "kick"}
  <2>1. request' = [request EXCEPT ![p] = Failed(x)]
    BY <1>1, <1>3, <1>7 DEF UndoFails
  <2> QED BY <1>4, <1>5, <2>1
<1>8. CASE q.added = {} /\ q.op \notin {"leave", "kick"}
  <2>1. Finish(p)
    BY <1>1, <1>8 DEF UndoFails
  <2> QED BY <1>1, <1>2, <2>1, Ends
<1> QED BY <1>6, <1>7, <1>8

LEMMA HandlerGoesOn ==
  ASSUME OwnershipInvariant, NEW p \in Pumps, HandlerStep(p)
  PROVE  GoesOn(p)
<1>1. CASE InsertGroup(p) \/ InsertOwner(p)
  BY <1>1, CreationGoesOn
<1>2. CASE \E u \in Users : AddMember(p, u) \/ UndoAdd(p, u)
  BY <1>2, AddGoesOn, UndoAddGoesOn
<1>3. CASE RemoveMember(p) \/ UndoRemove(p)
  BY <1>3, RemoveGoesOn, UndoRemoveGoesOn
<1>4. CASE WriteMute(p) \/ WriteRole(p) \/ WriteMuteAll(p) \/ DeleteGroup(p)
  BY <1>4, WriteGoesOn
<1>5. CASE WriteUpdate(p) \/ UndoUpdate(p)
  BY <1>5, UpdateGoesOn
<1>6. CASE WriteTransfer(p) \/ UndoTransfer(p)
  BY <1>6, TransferGoesOn
<1>7. CASE ReadMembership(p) \/ SaveConversation(p)
  BY <1>7, ReadGoesOn, SaveGoesOn
<1>8. CASE StoreFails(p) \/ UndoFails(p)
  BY <1>8, FailureGoesOn, UndoFailureGoesOn
<1> QED BY <1>1, <1>2, <1>3, <1>4, <1>5, <1>6, <1>7, <1>8 DEF HandlerStep

-----------------------------------------------------------------------------
(* Self-repair: the arrivals *)

\* What a handler is about to do when it has only read.
Opening(r) ==
    \/ r.op = "create" /\ r.pc = "insert_group" /\ group.phase = "unborn"
    \/ /\ Live /\ r.added = {}
       /\ \/ r.op = "invite" /\ (r.pc = "sync" \/ (r.pc = "add" /\ r.targets \cap Members = {}))
          \/ r.op = "join" /\ r.pc = "add" /\ \E t \in Users : r.targets = {t}
          \/ r.op \in {"leave", "kick"} /\ r.pc = "remove" /\ \E t \in Users : r.targets = {t} /\ t # group.owner
          \/ r.op = "update" /\ r.pc = "write" /\ r.old.name = group.name
          \/ /\ r.op = "transfer" /\ r.pc = "write" /\ r.actor = group.owner
             /\ \E t \in Users : r.targets = {t} /\ t # r.actor
          \/ r.op \in {"ban", "set_admin", "dismiss"} /\ r.pc = "write"
          \/ r.op = "mute_all" /\ r.pc = "write" /\ r.new.name = group.name

Arrives(p) == \E r \in RequestRecord : Begin(p, r) /\ Opening(r)

LEMMA ArrivalArrives ==
  ASSUME TypeOK, NEW p \in Pumps, NEW u \in Users, Arrival(p, u)
  PROVE  Arrives(p)
<1> USE DEF Operations, Steps
<1>1. ASSUME NEW T \in SUBSET Users, CreateGroup(p, u, T)
      PROVE  Arrives(p)
  <2>1. OwnSettings \in Settings
    BY DEF TypeOK, GroupRows, OwnSettings, Settings
  <2>2. PICK a \in RequestRecord : a = Asks("create", u, "insert_group", T) /\ a.op = "create" /\ a.pc = "insert_group"
    BY AsksType
  <2>3. PICK r : r = [a EXCEPT !.new = OwnSettings]
    OBVIOUS
  <2>4. r \in RequestRecord /\ r.op = "create" /\ r.pc = "insert_group"
    BY <2>1, <2>2, <2>3 DEF RequestRecord
  <2> QED BY <1>1, <2>2, <2>3, <2>4 DEF CreateGroup, Arrives, Opening
<1>2. ASSUME NEW T \in SUBSET Users, GroupInvite(p, u, T)
      PROVE  Arrives(p)
  <2>1. PICK pc \in {"sync", "add"} : pc = IF T \subseteq Members THEN "sync" ELSE "add"
    OBVIOUS
  <2>2. PICK r \in RequestRecord : /\ r = Asks("invite", u, pc, T \ Members) /\ r.op = "invite" /\ r.pc = pc
                                   /\ r.targets = T \ Members /\ r.added = {}
    BY AsksType
  <2>3. Opening(r)
    BY <1>2, <2>2 DEF Opening, GroupInvite, Known
  <2>4. Begin(p, r)
    BY <1>2, <2>1, <2>2 DEF GroupInvite
  <2> QED BY <2>3, <2>4 DEF Arrives
<1>3. CASE JoinGroup(p, u)
  <2>1. PICK r \in RequestRecord : r = Asks("join", u, "add", {u}) /\ r.op = "join" /\ r.pc = "add" /\ r.targets = {u} /\ r.added = {}
    BY AsksType
  <2>2. Opening(r)
    BY <1>3, <2>1 DEF Opening, JoinGroup, Known
  <2> QED BY <1>3, <2>1, <2>2 DEF JoinGroup, Arrives
<1>4. CASE LeaveGroup(p, u)
  <2>1. PICK r \in RequestRecord : /\ r = Asks("leave", u, "remove", {u}) /\ r.op = "leave" /\ r.pc = "remove"
                                   /\ r.targets = {u} /\ r.added = {}
    BY AsksType
  <2>2. Opening(r)
    BY <1>4, <2>1 DEF Opening, LeaveGroup, Known
  <2> QED BY <1>4, <2>1, <2>2 DEF LeaveGroup, Arrives
<1>5. CASE DismissGroup(p, u)
  <2>1. PICK r \in RequestRecord : r = Asks("dismiss", u, "write", {}) /\ r.op = "dismiss" /\ r.pc = "write" /\ r.added = {}
    BY AsksType
  <2>2. Opening(r)
    BY <1>5, <2>1 DEF Opening, DismissGroup, Known
  <2> QED BY <1>5, <2>1, <2>2 DEF DismissGroup, Arrives
<1>6. ASSUME NEW t \in Users, GroupKick(p, u, t)
      PROVE  Arrives(p)
  <2>1. PICK r \in RequestRecord : /\ r = Asks("kick", u, "remove", {t}) /\ r.op = "kick" /\ r.pc = "remove"
                                   /\ r.targets = {t} /\ r.added = {}
    BY AsksType
  <2>2. Opening(r)
    BY <1>6, <2>1 DEF Opening, GroupKick, Known
  <2> QED BY <1>6, <2>1, <2>2 DEF GroupKick, Arrives
<1>7. ASSUME NEW t \in Users, TransferGroup(p, u, t)
      PROVE  Arrives(p)
  <2>1. PICK r \in RequestRecord : /\ r = Asks("transfer", u, "write", {t}) /\ r.op = "transfer" /\ r.pc = "write"
                                   /\ r.actor = u /\ r.targets = {t} /\ r.added = {}
    BY AsksType
  <2>2. Opening(r)
    BY <1>7, <2>1 DEF Opening, TransferGroup, Known
  <2> QED BY <1>7, <2>1, <2>2 DEF TransferGroup, Arrives
<1>8. ASSUME NEW t \in Users, NEW b \in BOOLEAN, GroupBan(p, u, t, b)
      PROVE  Arrives(p)
  <2>1. PICK a \in RequestRecord : a = Asks("ban", u, "write", {t}) /\ a.op = "ban" /\ a.pc = "write" /\ a.added = {}
    BY AsksType
  <2>2. PICK r : r = [a EXCEPT !.enabled = b]
    OBVIOUS
  <2>3. r \in RequestRecord /\ r.op = "ban" /\ r.pc = "write" /\ r.added = {}
    BY <2>1, <2>2 DEF RequestRecord
  <2>4. Opening(r)
    BY <1>8, <2>3 DEF Opening, GroupBan, Known
  <2> QED BY <1>8, <2>1, <2>2, <2>3, <2>4 DEF GroupBan, Arrives
<1>9. ASSUME NEW t \in Users, NEW b \in BOOLEAN, SetGroupAdmin(p, u, t, b)
      PROVE  Arrives(p)
  <2>1. PICK a \in RequestRecord : /\ a = Asks("set_admin", u, "write", {t}) /\ a.op = "set_admin" /\ a.pc = "write"
                                   /\ a.added = {}
    BY AsksType
  <2>2. PICK r : r = [a EXCEPT !.enabled = b]
    OBVIOUS
  <2>3. r \in RequestRecord /\ r.op = "set_admin" /\ r.pc = "write" /\ r.added = {}
    BY <2>1, <2>2 DEF RequestRecord
  <2>4. Opening(r)
    BY <1>9, <2>3 DEF Opening, SetGroupAdmin, Known
  <2> QED BY <1>9, <2>1, <2>2, <2>3, <2>4 DEF SetGroupAdmin, Arrives
<1>10. ASSUME NEW n \in Names, UpdateGroup(p, u, n)
       PROVE  Arrives(p)
  <2>1. PICK x, y : x = OwnSettings /\ y = [OwnSettings EXCEPT !.name = n]
    OBVIOUS
  <2>2. x \in Settings /\ y \in Settings /\ x.name = group.name
    BY <2>1, OwnSettingsType DEF OwnSettings
  <2>3. PICK a \in RequestRecord : a = Asks("update", u, "write", {}) /\ a.op = "update" /\ a.pc = "write" /\ a.added = {}
    BY AsksType
  <2>4. PICK r : r = [a EXCEPT !.old = x, !.new = y]
    OBVIOUS
  <2>5. r \in RequestRecord /\ r.op = "update" /\ r.pc = "write" /\ r.added = {} /\ r.old = x
    BY <2>2, <2>3, <2>4 DEF RequestRecord
  <2>6. Opening(r)
    BY <1>10, <2>2, <2>5 DEF Opening, UpdateGroup, Known
  <2> QED BY <1>10, <2>1, <2>3, <2>4, <2>5, <2>6 DEF UpdateGroup, Arrives
<1>11. ASSUME NEW b \in BOOLEAN, GroupMuteAll(p, u, b)
       PROVE  Arrives(p)
  <2>1. PICK y : y = [OwnSettings EXCEPT !.mute_all = b]
    OBVIOUS
  <2>2. y \in Settings /\ y.name = group.name
    BY <2>1, OwnSettingsType, DefaultsType DEF OwnSettings, Settings
  <2>3. PICK a \in RequestRecord : a = Asks("mute_all", u, "write", {}) /\ a.op = "mute_all" /\ a.pc = "write" /\ a.added = {}
    BY AsksType
  <2>4. PICK r : r = [a EXCEPT !.new = y]
    OBVIOUS
  <2>5. r \in RequestRecord /\ r.op = "mute_all" /\ r.pc = "write" /\ r.added = {} /\ r.new = y
    BY <2>2, <2>3, <2>4 DEF RequestRecord
  <2>6. Opening(r)
    BY <1>11, <2>2, <2>5 DEF Opening, GroupMuteAll, Known
  <2> QED BY <1>11, <2>1, <2>3, <2>4, <2>5, <2>6 DEF GroupMuteAll, Arrives
<1> QED BY <1>1, <1>2, <1>3, <1>4, <1>5, <1>6, <1>7, <1>8, <1>9, <1>10, <1>11 DEF Arrival

\* A request that finds the conversation aligned and nobody else is under way.
LEMMA OpeningUnderWay ==
  ASSUME TypeOK, AlignedNow, group.phase # "unborn", NEW r, Opening(r), r.alone
  PROVE  UnderWay(r)
<1>1. Live /\ r.added = {} /\ r.pc \notin {"undo", "resync", "resave"}
  BY DEF Opening
<1>2. conversation = Projection /\ group.owner \in Members
  BY <1>1 DEF AlignedNow
<1>3. /\ conversation \in Projections /\ SameRow /\ Members = conversation.participants
      /\ conversation.owner = group.owner /\ conversation.title = group.name
  BY <1>2, AlignedFields
<1>4. conversation.owner \in conversation.participants
  BY <1>2, <1>3
<1>5. r.op \in {"invite", "join"} => AddUnderway(r)
  BY <1>1, <1>3 DEF Opening, AddUnderway
<1>6. r.op \in {"leave", "kick"} => RemoveUnderway(r)
  BY <1>1, <1>3 DEF Opening, RemoveUnderway
<1>7. r.op = "update" => UpdateUnderway(r)
  BY <1>1, <1>3 DEF Opening, UpdateUnderway
<1>8. r.op = "transfer" => TransferUnderway(r)
  BY <1>1, <1>3 DEF Opening, TransferUnderway
<1>9. r.op \in {"ban", "set_admin", "mute_all", "dismiss"} => WriteUnderway(r)
  BY <1>2 DEF Opening, WriteUnderway
<1>10. r.op \in {"invite", "join", "leave", "kick", "update", "transfer", "ban", "set_admin", "mute_all", "dismiss"}
  BY DEF Opening
<1>11. Stage(r)
  BY <1>3, <1>4, <1>5, <1>6, <1>7, <1>8, <1>9, <1>10 DEF Stage
<1> QED BY <1>1, <1>11 DEF UnderWay

-----------------------------------------------------------------------------
(* Self-repair: the invariant is inductive *)

LEMMA HandlerIsBusy ==
  ASSUME NEW p \in Pumps, HandlerStep(p)
  PROVE  Busy(p)
  BY DEF HandlerStep, Busy, InsertGroup, InsertOwner, AddMember, UndoAdd, RemoveMember, WriteMute, WriteRole,
         WriteUpdate, WriteMuteAll, WriteTransfer, DeleteGroup, ReadMembership, SaveConversation, UndoRemove,
         UndoUpdate, UndoTransfer, StoreFails, UndoFails, At

\* A group that has come into being never goes back.
LEMMA BornForGood ==
  ASSUME OwnershipInvariant, NEW p \in Pumps, HandlerStep(p), group.phase # "unborn"
  PROVE  group'.phase # "unborn"
<1>0. group \in GroupRows
  BY DEF OwnershipInvariant, TypeOK
<1>1. CASE InsertGroup(p)
  BY <1>1 DEF InsertGroup
<1>2. CASE WriteUpdate(p) \/ WriteMuteAll(p) \/ UndoUpdate(p)
  BY <1>0, <1>2 DEF WriteUpdate, WriteMuteAll, UndoUpdate, SetSettings, GroupRows
<1>3. CASE WriteTransfer(p) \/ UndoTransfer(p)
  BY <1>0, <1>3 DEF WriteTransfer, UndoTransfer, TransferOwnership, GroupRows
<1>4. CASE DeleteGroup(p)
  BY <1>0, <1>4 DEF DeleteGroup, GroupRows, tables
<1>5. CASE \/ InsertOwner(p) \/ (\E u \in Users : AddMember(p, u) \/ UndoAdd(p, u)) \/ RemoveMember(p)
           \/ WriteMute(p) \/ WriteRole(p) \/ ReadMembership(p) \/ SaveConversation(p) \/ UndoRemove(p)
           \/ StoreFails(p) \/ UndoFails(p)
  BY <1>5 DEF InsertOwner, AddMember, UndoAdd, RemoveMember, WriteMute, WriteRole, ReadMembership,
              SaveConversation, UndoRemove, StoreFails, UndoFails, tables
<1> QED BY <1>1, <1>2, <1>3, <1>4, <1>5 DEF HandlerStep

\* Only the save of a request that was alone settles the conversation.
LEMMA OnlySaveSettles ==
  ASSUME NEW p \in Pumps, HandlerStep(p), settled' # settled
  PROVE  SaveConversation(p)
<1>1. CASE \/ InsertGroup(p) \/ InsertOwner(p) \/ (\E u \in Users : AddMember(p, u) \/ UndoAdd(p, u)) \/ RemoveMember(p)
           \/ WriteMute(p) \/ WriteRole(p) \/ WriteUpdate(p) \/ WriteMuteAll(p) \/ WriteTransfer(p) \/ DeleteGroup(p)
  BY <1>1 DEF InsertGroup, InsertOwner, AddMember, UndoAdd, RemoveMember, WriteMute, WriteRole, WriteUpdate,
              WriteMuteAll, WriteTransfer, DeleteGroup, history
<1>2. CASE ReadMembership(p) \/ UndoRemove(p) \/ UndoUpdate(p) \/ UndoTransfer(p) \/ StoreFails(p) \/ UndoFails(p)
  BY <1>2 DEF ReadMembership, UndoRemove, UndoUpdate, UndoTransfer, StoreFails, UndoFails, history
<1> QED BY <1>1, <1>2 DEF HandlerStep

LEMMA HandlerKeepsSync ==
  ASSUME SyncInv, NEW p \in Pumps, HandlerStep(p)
  PROVE  AloneInv' /\ SettledInv'
<1>0. OwnershipInvariant /\ AloneInv /\ SettledInv /\ request \in [Pumps -> RequestRecord] /\ settled \in BOOLEAN
  BY DEF SyncInv, OwnershipInvariant, TypeOK
<1>1. Busy(p) /\ GoesOn(p)
  BY <1>0, HandlerIsBusy, HandlerGoesOn
<1>2. PICK r : /\ Carries(p, r)
               /\ UnderWay(request[p]) /\ (request[p].pc \in {"save", "resave"} => Fresh(request[p])) => Outcome(r)'
  BY <1>1 DEF GoesOn
<1>3. request'[p] = r /\ \A x \in Pumps \ {p} : request'[x] = request[x]
  BY <1>0, <1>2 DEF Carries
<1>4. (r.pc # "idle" => r.alone = request[p].alone) /\ (r.pc \in {"save", "resave"} => Fresh(r)')
  BY <1>2 DEF Carries
<1>5. request[p].alone => /\ \A x \in Pumps \ {p} : ~Busy(x)
                          /\ request[p].pc \in {"save", "resave"} => Fresh(request[p])
  BY <1>0, <1>1 DEF AloneInv
<1>6. \A x \in Pumps \ {p} : Busy(x)' <=> Busy(x)
  BY <1>3 DEF Busy
<1>7. AloneInv'
  <2> SUFFICES ASSUME NEW x \in Pumps, Busy(x)', request'[x].alone
               PROVE  /\ \A y \in Pumps \ {x} : ~Busy(y)'
                      /\ request'[x].pc \in {"save", "resave"} => Fresh(request[x])'
    BY DEF AloneInv
  <2>1. CASE x = p
    <3>1. r.pc # "idle" /\ r.alone
      BY <1>3, <2>1 DEF Busy
    <3>2. \A y \in Pumps \ {p} : ~Busy(y)
      BY <1>4, <1>5, <3>1
    <3>3. r.pc \in {"save", "resave"} => Fresh(request[x])'
      BY <1>3, <1>4, <2>1 DEF Fresh
    <3> QED BY <1>3, <1>6, <2>1, <3>2, <3>3
  <2>2. CASE x # p
    <3>1. Busy(x) /\ request[x].alone
      BY <1>3, <1>6, <2>2
    <3>2. ~Busy(p)
      BY <1>0, <2>2, <3>1 DEF AloneInv
    <3> QED BY <1>1, <3>2
  <2> QED BY <2>1, <2>2
<1>8. CASE settled
  <2>1. UnderWay(request[p]) /\ group.phase # "unborn"
    BY <1>0, <1>1, <1>8 DEF SettledInv
  <2>2. request[p].alone
    BY <2>1 DEF UnderWay
  <2>3. Outcome(r)' /\ \A x \in Pumps \ {p} : ~Busy(x)'
    BY <1>2, <1>5, <1>6, <2>1, <2>2
  <2>4. group'.phase # "unborn"
    BY <1>0, <2>1, BornForGood
  <2>5. ASSUME NEW x \in Pumps, Busy(x)' PROVE UnderWay(request[x])'
    <3>1. x = p /\ r.pc # "idle"
      BY <1>3, <2>3, <2>5 DEF Busy
    <3>2. UnderWay(r)'
      BY <2>3, <3>1 DEF Outcome
    <3>3. PICK z : z = request'[x] /\ z = r
      BY <1>3, <3>1
    <3>4. UnderWay(request[x])' <=> UnderWay(r)'
      BY <3>3 DEF UnderWay, Stage, AddUnderway, RemoveUnderway, UpdateUnderway, TransferUnderway, WriteUnderway
    <3> QED BY <3>2, <3>4
  <2>6. ASSUME Quiet' PROVE AlignedNow'
    <3>1. r.pc = "idle"
      BY <1>3, <2>6 DEF Quiet
    <3> QED BY <2>3, <3>1 DEF Outcome
  <2>7. SettledInv'
    BY <2>4, <2>5, <2>6 DEF SettledInv
  <2> QED BY <1>7, <2>7
<1>9. CASE ~settled
  <2> SUFFICES ASSUME settled' PROVE SettledInv'
    BY <1>7 DEF SettledInv
  <2>1. SaveConversation(p)
    BY <1>9, OnlySaveSettles
  <2>2. /\ request[p].pc = "save" /\ request[p].alone /\ request[p].read.owner \in request[p].read.participants
        /\ conversation' = request[p].read /\ Finish(p) /\ UNCHANGED <<group, role>>
    BY <1>9, <2>1 DEF SaveConversation, SettledBy
  <2>3. Fresh(request[p]) /\ \A x \in Pumps \ {p} : ~Busy(x)
    BY <1>5, <2>2
  <2>4. Live /\ request[p].read = Projection /\ group.owner \in Members
    BY <2>2, <2>3 DEF Fresh, Projection
  <2>5. Live' /\ Projection' = Projection /\ Members' = Members /\ group' = group
    BY <2>2, <2>4 DEF Live, Projection, Members
  <2>6. AlignedNow'
    BY <2>2, <2>4, <2>5 DEF AlignedNow
  <2>7. request'[p] = Idle
    BY <1>0, <2>2 DEF Finish
  <2>8. \A x \in Pumps : ~Busy(x)'
    BY <1>6, <2>3, <2>7, IdleIs DEF Busy
  <2>9. group'.phase # "unborn"
    BY <2>5 DEF Live
  <2> QED BY <2>6, <2>8, <2>9 DEF SettledInv
<1> QED BY <1>8, <1>9

LEMMA ArrivalKeepsSync ==
  ASSUME SyncInv, NEW p \in Pumps, Arrives(p)
  PROVE  AloneInv' /\ SettledInv'
<1>0. /\ TypeOK /\ AloneInv /\ SettledInv /\ request \in [Pumps -> RequestRecord]
  BY DEF SyncInv, OwnershipInvariant, TypeOK
<1>1. PICK r \in RequestRecord : Begin(p, r) /\ Opening(r)
  BY DEF Arrives
<1>2. PICK quiet \in BOOLEAN : quiet = Quiet
  BY DEF Quiet
<1>3. PICK s : s = [r EXCEPT !.alone = quiet]
  OBVIOUS
<1>4. /\ s.alone = quiet /\ s.pc = r.pc /\ s.op = r.op /\ s.actor = r.actor /\ s.targets = r.targets
      /\ s.added = r.added /\ s.old = r.old /\ s.new = r.new
  BY <1>3 DEF RequestRecord
<1>5. Opening(s) /\ s.pc \notin {"idle", "save", "resave"}
  BY <1>1, <1>4 DEF Opening
<1>6. /\ request'[p] = s /\ ~Busy(p)
      /\ \A x \in Pumps \ {p} : request'[x] = IF request[x].pc = "idle" THEN request[x]
                                              ELSE [request[x] EXCEPT !.alone = FALSE]
  BY <1>1, <1>2, <1>3 DEF Begin, Busy
<1>7. settled' = (settled /\ quiet) /\ UNCHANGED <<group, role, conversation>>
  BY <1>1, <1>2 DEF Begin, tables
<1>8. \A x \in Pumps \ {p} : (Busy(x)' <=> Busy(x)) /\ (Busy(x) => request'[x].alone = FALSE)
  <2> SUFFICES ASSUME NEW x \in Pumps \ {p}
               PROVE  (Busy(x)' <=> Busy(x)) /\ (Busy(x) => request'[x].alone = FALSE)
    OBVIOUS
  <2>1. request[x] \in RequestRecord
    BY <1>0
  <2>2. /\ [request[x] EXCEPT !.alone = FALSE].pc = request[x].pc
        /\ [request[x] EXCEPT !.alone = FALSE].alone = FALSE
    BY <2>1 DEF RequestRecord
  <2> QED BY <1>6, <2>2 DEF Busy
<1>9. quiet => \A x \in Pumps : ~Busy(x)
  BY <1>2 DEF Quiet, Busy
<1>10. AloneInv'
  <2> SUFFICES ASSUME NEW x \in Pumps, Busy(x)', request'[x].alone
               PROVE  /\ \A y \in Pumps \ {x} : ~Busy(y)'
                      /\ request'[x].pc \in {"save", "resave"} => Fresh(request[x])'
    BY DEF AloneInv
  <2>1. x = p
    BY <1>8
  <2>2. quiet
    BY <1>4, <1>6, <2>1
  <2> QED BY <1>5, <1>6, <1>8, <1>9, <2>1, <2>2
<1>11. ASSUME settled' PROVE SettledInv'
  <2>1. settled /\ quiet
    BY <1>7, <1>11
  <2>2. AlignedNow /\ group.phase # "unborn"
    BY <1>0, <1>2, <2>1 DEF SettledInv
  <2>3. s.alone
    BY <1>4, <2>1
  <2>4. UnderWay(s)
    BY <1>0, <1>5, <2>2, <2>3, OpeningUnderWay
  <2>5. UnderWay(s)'
    BY <1>7, <2>4, TablesKeep
  <2>6. ASSUME NEW x \in Pumps, Busy(x)' PROVE UnderWay(request[x])'
    <3>1. x = p
      BY <1>8, <1>9, <2>1, <2>6
    <3>2. PICK z : z = request'[x] /\ z = s
      BY <1>6, <3>1
    <3>3. UnderWay(request[x])' <=> UnderWay(s)'
      BY <3>2 DEF UnderWay, Stage, AddUnderway, RemoveUnderway, UpdateUnderway, TransferUnderway, WriteUnderway
    <3> QED BY <2>5, <3>3
  <2>7. ~Quiet'
    BY <1>5, <1>6 DEF Quiet
  <2>8. group'.phase # "unborn"
    BY <1>7, <2>2
  <2> QED BY <2>6, <2>7, <2>8 DEF SettledInv
<1>12. SettledInv'
  BY <1>11 DEF SettledInv
<1> QED BY <1>10, <1>12

LEMMA SyncStutters ==
  ASSUME SyncInv, UNCHANGED vars
  PROVE  AloneInv' /\ SettledInv'
<1>1. UNCHANGED <<group, role, conversation>> /\ request' = request /\ settled' = settled
  BY DEF vars
<1>2. (\A p : Busy(p)' <=> Busy(p)) /\ (Quiet' <=> Quiet)
  BY <1>1 DEF Busy, Quiet
<1>3. \A p : Fresh(request[p])' <=> Fresh(request[p])
  BY <1>1, TablesKeep DEF Fresh
<1>4. \A p : UnderWay(request[p])' <=> UnderWay(request[p])
  <2> SUFFICES ASSUME NEW p PROVE UnderWay(request[p])' <=> UnderWay(request[p])
    OBVIOUS
  <2>1. (Live' <=> Live) /\ Members' = Members /\ Projection' = Projection
    BY <1>1 DEF Live, Members, Projection
  <2> QED BY <1>1, <2>1 DEF UnderWay, Stage, AddUnderway, RemoveUnderway, UpdateUnderway, TransferUnderway, WriteUnderway, SameRow
<1>5. AloneInv'
  BY <1>1, <1>2, <1>3 DEF SyncInv, AloneInv
<1>6. SettledInv'
  BY <1>1, <1>2, <1>4, TablesKeep DEF SyncInv, SettledInv
<1> QED BY <1>5, <1>6

\* Self-repair, for any number of users and of concurrent requests: once a
\* request that met no other one has synced, the conversation has exactly the
\* members, owner and name of the group whenever no request is under way, and
\* neither failing store calls nor their rollbacks change that until requests
\* overlap again.
THEOREM ConversationStaysAligned == Spec => []UndisturbedSyncAligns
<1>1. Init => SyncInv
  <2> SUFFICES ASSUME Init PROVE SyncInv
    OBVIOUS
  <2>1. OwnershipInvariant
    BY InitEstablishes
  <2>2. (\A p \in Pumps : ~Busy(p)) /\ settled = FALSE
    BY IdleIs DEF Init, Busy
  <2> QED BY <2>1, <2>2 DEF SyncInv, AloneInv, SettledInv
<1>2. SyncInv /\ [Next]_vars => SyncInv'
  <2> SUFFICES ASSUME SyncInv, [Next]_vars PROVE SyncInv'
    OBVIOUS
  <2>1. OwnershipInvariant /\ OwnershipInvariant'
    BY NextPreserves DEF SyncInv
  <2>2. CASE UNCHANGED vars
    BY <2>1, <2>2, SyncStutters DEF SyncInv
  <2>3. ASSUME NEW p \in Pumps, HandlerStep(p) PROVE SyncInv'
    BY <2>1, <2>3, HandlerKeepsSync DEF SyncInv
  <2>4. ASSUME NEW p \in Pumps, NEW u \in Users, Arrival(p, u) PROVE SyncInv'
    <3>1. Arrives(p)
      BY <2>1, <2>4, ArrivalArrives DEF OwnershipInvariant
    <3> QED BY <2>1, <3>1, ArrivalKeepsSync DEF SyncInv
  <2> QED BY <2>2, <2>3, <2>4 DEF Next
<1>3. SyncInv => UndisturbedSyncAligns
  BY DEF SyncInv, SettledInv, AlignedNow, UndisturbedSyncAligns
<1> QED BY <1>1, <1>2, <1>3, PTL DEF Spec
=============================================================================
