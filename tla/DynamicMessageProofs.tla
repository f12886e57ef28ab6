------------------------ MODULE DynamicMessageProofs ------------------------
(***************************************************************************)
(* Theorems about DynamicMessage, for every set of connections, messages,  *)
(* lock objects and idempotency keys.                                      *)
(***************************************************************************)
EXTENDS DynamicMessage, FiniteSetTheorems, SequenceTheorems, TLAPS

\* The goroutines that hold a reference to a lock object.
Referrers(l) == {c \in Clients : client[c].pc \in Referencing /\ client[c].lock = l}

\* A goroutine with a reference refers to the object its message is mapped to.
ReferencesValid ==
    \A c \in Clients : client[c].pc \in Referencing =>
        /\ client[c].target \in Messages /\ client[c].lock \in Locks
        /\ lockOf[client[c].target] = client[c].lock

\* The map keeps no message that nobody refers to and shares no object.
MapExact ==
    /\ \A m \in Messages : lockOf[m] # None =>
          \E c \in Clients : client[c].pc \in Referencing /\ client[c].target = m
    /\ \A m, n \in Messages : lockOf[m] = lockOf[n] /\ lockOf[m] # None => m = n

\* The count of an object is the number of goroutines that refer to it.
CountsExact == \A l \in Locks : refs[l] = Cardinality(Referrers(l))

\* A mutex is locked while a goroutine is in its critical section, and only
\* one is.
HolderExclusive ==
    /\ \A c \in Clients : client[c].pc \in Critical => held[client[c].lock]
    /\ \A c, d \in Clients :
          /\ client[c].pc \in Critical /\ client[d].pc \in Critical
          /\ client[c].lock = client[d].lock
          => c = d

LockInv == ReferencesValid /\ MapExact /\ CountsExact /\ HolderExclusive

-----------------------------------------------------------------------------
(* Types *)

\* IdleClient, and the two records a request starts with, are well typed.
LEMMA IdleType ==
  /\ IdleClient \in ClientRecord
  /\ \A m \in Messages, k \in Ops, l \in Locks :
        [IdleClient EXCEPT !.pc = "wait", !.target = m, !.key = k, !.lock = l] \in ClientRecord
  /\ \A m \in Messages :
        [IdleClient EXCEPT !.pc = "recall", !.target = m] \in ClientRecord
<1>1. NoKey \in Ops /\ <<>> \in Seq(Ops)
  BY DEF Ops
<1> QED BY <1>1 DEF IdleClient, ClientRecord, Referencing

\* A goroutine that only moves on keeps its request.
LEMMA GotoType ==
  ASSUME TypeOK, NEW c \in Clients, NEW pc \in Referencing \cup {"idle", "recall", "notice"},
         Goto(c, pc)
  PROVE  /\ client' \in [Clients -> ClientRecord]
         /\ \A d \in Clients \ {c} : client'[d] = client[d]
         /\ client'[c].pc = pc
         /\ client'[c].target = client[c].target
         /\ client'[c].key = client[c].key
         /\ client'[c].lock = client[c].lock
         /\ client'[c].snapshot = client[c].snapshot
<1>1. client[c] \in ClientRecord
  BY DEF TypeOK
<1>2. [client[c] EXCEPT !.pc = pc] \in ClientRecord
  BY <1>1 DEF ClientRecord
<1> QED BY <1>1, <1>2 DEF TypeOK, Goto, ClientRecord

\* A goroutine that has read the message keeps its request and the segments.
LEMMA SnapshotType ==
  ASSUME TypeOK, NEW c \in Clients, NEW s \in Seq(Ops),
         client' = [client EXCEPT ![c] = [@ EXCEPT !.pc = "store", !.snapshot = s]]
  PROVE  /\ client' \in [Clients -> ClientRecord]
         /\ \A d \in Clients \ {c} : client'[d] = client[d]
         /\ client'[c].pc = "store"
         /\ client'[c].target = client[c].target
         /\ client'[c].key = client[c].key
         /\ client'[c].lock = client[c].lock
         /\ client'[c].snapshot = s
<1>1. client[c] \in ClientRecord
  BY DEF TypeOK
<1>2. [client[c] EXCEPT !.pc = "store", !.snapshot = s] \in ClientRecord
  BY <1>1 DEF ClientRecord, Referencing
<1> QED BY <1>1, <1>2 DEF TypeOK, ClientRecord

\* A goroutine with a request that names a message has a message as target.
Targeted == \A c \in Clients : client[c].pc # "idle" => client[c].target \in Messages

\* Init establishes the types.
LEMMA InitType == Init => TypeOK /\ Targeted
<1> SUFFICES ASSUME Init PROVE TypeOK /\ Targeted
  OBVIOUS
<1>1. IdleClient \in ClientRecord /\ IdleClient.pc = "idle"
  BY IdleType DEF IdleClient
<1>2. <<>> \in Seq(Ops)
  OBVIOUS
<1>3. held \in [Locks -> BOOLEAN]
  BY Zenon DEF Init
<1>4. client \in [Clients -> ClientRecord] /\ \A c \in Clients : client[c].pc = "idle"
  BY <1>1 DEF Init
<1> QED BY <1>2, <1>3, <1>4 DEF Init, TypeOK, Targeted

\* Every step of every handler keeps the types.
LEMMA StepType == TypeOK /\ Targeted /\ [Next]_vars => TypeOK' /\ Targeted'
<1> SUFFICES ASSUME TypeOK, Targeted, [Next]_vars PROVE TypeOK' /\ Targeted'
  OBVIOUS
<1>1. ASSUME NEW c \in Clients, NEW k \in Ops, NEW m \in Messages, TakeReference(c, k, m)
      PROVE  TypeOK' /\ Targeted'
  <2>1. PICK l \in Locks :
          /\ lockOf' = [lockOf EXCEPT ![m] = l]
          /\ refs' = [refs EXCEPT ![l] = @ + 1]
          /\ client' = [client EXCEPT ![c] = [IdleClient EXCEPT
                 !.pc = "wait", !.target = m, !.key = k, !.lock = l]]
    BY <1>1 DEF TakeReference
  <2>2. PICK r \in ClientRecord :
          /\ r = [IdleClient EXCEPT !.pc = "wait", !.target = m, !.key = k, !.lock = l]
          /\ r.target = m
    BY IdleType DEF IdleClient
  <2>3. client' \in [Clients -> ClientRecord] /\ Targeted'
    BY <2>1, <2>2 DEF TypeOK, Targeted
  <2>4. UNCHANGED <<status, segments, idem, held, broadcast, noticed>>
    BY <1>1 DEF TakeReference, store, sent
  <2> QED BY <2>1, <2>3, <2>4 DEF TypeOK
<1>2. ASSUME NEW c \in Clients, NEW m \in Messages, ReadForRecall(c, m)
      PROVE  TypeOK' /\ Targeted'
  <2>1. PICK r \in ClientRecord :
          /\ r = [IdleClient EXCEPT !.pc = "recall", !.target = m]
          /\ r.target = m
    BY IdleType DEF IdleClient
  <2>2. client' \in [Clients -> ClientRecord] /\ Targeted'
    BY <1>2, <2>1 DEF ReadForRecall, TypeOK, Targeted
  <2> QED BY <1>2, <2>2 DEF ReadForRecall, TypeOK, store, lockTable, sent
<1>3. ASSUME NEW c \in Clients, AcquireLock(c)
      PROVE  TypeOK' /\ Targeted'
  <2>1. PICK pc \in {"read", "check"} : Goto(c, pc)
    BY <1>3 DEF AcquireLock
  <2>2. client' \in [Clients -> ClientRecord] /\ Targeted'
    BY <1>3, <2>1, GotoType DEF AcquireLock, Targeted, Referencing
  <2>3. held' \in [Locks -> BOOLEAN]
    BY <1>3, Zenon DEF AcquireLock, TypeOK
  <2> QED BY <1>3, <2>2, <2>3 DEF AcquireLock, TypeOK, store, sent
<1>4. ASSUME NEW c \in Clients, Unlock(c)
      PROVE  TypeOK' /\ Targeted'
  <2>1. client' \in [Clients -> ClientRecord] /\ Targeted'
    BY <1>4, GotoType DEF Unlock, Targeted, Referencing
  <2>2. held' \in [Locks -> BOOLEAN]
    BY <1>4, Zenon DEF Unlock, TypeOK
  <2> QED BY <1>4, <2>1, <2>2 DEF Unlock, TypeOK, store, sent
<1>5. ASSUME NEW c \in Clients, DropReference(c)
      PROVE  TypeOK' /\ Targeted'
  <2>1. client' \in [Clients -> ClientRecord] /\ Targeted'
    <3>1. IdleClient \in ClientRecord /\ IdleClient.pc = "idle"
      BY IdleType DEF IdleClient
    <3>2. client' = [client EXCEPT ![c] = IdleClient]
      BY <1>5 DEF DropReference
    <3> QED BY <3>1, <3>2 DEF TypeOK, Targeted
  <2>2. refs' \in [Locks -> Int]
    <3>1. refs' = [refs EXCEPT ![client[c].lock] = @ - 1]
      BY <1>5 DEF DropReference
    <3>2. \A j \in Locks : refs[j] - 1 \in Int
      BY DEF TypeOK
    <3> QED BY <3>1, <3>2 DEF TypeOK
  <2>3. lockOf' \in [Messages -> Locks \cup {None}]
    <3>1. lockOf' = lockOf \/ lockOf' = [lockOf EXCEPT ![client[c].target] = None]
      BY <1>5 DEF DropReference
    <3> QED BY <3>1 DEF TypeOK
  <2> QED BY <1>5, <2>1, <2>2, <2>3 DEF DropReference, TypeOK, store, sent
<1>6. ASSUME NEW c \in Clients, LookupIdempotency(c) \/ CommitFails(c)
      PROVE  TypeOK' /\ Targeted'
  <2>1. PICK pc \in {"unlock", "read"} : Goto(c, pc) /\ client[c].pc # "idle"
    BY <1>6 DEF LookupIdempotency, CommitFails
  <2>2. client' \in [Clients -> ClientRecord] /\ Targeted'
    BY <2>1, GotoType DEF Targeted, Referencing
  <2> QED BY <1>6, <2>2 DEF LookupIdempotency, CommitFails, TypeOK, store, lockTable, sent
<1>7. ASSUME NEW c \in Clients, ReadMessage(c)
      PROVE  TypeOK' /\ Targeted'
  <2>1. client[c].target \in Messages
    BY <1>7 DEF ReadMessage, Targeted
  <2>2. client' \in [Clients -> ClientRecord] /\ Targeted'
    <3>1. CASE Goto(c, "unlock")
      BY <1>7, <3>1, GotoType DEF ReadMessage, Targeted, Referencing
    <3>2. CASE client' = [client EXCEPT ![c] = [@ EXCEPT !.pc = "store",
                                   !.snapshot = segments[client[c].target]]]
      BY <1>7, <2>1, <3>2, SnapshotType, ZenonT(30) DEF ReadMessage, Targeted, TypeOK
    <3> QED BY <1>7, <3>1, <3>2 DEF ReadMessage
  <2> QED BY <1>7, <2>2 DEF ReadMessage, TypeOK, store, lockTable, sent
<1>8. ASSUME NEW c \in Clients, CommitUpdate(c)
      PROVE  TypeOK' /\ Targeted'
  <2>1. client[c].target \in Messages /\ client[c].key \in Ops
        /\ client[c].snapshot \in Seq(Ops)
    BY <1>8 DEF CommitUpdate, Targeted, TypeOK, ClientRecord
  <2>2. PICK pc \in {"unlock", "broadcast"} : Goto(c, pc) /\ client[c].pc # "idle"
    BY <1>8 DEF CommitUpdate
  <2>3. client' \in [Clients -> ClientRecord] /\ Targeted'
    BY <2>2, GotoType DEF Targeted, Referencing
  <2>4. Append(client[c].snapshot, client[c].key) \in Seq(Ops)
    BY <2>1
  <2>5. segments' \in [Messages -> Seq(Ops)] /\ idem' \in [Keys -> Messages \cup {None}]
        /\ status' = status
    BY <1>8, <2>1, <2>4 DEF CommitUpdate, TypeOK, store
  <2> QED BY <1>8, <2>3, <2>5 DEF CommitUpdate, TypeOK, lockTable, sent
<1>9. ASSUME NEW c \in Clients, BroadcastUpdate(c)
      PROVE  TypeOK' /\ Targeted'
  <2>1. client[c].target \in Messages /\ client[c].key \in Ops
    BY <1>9 DEF BroadcastUpdate, Targeted, TypeOK, ClientRecord
  <2>2. client' \in [Clients -> ClientRecord] /\ Targeted'
    BY <1>9, GotoType DEF BroadcastUpdate, Targeted, Referencing
  <2>3. broadcast' \in [Messages -> Seq(Ops)]
    BY <1>9, <2>1 DEF BroadcastUpdate, TypeOK
  <2> QED BY <1>9, <2>2, <2>3 DEF BroadcastUpdate, TypeOK, store, lockTable
<1>10. ASSUME NEW c \in Clients, CommitRecall(c) \/ NoticeRecall(c)
       PROVE  TypeOK' /\ Targeted'
  <2>1. IdleClient \in ClientRecord /\ IdleClient.pc = "idle"
    BY IdleType DEF IdleClient
  <2>2. client[c].target \in Messages
    BY <1>10 DEF CommitRecall, NoticeRecall, Targeted
  <2>3. client' \in [Clients -> ClientRecord] /\ Targeted'
    <3>1. CASE client' = [client EXCEPT ![c] = IdleClient]
      BY <2>1, <3>1 DEF TypeOK, Targeted
    <3>2. CASE Goto(c, "notice")
      BY <2>2, <3>2, GotoType DEF Targeted
    <3> QED BY <1>10, <3>1, <3>2 DEF CommitRecall, NoticeRecall
  <2>4. status' \in [Messages -> {"live", "recalled", "deleted"}] /\ noticed' \subseteq Messages
    BY <1>10, <2>2 DEF CommitRecall, NoticeRecall, TypeOK, store, sent
  <2> QED BY <1>10, <2>3, <2>4 DEF CommitRecall, NoticeRecall, TypeOK, store, lockTable, sent
<1>11. ASSUME NEW m \in Messages, DeleteMessage(m)
       PROVE  TypeOK' /\ Targeted'
  BY <1>11 DEF DeleteMessage, TypeOK, Targeted, lockTable, sent
<1>12. CASE UNCHANGED vars
  BY <1>12 DEF vars, TypeOK, Targeted
<1> QED BY <1>1, <1>2, <1>3, <1>4, <1>5, <1>6, <1>7, <1>8, <1>9, <1>10, <1>11, <1>12
        DEF Next, HandlerStep

\* Every variable keeps its type: no interleaving of updates, recalls and
\* deletions leaves a record, a count or a map entry of the wrong kind.
THEOREM TypeCorrect == Spec => [](TypeOK /\ Targeted)
BY InitType, StepType, PTL DEF Spec

-----------------------------------------------------------------------------
(* The locks *)

\* A step that moves no goroutine into or out of its references and critical
\* section and leaves the locks alone preserves the lock invariant.
LEMMA LockFrame ==
  ASSUME LockInv, UNCHANGED lockTable,
         \A d \in Clients :
            /\ client'[d].pc \in Referencing <=> client[d].pc \in Referencing
            /\ client'[d].pc \in Critical <=> client[d].pc \in Critical
            /\ client[d].pc \in Referencing =>
                  client'[d].target = client[d].target /\ client'[d].lock = client[d].lock
  PROVE  LockInv'
<1> USE DEF LockInv, lockTable
<1>1. \A d \in Clients : client[d].pc \in Critical => client[d].pc \in Referencing
  BY DEF Critical, Referencing
<1>2. ReferencesValid'
  BY DEF ReferencesValid
<1>3. MapExact'
  BY DEF MapExact
<1>4. CountsExact'
  <2>1. \A l \in Locks : Referrers(l)' = Referrers(l)
    BY DEF Referrers
  <2> QED BY <2>1 DEF CountsExact
<1>5. HolderExclusive'
  BY <1>1 DEF HolderExclusive
<1> QED BY <1>2, <1>3, <1>4, <1>5

\* The lock invariant holds initially.
LEMMA LockInit == Init => LockInv
<1> SUFFICES ASSUME Init PROVE LockInv
  OBVIOUS
<1>1. \A c \in Clients : client[c].pc = "idle"
  BY DEF Init, IdleClient
<1>2. \A c \in Clients : client[c].pc \notin Referencing /\ client[c].pc \notin Critical
  BY <1>1 DEF Referencing, Critical
<1>3. CountsExact
  <2>1. \A l \in Locks : Referrers(l) = {}
    BY <1>2 DEF Referrers
  <2>2. \A l \in Locks : refs[l] = 0
    BY DEF Init
  <2> QED BY <2>1, <2>2, FS_EmptySet DEF CountsExact
<1>4. ReferencesValid /\ HolderExclusive
  BY <1>2 DEF ReferencesValid, HolderExclusive
<1>5. MapExact
  BY DEF MapExact, Init
<1> QED BY <1>3, <1>4, <1>5 DEF LockInv

\* Taking and releasing the mutex keeps every critical section exclusive.
LEMMA MutexPreserves ==
  ASSUME TypeOK, LockInv, NEW c \in Clients, AcquireLock(c) \/ Unlock(c)
  PROVE  LockInv'
<1>1. PICK pc \in {"read", "check", "deref"} :
        Goto(c, pc) /\ client[c].pc \in {"wait", "unlock"}
  BY DEF AcquireLock, Unlock
<1>2. /\ client'[c].target = client[c].target /\ client'[c].lock = client[c].lock
      /\ client'[c].pc = pc
      /\ \A d \in Clients \ {c} : client'[d] = client[d]
  BY <1>1, GotoType DEF Referencing
<1>3. \A d \in Clients : /\ client'[d].pc \in Referencing <=> client[d].pc \in Referencing
                         /\ client'[d].target = client[d].target
                         /\ client'[d].lock = client[d].lock
  BY <1>1, <1>2 DEF Referencing
<1>4. UNCHANGED <<lockOf, refs>>
  BY DEF AcquireLock, Unlock
<1>5. ReferencesValid' /\ MapExact'
  BY <1>3, <1>4 DEF LockInv, ReferencesValid, MapExact
<1>6. CountsExact'
  <2>1. \A l \in Locks : Referrers(l)' = Referrers(l)
    BY <1>3 DEF Referrers
  <2> QED BY <1>4, <2>1 DEF LockInv, CountsExact
<1>7. \A d \in Clients : client[d].pc \in Critical => client[d].lock \in Locks
  BY DEF LockInv, ReferencesValid, Critical, Referencing
<1>8. client[c].lock \in Locks
  BY <1>1 DEF LockInv, ReferencesValid, Referencing
<1>9. HolderExclusive'
  <2>1. CASE AcquireLock(c)
    <3>1. \A l \in Locks : held'[l] <=> held[l] \/ l = client[c].lock
      BY <1>8, <2>1, Zenon DEF AcquireLock, TypeOK
    <3>2. \A d \in Clients : client[d].pc \in Critical => client[d].lock # client[c].lock
      BY <2>1 DEF AcquireLock, LockInv, HolderExclusive
    <3>3. \A d \in Clients \ {c} : client'[d].pc \in Critical <=> client[d].pc \in Critical
      BY <1>2
    <3> QED BY <1>3, <1>7, <1>8, <3>1, <3>2, <3>3 DEF LockInv, HolderExclusive
  <2>2. CASE Unlock(c)
    <3>1. \A l \in Locks : held'[l] <=> held[l] /\ l # client[c].lock
      BY <1>8, <2>2, Zenon DEF Unlock, TypeOK
    <3>2. client[c].pc \in Critical /\ client'[c].pc \notin Critical
      <4>1. Goto(c, "deref") /\ client[c].pc = "unlock"
        BY <2>2 DEF Unlock
      <4> QED BY <4>1, GotoType DEF Critical, Referencing
    <3>3. \A d \in Clients \ {c} : client[d].pc \in Critical => client[d].lock # client[c].lock
      BY <3>2 DEF LockInv, HolderExclusive
    <3> QED BY <1>2, <1>3, <1>7, <3>1, <3>2, <3>3 DEF LockInv, HolderExclusive
  <2> QED BY <2>1, <2>2
<1> QED BY <1>5, <1>6, <1>9 DEF LockInv

\* Finding or creating the lock of a message keeps the map and counts exact.
LEMMA TakePreserves ==
  ASSUME TypeOK, LockInv, NEW c \in Clients, NEW k \in Ops, NEW m \in Messages,
         TakeReference(c, k, m)
  PROVE  LockInv'
<1>1. PICK l \in Locks :
        /\ \/ lockOf[m] # None /\ l = lockOf[m]
           \/ lockOf[m] = None /\ refs[l] = 0 /\ \A n \in Messages : lockOf[n] # l
        /\ lockOf' = [lockOf EXCEPT ![m] = l]
        /\ refs' = [refs EXCEPT ![l] = @ + 1]
        /\ client' = [client EXCEPT ![c] = [IdleClient EXCEPT
               !.pc = "wait", !.target = m, !.key = k, !.lock = l]]
  BY DEF TakeReference
<1>2. client[c].pc = "idle" /\ held' = held
  BY DEF TakeReference
<1>3. /\ client'[c].pc = "wait" /\ client'[c].target = m /\ client'[c].lock = l
      /\ \A d \in Clients \ {c} : client'[d] = client[d]
  <2>1. PICK r \in ClientRecord :
          /\ r = [IdleClient EXCEPT !.pc = "wait", !.target = m, !.key = k, !.lock = l]
          /\ r.pc = "wait" /\ r.target = m /\ r.lock = l
    BY IdleType DEF IdleClient
  <2> QED BY <1>1, <2>1 DEF TypeOK
<1>4. /\ client[c].pc \notin Referencing /\ client[c].pc \notin Critical
      /\ client'[c].pc \in Referencing /\ client'[c].pc \notin Critical
  BY <1>2, <1>3 DEF Referencing, Critical
<1>5. None \notin Locks
  BY DynamicAssumption
<1>6. lockOf'[m] = l /\ \A n \in Messages \ {m} : lockOf'[n] = lockOf[n]
  BY <1>1 DEF TypeOK
<1>7. ReferencesValid'
  <2>1. ASSUME NEW d \in Clients, client'[d].pc \in Referencing, d # c
        PROVE  /\ client'[d].target \in Messages /\ client'[d].lock \in Locks
               /\ lockOf'[client'[d].target] = client'[d].lock
    <3>1. /\ client[d].target \in Messages /\ client[d].lock \in Locks
          /\ lockOf[client[d].target] = client[d].lock
          /\ client'[d] = client[d]
      BY <1>3, <2>1 DEF LockInv, ReferencesValid
    <3> QED BY <1>1, <1>5, <1>6, <3>1
  <2> QED BY <1>3, <1>6, <2>1 DEF ReferencesValid
<1>8. MapExact'
  <2>1. ASSUME NEW n \in Messages, lockOf'[n] # None
        PROVE  \E d \in Clients : client'[d].pc \in Referencing /\ client'[d].target = n
    <3>1. CASE n = m
      BY <1>3, <1>4, <3>1
    <3>2. CASE n # m
      <4>1. PICK d \in Clients : client[d].pc \in Referencing /\ client[d].target = n
        BY <1>6, <2>1, <3>2 DEF LockInv, MapExact
      <4> QED BY <1>3, <1>4, <4>1
    <3> QED BY <3>1, <3>2
  <2>2. \A n \in Messages \ {m} : lockOf[n] # l
    BY <1>1, <1>5 DEF LockInv, MapExact
  <2>3. \A n, o \in Messages : lockOf'[n] = lockOf'[o] /\ lockOf'[n] # None => n = o
    BY <1>6, <2>2 DEF LockInv, MapExact
  <2> QED BY <2>1, <2>3 DEF MapExact
<1>9. CountsExact'
  <2>1. ASSUME NEW j \in Locks PROVE refs'[j] = Cardinality(Referrers(j)')
    <3>1. IsFiniteSet(Referrers(j))
      BY FS_Subset, DynamicAssumption DEF Referrers
    <3>2. refs[j] = Cardinality(Referrers(j))
      BY DEF LockInv, CountsExact
    <3>3. CASE j = l
      <4>1. Referrers(j)' = Referrers(j) \cup {c}
        BY <1>3, <1>4, <3>3 DEF Referrers
      <4>2. c \notin Referrers(j)
        BY <1>4 DEF Referrers
      <4> QED BY <1>1, <3>1, <3>2, <3>3, <4>1, <4>2, FS_AddElement, ZenonT(30) DEF TypeOK
    <3>4. CASE j # l
      <4>1. Referrers(j)' = Referrers(j)
        BY <1>3, <1>4, <3>4 DEF Referrers
      <4> QED BY <1>1, <3>2, <3>4, <4>1 DEF TypeOK
    <3> QED BY <3>3, <3>4
  <2> QED BY <2>1 DEF CountsExact
<1>10. HolderExclusive'
  BY <1>2, <1>3, <1>4 DEF LockInv, HolderExclusive
<1> QED BY <1>7, <1>8, <1>9, <1>10 DEF LockInv

\* Dropping the last reference removes an entry that nobody else refers to;
\* dropping another one leaves the entry to those who do.
LEMMA DropPreserves ==
  ASSUME TypeOK, LockInv, NEW c \in Clients, DropReference(c)
  PROVE  LockInv'
<1>1. PICK l \in Locks, m \in Messages :
        /\ client[c].lock = l /\ client[c].target = m /\ lockOf[m] = l
        /\ client[c].pc = "deref"
  BY DEF DropReference, LockInv, ReferencesValid, Referencing
<1>2. /\ refs' = [refs EXCEPT ![l] = @ - 1]
      /\ refs[l] = 1 => lockOf' = [lockOf EXCEPT ![m] = None]
      /\ refs[l] # 1 => lockOf' = lockOf
      /\ client' = [client EXCEPT ![c] = IdleClient]
      /\ held' = held
  BY <1>1 DEF DropReference
<1>3. client'[c].pc = "idle" /\ \A d \in Clients \ {c} : client'[d] = client[d]
  BY <1>2 DEF TypeOK, IdleClient
<1>4. /\ client[c].pc \in Referencing
      /\ client'[c].pc \notin Referencing /\ client'[c].pc \notin Critical
  BY <1>1, <1>3 DEF Referencing, Critical
<1>5. None \notin Locks
  BY DynamicAssumption
<1>6. IsFiniteSet(Referrers(l)) /\ refs[l] = Cardinality(Referrers(l)) /\ c \in Referrers(l)
  <2>1. IsFiniteSet(Referrers(l))
    BY FS_Subset, DynamicAssumption DEF Referrers
  <2> QED BY <1>1, <1>4, <2>1 DEF Referrers, LockInv, CountsExact
<1>7. refs[l] = 1 <=> Referrers(l) = {c}
  <2>1. refs[l] = 1 <=> \E x : Referrers(l) = {x}
    BY <1>6, FS_Singleton
  <2> QED BY <1>6, <2>1
<1>8. \A d \in Clients : client[d].pc \in Referencing /\ client[d].target = m
                         => d \in Referrers(l)
  BY <1>1 DEF LockInv, ReferencesValid, Referrers
<1>9. ReferencesValid'
  <2>1. ASSUME NEW d \in Clients, client'[d].pc \in Referencing
        PROVE  /\ client'[d].target \in Messages /\ client'[d].lock \in Locks
               /\ lockOf'[client'[d].target] = client'[d].lock
    <3>1. /\ client[d].target \in Messages /\ client[d].lock \in Locks
          /\ lockOf[client[d].target] = client[d].lock
          /\ client'[d] = client[d] /\ d # c
      BY <1>3, <1>4, <2>1 DEF LockInv, ReferencesValid
    <3>2. client[d].target = m => refs[l] # 1
      BY <1>3, <1>7, <1>8, <2>1, <3>1
    <3> QED BY <1>2, <3>1, <3>2 DEF TypeOK
  <2> QED BY <2>1 DEF ReferencesValid
<1>10. MapExact'
  <2>1. ASSUME NEW n \in Messages, lockOf'[n] # None
        PROVE  \E d \in Clients : client'[d].pc \in Referencing /\ client'[d].target = n
    <3>1. CASE n = m
      <4>1. refs[l] # 1
        BY <1>2, <2>1, <3>1 DEF TypeOK
      <4>2. PICK d \in Referrers(l) : d # c
        BY <1>6, <1>7, <4>1
      <4>3. d \in Clients /\ client[d].pc \in Referencing /\ client[d].lock = l
        BY <4>2 DEF Referrers
      <4>4. client[d].target = m
        BY <1>1, <1>5, <4>3 DEF LockInv, ReferencesValid, MapExact
      <4> QED BY <1>3, <3>1, <4>2, <4>3, <4>4
    <3>2. CASE n # m
      <4>1. lockOf[n] # None
        BY <1>2, <2>1, <3>2 DEF TypeOK
      <4>2. PICK d \in Clients : client[d].pc \in Referencing /\ client[d].target = n
        BY <4>1 DEF LockInv, MapExact
      <4> QED BY <1>1, <1>3, <3>2, <4>2
    <3> QED BY <3>1, <3>2
  <2>2. \A n \in Messages : lockOf'[n] # None => lockOf'[n] = lockOf[n]
    BY <1>2 DEF TypeOK
  <2>3. \A n, o \in Messages : lockOf'[n] = lockOf'[o] /\ lockOf'[n] # None => n = o
    BY <2>2 DEF LockInv, MapExact
  <2> QED BY <2>1, <2>3 DEF MapExact
<1>11. CountsExact'
  <2>1. ASSUME NEW j \in Locks PROVE refs'[j] = Cardinality(Referrers(j)')
    <3>1. CASE j = l
      <4>1. Referrers(j)' = Referrers(l) \ {c}
        BY <1>3, <1>4, <3>1 DEF Referrers
      <4> QED BY <1>2, <1>6, <3>1, <4>1, FS_RemoveElement DEF TypeOK
    <3>2. CASE j # l
      <4>1. Referrers(j)' = Referrers(j)
        BY <1>1, <1>3, <1>4, <3>2 DEF Referrers
      <4> QED BY <1>2, <3>2, <4>1 DEF TypeOK, LockInv, CountsExact
    <3> QED BY <3>1, <3>2
  <2> QED BY <2>1 DEF CountsExact
<1>12. HolderExclusive'
  BY <1>2, <1>3, <1>4 DEF LockInv, HolderExclusive
<1> QED BY <1>9, <1>10, <1>11, <1>12 DEF LockInv

\* Every step preserves the lock invariant.
LEMMA LockStep == TypeOK /\ LockInv /\ [Next]_vars => LockInv'
<1> SUFFICES ASSUME TypeOK, LockInv, [Next]_vars PROVE LockInv'
  OBVIOUS
<1>1. ASSUME NEW c \in Clients, NEW k \in Ops, NEW m \in Messages, TakeReference(c, k, m)
      PROVE  LockInv'
  BY <1>1, TakePreserves
<1>2. ASSUME NEW c \in Clients, NEW m \in Messages, ReadForRecall(c, m)
      PROVE  LockInv'
  <2>1. client'[c].pc = "recall" /\ \A d \in Clients \ {c} : client'[d] = client[d]
    BY <1>2 DEF ReadForRecall, TypeOK, IdleClient
  <2>2. client[c].pc = "idle" /\ UNCHANGED lockTable
    BY <1>2 DEF ReadForRecall
  <2> QED BY <2>1, <2>2, LockFrame DEF Referencing, Critical
<1>3. ASSUME NEW c \in Clients, AcquireLock(c) \/ Unlock(c)
      PROVE  LockInv'
  BY <1>3, MutexPreserves
<1>4. ASSUME NEW c \in Clients, DropReference(c)
      PROVE  LockInv'
  BY <1>4, DropPreserves
<1>5. ASSUME NEW c \in Clients,
             \/ LookupIdempotency(c) \/ ReadMessage(c) \/ CommitUpdate(c)
             \/ CommitFails(c) \/ BroadcastUpdate(c)
      PROVE  LockInv'
  <2>1. UNCHANGED lockTable /\ client[c].pc \in {"check", "read", "store", "broadcast"}
    BY <1>5 DEF LookupIdempotency, ReadMessage, CommitUpdate, CommitFails, BroadcastUpdate
  <2>2. /\ client'[c].pc \in {"read", "store", "broadcast", "unlock"}
        /\ client'[c].target = client[c].target /\ client'[c].lock = client[c].lock
        /\ \A d \in Clients \ {c} : client'[d] = client[d]
    <3>1. CASE \E pc \in {"read", "broadcast", "unlock"} : Goto(c, pc)
      BY <3>1, GotoType DEF Referencing
    <3>2. CASE ReadMessage(c)
      <4>1. segments[client[c].target] \in Seq(Ops)
        BY <2>1 DEF TypeOK, LockInv, ReferencesValid, Referencing
      <4>2. CASE Goto(c, "unlock")
        BY <3>1, <4>2
      <4>3. CASE client' = [client EXCEPT ![c] = [@ EXCEPT !.pc = "store",
                                     !.snapshot = segments[client[c].target]]]
        BY <4>1, <4>3, SnapshotType
      <4> QED BY <3>2, <4>2, <4>3 DEF ReadMessage
    <3> QED BY <1>5, <3>1, <3>2
            DEF LookupIdempotency, CommitUpdate, CommitFails, BroadcastUpdate
  <2> QED BY <2>1, <2>2, LockFrame DEF Referencing, Critical
<1>6. ASSUME NEW c \in Clients, CommitRecall(c) \/ NoticeRecall(c)
      PROVE  LockInv'
  <2>1. UNCHANGED lockTable /\ client[c].pc \in {"recall", "notice"}
    BY <1>6 DEF CommitRecall, NoticeRecall
  <2>2. client'[c].pc \in {"idle", "notice"} /\ \A d \in Clients \ {c} : client'[d] = client[d]
    <3>1. CASE client' = [client EXCEPT ![c] = IdleClient]
      BY <3>1 DEF TypeOK, IdleClient
    <3>2. CASE Goto(c, "notice")
      BY <3>2, GotoType
    <3> QED BY <1>6, <3>1, <3>2 DEF CommitRecall, NoticeRecall
  <2> QED BY <2>1, <2>2, LockFrame DEF Referencing, Critical
<1>7. ASSUME NEW m \in Messages, DeleteMessage(m)
      PROVE  LockInv'
  BY <1>7, LockFrame DEF DeleteMessage
<1>8. CASE UNCHANGED vars
  BY <1>8, LockFrame DEF vars, lockTable
<1> QED BY <1>1, <1>2, <1>3, <1>4, <1>5, <1>6, <1>7, <1>8 DEF Next, HandlerStep

\* What the lock invariant says of the messages.
LEMMA LockInvImplies == LockInv => MutualExclusion /\ LocksReclaimed
<1> SUFFICES ASSUME LockInv PROVE MutualExclusion /\ LocksReclaimed
  OBVIOUS
<1>1. \A c \in Clients : client[c].pc \in Critical => client[c].pc \in Referencing
  BY DEF Critical, Referencing
<1>2. MutualExclusion
  BY <1>1 DEF LockInv, ReferencesValid, HolderExclusive, MutualExclusion
<1>3. LocksReclaimed
  <2>1. \A m \in Messages :
          lockOf[m] # None <=> \E c \in Clients : client[c].pc \in Referencing /\ client[c].target = m
    BY DynamicAssumption DEF LockInv, ReferencesValid, MapExact
  <2>2. \A c \in Clients :
          client[c].pc \in Referencing => lockOf[client[c].target] = client[c].lock
    BY DEF LockInv, ReferencesValid
  <2>3. \A l \in Locks :
          refs[l] = Cardinality({c \in Clients : client[c].pc \in Referencing /\ client[c].lock = l})
    BY DEF LockInv, CountsExact, Referrers
  <2> QED BY <2>1, <2>2, <2>3 DEF LocksReclaimed
<1> QED BY <1>2, <1>3

\* lockDynamicMessageUpdate serialises the updates of a message under every
\* interleaving of any number of connections, although the lock objects in the
\* map are removed and created anew; and the map never leaks an entry.
THEOREM UpdatesExclude == Spec => [](MutualExclusion /\ LocksReclaimed)
<1>1. Init => TypeOK /\ Targeted /\ LockInv
  BY InitType, LockInit
<1>2. TypeOK /\ Targeted /\ LockInv /\ [Next]_vars => (TypeOK /\ Targeted /\ LockInv)'
  BY StepType, LockStep
<1> QED BY <1>1, <1>2, LockInvImplies, PTL DEF Spec

-----------------------------------------------------------------------------
(* The content *)

\* What a goroutine in its critical section knows of its message, and that the
\* devices have seen everything that is not about to be broadcast.
ContentInv ==
    /\ \A c \in Clients : client[c].pc = "store" =>
          client[c].snapshot = segments[client[c].target]
    /\ \A c \in Clients : client[c].pc = "broadcast" =>
          segments[client[c].target] = Append(broadcast[client[c].target], client[c].key)
    /\ \A m \in Messages :
          (\A c \in Clients : ~(client[c].pc = "broadcast" /\ client[c].target = m))
              => broadcast[m] = segments[m]

\* A step that writes neither content nor broadcast preserves ContentInv when
\* no goroutine begins to store but after reading.
LEMMA ContentFrame ==
  ASSUME ContentInv, UNCHANGED <<segments, broadcast>>,
         \A d \in Clients :
            /\ client'[d].pc = "broadcast" <=> client[d].pc = "broadcast"
            /\ client[d].pc = "broadcast" =>
                  client'[d].target = client[d].target /\ client'[d].key = client[d].key
            /\ client'[d].pc = "store" =>
                  \/ /\ client[d].pc = "store" /\ client'[d].target = client[d].target
                     /\ client'[d].snapshot = client[d].snapshot
                  \/ client'[d].snapshot = segments[client'[d].target]
  PROVE  ContentInv'
<1> USE DEF ContentInv
<1>1. \A d \in Clients : client'[d].pc = "store" =>
          client'[d].snapshot = segments'[client'[d].target]
  OBVIOUS
<1>2. \A d \in Clients : client'[d].pc = "broadcast" =>
          segments'[client'[d].target] = Append(broadcast'[client'[d].target], client'[d].key)
  OBVIOUS
<1>3. ASSUME NEW m \in Messages,
             \A d \in Clients : ~(client'[d].pc = "broadcast" /\ client'[d].target = m)
      PROVE  broadcast'[m] = segments'[m]
  BY <1>3
<1> QED BY <1>1, <1>2, <1>3

\* Committing an update appends it to exactly what the devices have seen.
LEMMA CommitPreserves ==
  ASSUME TypeOK, Targeted, MutualExclusion, ContentInv, NEW c \in Clients, CommitUpdate(c)
  PROVE  ContentInv'
<1>1. PICK m \in Messages, k \in Ops : client[c].target = m /\ client[c].key = k
  BY DEF CommitUpdate, Targeted, TypeOK, ClientRecord
<1>2. client[c].pc = "store" /\ broadcast' = broadcast
  BY DEF CommitUpdate, sent
<1>3. CASE UNCHANGED segments /\ Goto(c, "unlock")
  <2>1. client'[c].pc = "unlock" /\ \A d \in Clients \ {c} : client'[d] = client[d]
    BY <1>3, GotoType DEF Referencing
  <2> QED BY <1>2, <1>3, <2>1, ContentFrame
<1>4. CASE /\ segments' = [segments EXCEPT ![m] = Append(client[c].snapshot, k)]
           /\ Goto(c, "broadcast")
  <2>1. /\ client'[c].pc = "broadcast" /\ client'[c].target = m /\ client'[c].key = k
        /\ \A d \in Clients \ {c} : client'[d] = client[d]
    BY <1>1, <1>4, GotoType DEF Referencing
  <2>2. \A d \in Clients \ {c} : client[d].pc \in {"store", "broadcast"} =>
            client[d].target \in Messages /\ client[d].target # m
    BY <1>1, <1>2 DEF MutualExclusion, Critical, Targeted
  <2>3. broadcast[m] = segments[m] /\ client[c].snapshot = segments[m]
    BY <1>1, <1>2, <2>2 DEF ContentInv
  <2>4. /\ segments'[m] = Append(broadcast[m], k)
        /\ \A n \in Messages \ {m} : segments'[n] = segments[n]
    BY <1>4, <2>3 DEF TypeOK
  <2>5. \A d \in Clients : client'[d].pc = "store" =>
            client'[d].snapshot = segments'[client'[d].target]
    BY <2>1, <2>2, <2>4 DEF ContentInv
  <2>6. ASSUME NEW d \in Clients, client'[d].pc = "broadcast"
        PROVE  segments'[client'[d].target] = Append(broadcast'[client'[d].target], client'[d].key)
    <3>1. CASE d = c
      BY <1>2, <2>1, <2>4, <3>1
    <3>2. CASE d # c
      <4>1. client'[d] = client[d] /\ client[d].pc = "broadcast"
        BY <2>1, <2>6, <3>2
      <4>2. segments[client[d].target] = Append(broadcast[client[d].target], client[d].key)
        BY <4>1 DEF ContentInv
      <4> QED BY <1>2, <2>2, <2>4, <3>2, <4>1, <4>2
    <3> QED BY <3>1, <3>2
  <2>7. ASSUME NEW n \in Messages,
               \A d \in Clients : ~(client'[d].pc = "broadcast" /\ client'[d].target = n)
        PROVE  broadcast'[n] = segments'[n]
    <3>1. n # m
      BY <2>1, <2>7
    <3>2. \A d \in Clients : ~(client[d].pc = "broadcast" /\ client[d].target = n)
      BY <1>2, <2>1, <2>7
    <3> QED BY <1>2, <2>4, <3>1, <3>2 DEF ContentInv
  <2> QED BY <2>5, <2>6, <2>7 DEF ContentInv
<1> QED BY <1>1, <1>3, <1>4 DEF CommitUpdate, store

\* Broadcasting an update brings the devices up to date with the content.
LEMMA BroadcastPreserves ==
  ASSUME TypeOK, Targeted, MutualExclusion, ContentInv, NEW c \in Clients, BroadcastUpdate(c)
  PROVE  ContentInv'
<1>1. PICK m \in Messages, k \in Ops :
        client[c].target = m /\ client[c].key = k /\ client[c].pc = "broadcast"
  BY DEF BroadcastUpdate, Targeted, TypeOK, ClientRecord
<1>2. /\ segments' = segments
      /\ broadcast' = [broadcast EXCEPT ![m] = Append(broadcast[m], k)]
  BY <1>1 DEF BroadcastUpdate, store
<1>3. client'[c].pc = "unlock" /\ \A d \in Clients \ {c} : client'[d] = client[d]
  BY GotoType DEF BroadcastUpdate, Referencing
<1>4. \A d \in Clients \ {c} : client[d].pc = "broadcast" =>
          client[d].target \in Messages /\ client[d].target # m
  BY <1>1 DEF MutualExclusion, Critical, Targeted
<1>5. /\ broadcast'[m] = segments[m]
      /\ \A n \in Messages \ {m} : broadcast'[n] = broadcast[n]
  BY <1>1, <1>2 DEF ContentInv, TypeOK
<1>6. \A d \in Clients : client'[d].pc = "store" =>
          client'[d].snapshot = segments'[client'[d].target]
  BY <1>2, <1>3 DEF ContentInv
<1>7. \A d \in Clients : client'[d].pc = "broadcast" =>
          segments'[client'[d].target] = Append(broadcast'[client'[d].target], client'[d].key)
  BY <1>2, <1>3, <1>4, <1>5, SMTT(30) DEF ContentInv
<1>8. ASSUME NEW n \in Messages,
             \A d \in Clients : ~(client'[d].pc = "broadcast" /\ client'[d].target = n)
      PROVE  broadcast'[n] = segments'[n]
  <2>1. CASE n = m
    BY <1>2, <1>5, <2>1
  <2>2. CASE n # m
    <3>1. \A d \in Clients : ~(client[d].pc = "broadcast" /\ client[d].target = n)
      BY <1>1, <1>3, <1>8, <2>2
    <3> QED BY <1>2, <1>5, <2>2, <3>1 DEF ContentInv
  <2> QED BY <2>1, <2>2
<1> QED BY <1>6, <1>7, <1>8 DEF ContentInv

\* Every step preserves ContentInv; MutualExclusion keeps others out between a
\* goroutine's read, its commit and its broadcast.
LEMMA ContentStep ==
  TypeOK /\ Targeted /\ MutualExclusion /\ ContentInv /\ [Next]_vars => ContentInv'
<1> SUFFICES ASSUME TypeOK, Targeted, MutualExclusion, ContentInv, [Next]_vars
             PROVE  ContentInv'
  OBVIOUS
<1>1. ASSUME NEW c \in Clients, NEW k \in Ops, NEW m \in Messages, TakeReference(c, k, m)
      PROVE  ContentInv'
  <2>1. client'[c].pc = "wait" /\ \A d \in Clients \ {c} : client'[d] = client[d]
    BY <1>1 DEF TakeReference, TypeOK, IdleClient
  <2> QED BY <1>1, <2>1, ContentFrame DEF TakeReference, store, sent
<1>2. ASSUME NEW c \in Clients, NEW m \in Messages, ReadForRecall(c, m)
      PROVE  ContentInv'
  <2>1. client'[c].pc = "recall" /\ \A d \in Clients \ {c} : client'[d] = client[d]
    BY <1>2 DEF ReadForRecall, TypeOK, IdleClient
  <2> QED BY <1>2, <2>1, ContentFrame DEF ReadForRecall, store, sent
<1>3. ASSUME NEW c \in Clients,
             AcquireLock(c) \/ Unlock(c) \/ LookupIdempotency(c) \/ CommitFails(c)
      PROVE  ContentInv'
  <2>1. PICK pc \in {"read", "check", "deref", "unlock"} :
          Goto(c, pc) /\ client[c].pc # "broadcast"
    BY <1>3 DEF AcquireLock, Unlock, LookupIdempotency, CommitFails
  <2>2. client'[c].pc = pc /\ \A d \in Clients \ {c} : client'[d] = client[d]
    BY <2>1, GotoType DEF Referencing
  <2>3. UNCHANGED <<segments, broadcast>>
    BY <1>3 DEF AcquireLock, Unlock, LookupIdempotency, CommitFails, store, sent
  <2> QED BY <2>1, <2>2, <2>3, ContentFrame
<1>4. ASSUME NEW c \in Clients, DropReference(c) \/ CommitRecall(c) \/ NoticeRecall(c)
      PROVE  ContentInv'
  <2>1. /\ client'[c].pc \in {"idle", "notice"} /\ client[c].pc # "broadcast"
        /\ \A d \in Clients \ {c} : client'[d] = client[d]
    <3>1. CASE client' = [client EXCEPT ![c] = IdleClient]
      BY <1>4, <3>1 DEF TypeOK, IdleClient, DropReference, CommitRecall, NoticeRecall
    <3>2. CASE Goto(c, "notice")
      BY <1>4, <3>2, GotoType DEF DropReference, CommitRecall, NoticeRecall
    <3> QED BY <1>4, <3>1, <3>2 DEF DropReference, CommitRecall, NoticeRecall
  <2>2. UNCHANGED <<segments, broadcast>>
    BY <1>4 DEF DropReference, CommitRecall, NoticeRecall, store, sent
  <2> QED BY <2>1, <2>2, ContentFrame
<1>5. ASSUME NEW c \in Clients, ReadMessage(c)
      PROVE  ContentInv'
  <2>1. UNCHANGED <<segments, broadcast>> /\ client[c].pc = "read"
        /\ segments[client[c].target] \in Seq(Ops)
    BY <1>5 DEF ReadMessage, store, sent, TypeOK, Targeted
  <2>2. CASE Goto(c, "unlock")
    <3>1. client'[c].pc = "unlock" /\ \A d \in Clients \ {c} : client'[d] = client[d]
      BY <2>2, GotoType DEF Referencing
    <3> QED BY <2>1, <3>1, ContentFrame
  <2>3. CASE client' = [client EXCEPT ![c] = [@ EXCEPT !.pc = "store",
                                 !.snapshot = segments[client[c].target]]]
    <3>1. /\ client'[c].pc = "store" /\ client'[c].target = client[c].target
          /\ client'[c].snapshot = segments[client[c].target]
          /\ \A d \in Clients \ {c} : client'[d] = client[d]
      BY <2>1, <2>3, SnapshotType
    <3> QED BY <2>1, <3>1, ContentFrame
  <2> QED BY <1>5, <2>2, <2>3 DEF ReadMessage
<1>6. ASSUME NEW c \in Clients, CommitUpdate(c) \/ BroadcastUpdate(c)
      PROVE  ContentInv'
  BY <1>6, CommitPreserves, BroadcastPreserves
<1>7. ASSUME NEW m \in Messages, DeleteMessage(m)
      PROVE  ContentInv'
  BY <1>7, ContentFrame DEF DeleteMessage, sent
<1>8. CASE UNCHANGED vars
  BY <1>8, ContentFrame DEF vars
<1> QED BY <1>1, <1>2, <1>3, <1>4, <1>5, <1>6, <1>7, <1>8 DEF Next, HandlerStep

\* What ContentInv says of the devices.
LEMMA ContentInvImplies == TypeOK /\ Targeted /\ ContentInv => BroadcastInCommitOrder
<1> SUFFICES ASSUME TypeOK, Targeted, ContentInv, NEW m \in Messages
             PROVE  /\ Len(broadcast[m]) <= Len(segments[m])
                    /\ broadcast[m] = SubSeq(segments[m], 1, Len(broadcast[m]))
                    /\ (\A c \in Clients : ~(client[c].pc = "broadcast" /\ client[c].target = m))
                          => broadcast[m] = segments[m]
  BY DEF BroadcastInCommitOrder
<1>1. broadcast[m] \in Seq(Ops) /\ segments[m] \in Seq(Ops)
  BY DEF TypeOK
<1>2. CASE broadcast[m] = segments[m]
  BY <1>1, <1>2, SubSeqFull
<1>3. CASE \E c \in Clients : client[c].pc = "broadcast" /\ client[c].target = m
  <2>1. PICK k \in Ops : segments[m] = Append(broadcast[m], k)
    BY <1>3 DEF ContentInv, TypeOK, ClientRecord
  <2>2. /\ Len(segments[m]) = Len(broadcast[m]) + 1
        /\ \A i \in 1..Len(broadcast[m]) : segments[m][i] = broadcast[m][i]
    BY <1>1, <2>1
  <2>3. DEFINE n == Len(broadcast[m])
  <2>4. n \in Nat /\ \A i \in 1..n : segments[m][i] \in Ops
    BY <1>1, <2>2
  <2>5. /\ SubSeq(segments[m], 1, n) \in Seq(Ops)
        /\ Len(SubSeq(segments[m], 1, n)) = n
        /\ \A i \in 1..n : SubSeq(segments[m], 1, n)[i] = segments[m][i]
    BY <2>4, SubSeqProperties
  <2>6. SubSeq(segments[m], 1, n) = broadcast[m]
    BY <1>1, <2>2, <2>5, SeqEqual
  <2> QED BY <1>1, <1>3, <2>2, <2>6
<1> QED BY <1>2, <1>3 DEF ContentInv

\* Devices see every committed update of a message once and in commit order,
\* for any number of connections: no update is lost by the whole-content write
\* back of another, and none is overtaken between its commit and its event.
THEOREM UpdatesInOrder == Spec => []BroadcastInCommitOrder
<1>1. Init => TypeOK /\ Targeted /\ LockInv /\ ContentInv
  <2>1. Init => ContentInv
    BY DEF Init, ContentInv, IdleClient
  <2> QED BY <2>1, InitType, LockInit
<1>2. /\ TypeOK /\ Targeted /\ LockInv /\ ContentInv /\ [Next]_vars
      => (TypeOK /\ Targeted /\ LockInv /\ ContentInv)'
  BY StepType, LockStep, ContentStep, LockInvImplies
<1> QED BY <1>1, <1>2, ContentInvImplies, PTL DEF Spec

-----------------------------------------------------------------------------
(* The idempotency records *)

\* Appending k adds one occurrence of k and none of another key.
LEMMA OccurrencesAppend ==
  ASSUME NEW s \in Seq(Ops), NEW x \in Ops, NEW k \in Ops
  PROVE  /\ Occurrences(s, k) \in Nat
         /\ x = k => Occurrences(Append(s, x), k) = Occurrences(s, k) + 1
         /\ x # k => Occurrences(Append(s, x), k) = Occurrences(s, k)
<1>1. Len(s) \in Nat /\ DOMAIN s = 1..Len(s) /\ DOMAIN Append(s, x) = 1..(Len(s) + 1)
  OBVIOUS
<1>2. /\ Append(s, x)[Len(s) + 1] = x
      /\ \A i \in 1..Len(s) : Append(s, x)[i] = s[i]
  OBVIOUS
<1>3. PICK old : old = {i \in DOMAIN s : s[i] = k}
  OBVIOUS
<1>4. IsFiniteSet(old) /\ Cardinality(old) \in Nat /\ Len(s) + 1 \notin old
  <2>1. IsFiniteSet(1..Len(s)) /\ old \in SUBSET (1..Len(s))
    BY <1>1, <1>3, FS_Interval
  <2>2. IsFiniteSet(old)
    BY <2>1, FS_Subset
  <2>3. Len(s) + 1 \notin 1..Len(s)
    BY <1>1
  <2> QED BY <2>1, <2>2, <2>3, FS_CardinalityType
<1>5. ASSUME x = k PROVE Occurrences(Append(s, x), k) = Cardinality(old) + 1
  <2>1. {i \in DOMAIN Append(s, x) : Append(s, x)[i] = k} = old \cup {Len(s) + 1}
    BY <1>1, <1>2, <1>3, <1>5
  <2> QED BY <1>4, <2>1, FS_AddElement DEF Occurrences
<1>6. ASSUME x # k PROVE Occurrences(Append(s, x), k) = Cardinality(old)
  <2>1. {i \in DOMAIN Append(s, x) : Append(s, x)[i] = k} = old
    BY <1>1, <1>2, <1>3, <1>6
  <2> QED BY <2>1 DEF Occurrences
<1> QED BY <1>3, <1>4, <1>5, <1>6 DEF Occurrences

\* A commit records its key with the one message whose content it extends.
LEMMA CommitRecords ==
  ASSUME TypeOK, Targeted, ContentInv, EveryUpdateAppliedOnce, DeletionIsComplete,
         NEW c \in Clients, CommitUpdate(c)
  PROVE  EveryUpdateAppliedOnce' /\ DeletionIsComplete'
<1>1. PICK m \in Messages, k \in Ops : client[c].target = m /\ client[c].key = k
  BY DEF CommitUpdate, Targeted, TypeOK, ClientRecord
<1>2. CASE UNCHANGED store
  BY <1>2 DEF store, EveryUpdateAppliedOnce, DeletionIsComplete
<1>3. CASE ~UNCHANGED store
  <2>1. /\ status[m] # "deleted" /\ status' = status
        /\ k \in Keys => idem[k] = None
        /\ segments' = [segments EXCEPT ![m] = Append(segments[m], k)]
        /\ idem' = IF k \in Keys THEN [idem EXCEPT ![k] = m] ELSE idem
    BY <1>1, <1>3 DEF CommitUpdate, ContentInv
  <2>2. \A j \in Keys : idem'[j] = IF j = k THEN m ELSE idem[j]
    BY <2>1 DEF TypeOK
  <2>3. /\ segments'[m] = Append(segments[m], k)
        /\ \A n \in Messages \ {m} : segments'[n] = segments[n]
    BY <2>1 DEF TypeOK
  <2>4. ASSUME NEW j \in Keys, NEW n \in Messages, status'[n] # "deleted"
        PROVE  Occurrences(segments'[n], j) = IF idem'[j] = n THEN 1 ELSE 0
    <3>1. Occurrences(segments[n], j) = IF idem[j] = n THEN 1 ELSE 0
      BY <2>1, <2>4 DEF EveryUpdateAppliedOnce
    <3>2. segments[m] \in Seq(Ops) /\ j \in Ops /\ None \notin Messages
      BY DynamicAssumption DEF TypeOK, Ops
    <3>3. CASE n # m
      <4>1. j = k => idem[j] = None
        BY <2>1
      <4> QED BY <2>2, <2>3, <3>1, <3>2, <3>3, <4>1
    <3>4. CASE n = m /\ j = k
      <4>1. Occurrences(segments[m], j) = 0
        BY <2>1, <3>1, <3>2, <3>4
      <4>2. Occurrences(Append(segments[m], k), j) = Occurrences(segments[m], j) + 1
        BY <3>2, <3>4, OccurrencesAppend
      <4>3. Occurrences(Append(segments[m], k), j) = 1
        BY <4>1, <4>2
      <4>4. Occurrences(segments'[n], j) = 1
        BY <2>3, <3>4, <4>3, Zenon
      <4> QED BY <2>2, <3>4, <4>4
    <3>5. CASE n = m /\ j # k
      <4>1. Occurrences(segments'[n], j) = Occurrences(segments[n], j)
        BY <2>3, <3>2, <3>5, OccurrencesAppend, ZenonT(30)
      <4> QED BY <2>2, <3>1, <3>5, <4>1
    <3> QED BY <3>3, <3>4, <3>5
  <2>5. DeletionIsComplete'
    BY <2>1, <2>2 DEF DeletionIsComplete
  <2> QED BY <2>4, <2>5 DEF EveryUpdateAppliedOnce
<1> QED BY <1>2, <1>3

\* Every step keeps records and content in line.
LEMMA RecordStep ==
  /\ TypeOK /\ Targeted /\ ContentInv /\ EveryUpdateAppliedOnce /\ DeletionIsComplete
  /\ [Next]_vars
  => EveryUpdateAppliedOnce' /\ DeletionIsComplete'
<1> SUFFICES ASSUME TypeOK, Targeted, ContentInv, EveryUpdateAppliedOnce,
                    DeletionIsComplete, [Next]_vars
             PROVE  EveryUpdateAppliedOnce' /\ DeletionIsComplete'
  OBVIOUS
<1>1. CASE UNCHANGED store
  BY <1>1 DEF store, EveryUpdateAppliedOnce, DeletionIsComplete
<1>2. ASSUME NEW c \in Clients, CommitUpdate(c)
      PROVE  EveryUpdateAppliedOnce' /\ DeletionIsComplete'
  BY <1>2, CommitRecords
<1>3. ASSUME NEW c \in Clients, CommitRecall(c)
      PROVE  EveryUpdateAppliedOnce' /\ DeletionIsComplete'
  <2>1. client[c].target \in Messages /\ UNCHANGED <<segments, idem>>
    BY <1>3 DEF CommitRecall, Targeted
  <2>2. \A m \in Messages : status'[m] = "deleted" <=> status[m] = "deleted"
    BY <1>3, <2>1 DEF CommitRecall, TypeOK
  <2> QED BY <2>1, <2>2 DEF EveryUpdateAppliedOnce, DeletionIsComplete
<1>4. ASSUME NEW m \in Messages, DeleteMessage(m)
      PROVE  EveryUpdateAppliedOnce' /\ DeletionIsComplete'
  <2>1. /\ segments' = segments
        /\ \A n \in Messages : status'[n] = IF n = m THEN "deleted" ELSE status[n]
        /\ \A k \in Keys : idem'[k] = IF idem[k] = m THEN None ELSE idem[k]
    BY <1>4 DEF DeleteMessage, TypeOK
  <2>2. None \notin Messages
    BY DynamicAssumption
  <2>3. EveryUpdateAppliedOnce'
    BY <2>1, <2>2 DEF EveryUpdateAppliedOnce
  <2>4. DeletionIsComplete'
    BY <2>1, <2>2 DEF DeletionIsComplete
  <2> QED BY <2>3, <2>4
<1>5. CASE \E c \in Clients, k \in Ops, m \in Messages : TakeReference(c, k, m)
  BY <1>1, <1>5 DEF TakeReference
<1>6. CASE \E c \in Clients, m \in Messages : ReadForRecall(c, m)
  BY <1>1, <1>6 DEF ReadForRecall
<1>7. ASSUME NEW c \in Clients,
             \/ AcquireLock(c) \/ Unlock(c) \/ DropReference(c) \/ LookupIdempotency(c)
             \/ ReadMessage(c) \/ CommitFails(c) \/ BroadcastUpdate(c) \/ NoticeRecall(c)
      PROVE  UNCHANGED store
  BY <1>7 DEF AcquireLock, Unlock, DropReference, LookupIdempotency, ReadMessage,
              CommitFails, BroadcastUpdate, NoticeRecall
<1>8. CASE UNCHANGED vars
  BY <1>1, <1>8 DEF vars, store
<1> QED BY <1>1, <1>2, <1>3, <1>4, <1>5, <1>6, <1>7, <1>8 DEF Next, HandlerStep

\* A key is applied to one message once, however often and over however many
\* connections it is sent, and a deletion leaves no record behind.
THEOREM UpdatesAppliedOnce == Spec => [](EveryUpdateAppliedOnce /\ DeletionIsComplete)
<1> DEFINE Inv == TypeOK /\ Targeted /\ LockInv /\ ContentInv
                  /\ EveryUpdateAppliedOnce /\ DeletionIsComplete
<1>1. Init => Inv
  <2> SUFFICES ASSUME Init PROVE Inv
    OBVIOUS
  <2>1. ContentInv /\ DeletionIsComplete
    BY DEF Init, ContentInv, IdleClient, DeletionIsComplete
  <2>2. EveryUpdateAppliedOnce
    <3>1. \A k \in Keys : Occurrences(<<>>, k) = 0
      <4>1. \A k \in Keys : {i \in DOMAIN <<>> : <<>>[i] = k} = {}
        OBVIOUS
      <4> QED BY <4>1, FS_EmptySet DEF Occurrences
    <3>2. \A k \in Keys, m \in Messages : segments[m] = <<>> /\ idem[k] # m
      BY DynamicAssumption DEF Init
    <3> QED BY <3>1, <3>2 DEF EveryUpdateAppliedOnce
  <2> QED BY <2>1, <2>2, InitType, LockInit
<1>2. Inv /\ [Next]_vars => Inv'
  BY StepType, LockStep, ContentStep, LockInvImplies, RecordStep
<1> QED BY <1>1, <1>2, PTL DEF Spec
=============================================================================
