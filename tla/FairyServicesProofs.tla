------------------------ MODULE FairyServicesProofs ------------------------
(***************************************************************************)
(* Theorems about the parts of Fairy that keep state of their own, for     *)
(* every value of their constants: the state file with the model quota     *)
(* (FairyState), the managed configuration (ManagedConfig), the external   *)
(* tool providers (ExternalTools) and the plugin host (PluginHost).        *)
(***************************************************************************)
EXTENDS FairyState, ManagedConfig, ExternalTools, PluginHost,
        FiniteSetTheorems, FunctionTheorems, SequenceTheorems, WellFoundedInduction, TLAPS

-----------------------------------------------------------------------------
(* The state file *)

\* A group nobody has set has no record, so that taking back its first one is
\* taking back everything.
UnknownIsAbsent == \A g \in Chats : ~memory.groups[g].known => memory.groups[g] = Absent

\* TakeTaskModelCall, as long as the dates come in order: what was allowed on a
\* day before the stored one is within the limit, what was allowed on the
\* stored day is at most what is counted, nothing was allowed after it.
DayQuota ==
    /\ memory.quotaCalls <= ModelLimit
    /\ \A d \in Days : /\ d < memory.quotaDate => granted[d].all <= ModelLimit
                       /\ d = memory.quotaDate => granted[d].all <= memory.quotaCalls
                       /\ d > memory.quotaDate => granted[d].all = 0

\* The same for each task, whose stored day may be an earlier one.
TaskQuota ==
    \A t \in ModelTasks :
        /\ memory.taskDate[t] <= memory.quotaDate /\ memory.taskCalls[t] <= TaskLimit
        /\ \A d \in Days : /\ d < memory.taskDate[t] => granted[d].of[t] <= TaskLimit
                           /\ d = memory.taskDate[t] => granted[d].of[t] <= memory.taskCalls[t]
                           /\ d > memory.taskDate[t] => granted[d].of[t] = 0

StateInv == StateTypeOK /\ EffectiveIsDurable /\ UnknownIsAbsent /\ (~skewed => DayQuota /\ TaskQuota)

AskerRecord == [pc : {"idle", "ask"}, date : Days, task : ModelTasks]
GrantRecord == [all : Nat, of : [ModelTasks -> Nat]]

LEMMA IdleAskerTyped == IdleAsker \in AskerRecord
<1>1. (CHOOSE t \in ModelTasks : TRUE) \in ModelTasks
  BY StateAssumption
<1>2. 0 \in Days
  BY StateAssumption DEF Days
<1> QED BY <1>1, <1>2 DEF IdleAsker, AskerRecord

LEMMA FreshIsState == Fresh \in persistedState
<1>1. Absent \in GroupStates /\ 0 \in Days
  BY StateAssumption DEF Absent, GroupStates, Days
<1> QED BY <1>1 DEF Fresh, persistedState

LEMMA StateInitInv == StateInit => StateInv
<1> SUFFICES ASSUME StateInit PROVE StateInv
  OBVIOUS
<1>1. StateTypeOK
  <2>1. asker \in [Askers -> AskerRecord]
    BY IdleAskerTyped DEF StateInit
  <2>2. today \in Days
    BY StateAssumption DEF StateInit, Days
  <2>3. granted \in [Days -> GrantRecord]
    BY DEF StateInit, GrantRecord
  <2> QED BY <2>1, <2>2, <2>3, FreshIsState DEF StateInit, StateTypeOK, AskerRecord, GrantRecord
<1>2. EffectiveIsDurable /\ UnknownIsAbsent
  BY DEF StateInit, EffectiveIsDurable, UnknownIsAbsent, Fresh
<1>3. DayQuota /\ TaskQuota
  BY StateAssumption DEF StateInit, DayQuota, TaskQuota, Fresh, Days
<1> QED BY <1>1, <1>2, <1>3 DEF StateInv

\* A call that assigns, saves, and takes its assignments back: what it leaves
\* in memory is what is in the file, and it is the new state or the old one.
LEMMA SavedOrTakenBack ==
  ASSUME EffectiveIsDurable, NEW next, NEW back, back = memory, SaveLocked(next, back)
  PROVE  EffectiveIsDurable' /\ (memory' = next \/ memory' = memory)
  BY DEF EffectiveIsDurable, SaveLocked

\* The switches leave the quota alone.
LEMMA QuotaUntouched ==
  ASSUME StateInv, granted' = granted, skewed' = skewed, memory'.quotaDate = memory.quotaDate,
         memory'.quotaCalls = memory.quotaCalls, memory'.taskDate = memory.taskDate, memory'.taskCalls = memory.taskCalls
  PROVE  (~skewed => DayQuota /\ TaskQuota)'
  BY DEF StateInv, DayQuota, TaskQuota

\* Taking the record of a group back restores the state.
LEMMA GroupTakenBack ==
  ASSUME memory \in persistedState, NEW g \in Chats, NEW entry, NEW old, old = memory.groups[g]
  PROVE  [[memory EXCEPT !.groups[g] = entry] EXCEPT !.groups[g] = old] = memory
  BY DEF persistedState

\* SetGroup as a whole: the record of one group is the new one, or nothing has
\* changed.
LEMMA SetGroupStep ==
  ASSUME StateInv, NEW g \in Chats, NEW entry \in GroupStates, entry.known = TRUE, SetGroup(g, entry)
  PROVE  /\ StateInv' /\ softDefault' = softDefault
         /\ \/ memory' = memory
            \/ memory'.groups[g] = entry /\ \A k \in Chats \ {g} : memory'.groups[k] = memory.groups[k]
<1>0. memory \in persistedState /\ file = memory
  BY DEF StateInv, StateTypeOK, EffectiveIsDurable
<1>1. PICK next : next = [memory EXCEPT !.groups[g] = entry]
  OBVIOUS
<1>2. /\ next \in persistedState
      /\ next.groups[g] = entry /\ \A k \in Chats \ {g} : next.groups[k] = memory.groups[k]
      /\ next.quotaDate = memory.quotaDate /\ next.quotaCalls = memory.quotaCalls
      /\ next.taskDate = memory.taskDate /\ next.taskCalls = memory.taskCalls
  BY <1>0, <1>1 DEF persistedState
<1>3. SaveLocked(next, memory)
  <2>1. CASE memory.groups[g].known
    <3>1. [next EXCEPT !.groups[g] = memory.groups[g]] = memory
      BY <1>0, <1>1, GroupTakenBack, ZenonT(30)
    <3> QED BY <1>1, <2>1, <3>1 DEF SetGroup
  <2>2. CASE ~memory.groups[g].known
    <3>0. memory.groups[g] = Absent
      BY <2>2 DEF StateInv, UnknownIsAbsent
    <3>1. [next EXCEPT !.groups[g] = Absent] = memory
      BY <1>0, <1>1, <3>0, GroupTakenBack, ZenonT(30)
    <3> QED BY <1>1, <2>2, <3>1 DEF SetGroup
  <2> QED BY <2>1, <2>2
<1>4. EffectiveIsDurable' /\ (memory' = next \/ memory' = memory)
  BY <1>3, SavedOrTakenBack DEF StateInv
<1>5. UNCHANGED <<softDefault, today, asker, granted, skewed>>
  BY DEF SetGroup
<1>6. StateTypeOK'
  BY <1>0, <1>2, <1>4, <1>5 DEF StateInv, StateTypeOK, EffectiveIsDurable
<1>7. UnknownIsAbsent'
  BY <1>2, <1>4 DEF StateInv, UnknownIsAbsent
<1>8. (~skewed => DayQuota /\ TaskQuota)'
  BY <1>2, <1>4, <1>5, QuotaUntouched
<1> QED BY <1>2, <1>4, <1>5, <1>6, <1>7, <1>8 DEF StateInv

\* SetContextEnabled and SetFactMemoryEnabled: a set loses or gets a member, and
\* taking it back restores the set.
LEMMA MemberTakenBack ==
  ASSUME NEW S, NEW x, NEW b \in BOOLEAN
  PROVE  LET T == IF b THEN S \cup {x} ELSE S \ {x}
         IN  (IF x \in S THEN T \cup {x} ELSE T \ {x}) = S
  OBVIOUS

LEMMA SwitchStep ==
  ASSUME StateInv, NEW next, SaveLocked(next, memory), next \in persistedState, next.groups = memory.groups,
         next.quotaDate = memory.quotaDate, next.quotaCalls = memory.quotaCalls, next.taskDate = memory.taskDate,
         next.taskCalls = memory.taskCalls, UNCHANGED <<softDefault, today, asker, granted, skewed>>
  PROVE  StateInv' /\ memory'.groups = memory.groups
<1>0. memory \in persistedState /\ file = memory
  BY DEF StateInv, StateTypeOK, EffectiveIsDurable
<1>1. EffectiveIsDurable' /\ (memory' = next \/ memory' = memory)
  BY SavedOrTakenBack DEF StateInv
<1>2. StateTypeOK'
  BY <1>0, <1>1 DEF StateInv, StateTypeOK, EffectiveIsDurable
<1>3. UnknownIsAbsent' /\ memory'.groups = memory.groups
  BY <1>1 DEF StateInv, UnknownIsAbsent
<1>4. (~skewed => DayQuota /\ TaskQuota)'
  BY <1>1, QuotaUntouched
<1> QED BY <1>1, <1>2, <1>3, <1>4 DEF StateInv

LEMMA SetContextStep ==
  ASSUME StateInv, NEW c \in Chats, NEW enabled \in BOOLEAN, SetContextEnabled(c, enabled)
  PROVE  StateInv' /\ memory'.groups = memory.groups /\ softDefault' = softDefault
<1>0. memory \in persistedState
  BY DEF StateInv, StateTypeOK
<1>1. PICK S : S = (IF enabled THEN memory.contextDisabled \ {c} ELSE memory.contextDisabled \cup {c})
  OBVIOUS
<1>2. PICK next : next = [memory EXCEPT !.contextDisabled = S]
  OBVIOUS
<1>3. S \in SUBSET Chats
  BY <1>0, <1>1 DEF persistedState
<1>4. /\ next \in persistedState /\ next.groups = memory.groups /\ next.contextDisabled = S
      /\ next.quotaDate = memory.quotaDate /\ next.quotaCalls = memory.quotaCalls
      /\ next.taskDate = memory.taskDate /\ next.taskCalls = memory.taskCalls
  BY <1>0, <1>2, <1>3 DEF persistedState
<1>5. (IF c \in memory.contextDisabled THEN S \cup {c} ELSE S \ {c}) = memory.contextDisabled
  BY <1>1, MemberTakenBack
<1>6. [next EXCEPT !.contextDisabled = memory.contextDisabled] = memory
  BY <1>0, <1>2 DEF persistedState
<1>7. SaveLocked(next, memory) /\ UNCHANGED <<softDefault, today, asker, granted, skewed>>
  BY <1>1, <1>2, <1>4, <1>5, <1>6 DEF SetContextEnabled
<1> QED BY <1>4, <1>7, SwitchStep

LEMMA SetFactStep ==
  ASSUME StateInv, NEW c \in Chats, NEW enabled \in BOOLEAN, SetFactMemoryEnabled(c, enabled)
  PROVE  StateInv' /\ memory'.groups = memory.groups /\ softDefault' = softDefault
<1>0. memory \in persistedState
  BY DEF StateInv, StateTypeOK
<1>1. PICK S : S = (IF enabled THEN memory.facts \cup {c} ELSE memory.facts \ {c})
  OBVIOUS
<1>2. PICK next : next = [memory EXCEPT !.facts = S]
  OBVIOUS
<1>3. S \in SUBSET Chats
  BY <1>0, <1>1 DEF persistedState
<1>4. /\ next \in persistedState /\ next.groups = memory.groups /\ next.facts = S
      /\ next.quotaDate = memory.quotaDate /\ next.quotaCalls = memory.quotaCalls
      /\ next.taskDate = memory.taskDate /\ next.taskCalls = memory.taskCalls
  BY <1>0, <1>2, <1>3 DEF persistedState
<1>5. (IF c \in memory.facts THEN S \cup {c} ELSE S \ {c}) = memory.facts
  BY <1>1, MemberTakenBack
<1>6. [next EXCEPT !.facts = memory.facts] = memory
  BY <1>0, <1>2 DEF persistedState
<1>7. SaveLocked(next, memory) /\ UNCHANGED <<softDefault, today, asker, granted, skewed>>
  BY <1>1, <1>2, <1>4, <1>5, <1>6 DEF SetFactMemoryEnabled
<1> QED BY <1>4, <1>7, SwitchStep

\* One more call of a task on a day that is not before the stored one.
LEMMA CallCounted ==
  ASSUME StateInv, NEW d \in Days, NEW t \in ModelTasks, ~skewed, d >= memory.quotaDate,
         UsedOn(d) < ModelLimit, TaskUsedOn(d, t) < TaskLimit,
         memory'.quotaDate = d, memory'.quotaCalls = UsedOn(d) + 1,
         memory'.taskDate[t] = d, memory'.taskCalls[t] = TaskUsedOn(d, t) + 1,
         \A u \in ModelTasks \ {t} : memory'.taskDate[u] = memory.taskDate[u] /\ memory'.taskCalls[u] = memory.taskCalls[u],
         granted'[d].all = granted[d].all + 1, granted'[d].of[t] = granted[d].of[t] + 1,
         \A u \in ModelTasks \ {t} : granted'[d].of[u] = granted[d].of[u],
         \A e \in Days \ {d} : granted'[e] = granted[e]
  PROVE  DayQuota' /\ TaskQuota'
<1>0. /\ DayQuota /\ TaskQuota /\ memory \in persistedState /\ granted \in [Days -> GrantRecord]
  BY DEF StateInv, StateTypeOK, GrantRecord
<1>1. /\ memory.quotaDate \in Days /\ memory.quotaCalls \in Nat
      /\ \A u \in ModelTasks : memory.taskDate[u] \in Days /\ memory.taskCalls[u] \in Nat
      /\ \A e \in Days : granted[e].all \in Nat /\ \A u \in ModelTasks : granted[e].of[u] \in Nat
  BY <1>0 DEF persistedState, GrantRecord
<1>2. /\ d \in Nat /\ memory.quotaDate \in Nat /\ \A u \in ModelTasks : memory.taskDate[u] \in Nat
      /\ \A e \in Days : e \in Nat
  BY <1>1 DEF Days
<1>3. DayQuota'
  <2>1. memory'.quotaCalls <= ModelLimit
    BY <1>1, StateAssumption DEF UsedOn
  <2>2. ASSUME NEW e \in Days
        PROVE  /\ e < d => granted'[e].all <= ModelLimit
               /\ e = d => granted'[e].all <= UsedOn(d) + 1
               /\ e > d => granted'[e].all = 0
    <3>0. /\ e < memory.quotaDate => granted[e].all <= ModelLimit
          /\ e = memory.quotaDate => granted[e].all <= memory.quotaCalls
          /\ e > memory.quotaDate => granted[e].all = 0
          /\ memory.quotaCalls <= ModelLimit /\ e \in Nat /\ granted[e].all \in Nat
      BY <1>0, <1>1, <1>2 DEF DayQuota
    <3>1. CASE e < d
      <4>1. granted[e].all <= ModelLimit
        BY <1>1, <1>2, <3>0, <3>1, StateAssumption
      <4>2. e # d
        BY <1>2, <3>0, <3>1
      <4> QED BY <1>2, <3>0, <3>1, <4>1, <4>2
    <3>2. CASE e = d
      <4>1. granted[d].all <= UsedOn(d)
        BY <1>1, <1>2, <3>0, <3>2 DEF UsedOn
      <4>2. UsedOn(d) \in Nat
        BY <1>1 DEF UsedOn
      <4> QED BY <1>1, <1>2, <3>2, <4>1, <4>2
    <3>3. CASE e > d
      <4>1. e > memory.quotaDate /\ e # d
        BY <1>2, <3>0, <3>3
      <4> QED BY <1>2, <3>0, <3>3, <4>1
    <3> QED BY <1>2, <3>0, <3>1, <3>2, <3>3
  <2> QED BY <2>1, <2>2 DEF DayQuota
<1>4. TaskQuota'
  <2>1. ASSUME NEW u \in ModelTasks \ {t}
        PROVE  /\ memory'.taskDate[u] <= memory'.quotaDate /\ memory'.taskCalls[u] <= TaskLimit
               /\ \A e \in Days : /\ e < memory'.taskDate[u] => granted'[e].of[u] <= TaskLimit
                                  /\ e = memory'.taskDate[u] => granted'[e].of[u] <= memory'.taskCalls[u]
                                  /\ e > memory'.taskDate[u] => granted'[e].of[u] = 0
    <3>1. \A e \in Days : granted'[e].of[u] = granted[e].of[u]
      OBVIOUS
    <3>2. memory'.taskDate[u] <= d
      BY <1>0, <1>1, <1>2 DEF TaskQuota
    <3> QED BY <1>0, <3>1, <3>2 DEF TaskQuota
  <2>2. memory'.taskDate[t] <= memory'.quotaDate /\ memory'.taskCalls[t] <= TaskLimit
    BY <1>1, <1>2, StateAssumption DEF TaskUsedOn
  <2>3. ASSUME NEW e \in Days
        PROVE  /\ e < d => granted'[e].of[t] <= TaskLimit
               /\ e = d => granted'[e].of[t] <= TaskUsedOn(d, t) + 1
               /\ e > d => granted'[e].of[t] = 0
    <3>0. /\ e < memory.taskDate[t] => granted[e].of[t] <= TaskLimit
          /\ e = memory.taskDate[t] => granted[e].of[t] <= memory.taskCalls[t]
          /\ e > memory.taskDate[t] => granted[e].of[t] = 0
          /\ memory.taskDate[t] <= memory.quotaDate /\ memory.taskCalls[t] <= TaskLimit
          /\ e \in Nat /\ granted[e].of[t] \in Nat
      BY <1>0, <1>1, <1>2 DEF TaskQuota
    <3>t. memory.taskDate[t] <= d /\ memory.taskDate[t] \in Nat /\ memory.taskCalls[t] \in Nat
      BY <1>1, <1>2, <3>0
    <3>1. CASE e < d
      <4>1. granted[e].of[t] <= TaskLimit
        BY <3>0, <3>t, StateAssumption
      <4>2. e # d
        BY <1>2, <3>0, <3>1
      <4> QED BY <1>2, <3>0, <3>1, <4>1, <4>2
    <3>2. CASE e = d
      <4>1. granted[d].of[t] <= TaskUsedOn(d, t) /\ TaskUsedOn(d, t) \in Nat
        BY <3>0, <3>t, <3>2 DEF TaskUsedOn
      <4> QED BY <1>1, <1>2, <3>2, <4>1
    <3>3. CASE e > d
      <4>1. e > memory.taskDate[t] /\ e # d
        BY <1>2, <3>0, <3>t, <3>3
      <4> QED BY <1>2, <3>0, <3>3, <4>1
    <3> QED BY <1>2, <3>0, <3>1, <3>2, <3>3
  <2>4. /\ memory'.taskDate[t] <= memory'.quotaDate /\ memory'.taskCalls[t] <= TaskLimit
        /\ \A e \in Days : /\ e < memory'.taskDate[t] => granted'[e].of[t] <= TaskLimit
                           /\ e = memory'.taskDate[t] => granted'[e].of[t] <= memory'.taskCalls[t]
                           /\ e > memory'.taskDate[t] => granted'[e].of[t] = 0
    BY <2>2, <2>3
  <2> QED BY <2>1, <2>4 DEF TaskQuota
<1> QED BY <1>3, <1>4

\* TakeTaskModelCall as a whole.
LEMMA TakeStep ==
  ASSUME StateInv, NEW a \in Askers, TakeTaskModelCall(a)
  PROVE  StateInv' /\ memory'.groups = memory.groups /\ softDefault' = softDefault
<1>0. /\ memory \in persistedState /\ file = memory /\ skewed \in BOOLEAN /\ softDefault \in SoftModes /\ today \in Days
      /\ asker \in [Askers -> AskerRecord] /\ granted \in [Days -> GrantRecord]
  BY DEF StateInv, StateTypeOK, EffectiveIsDurable, AskerRecord, GrantRecord
<1>1. PICK d \in Days : d = asker[a].date
  BY <1>0 DEF AskerRecord
<1>2. PICK t \in ModelTasks : t = asker[a].task
  BY <1>0 DEF AskerRecord
<1>3. asker' \in [Askers -> AskerRecord] /\ softDefault' = softDefault /\ today' = today
  BY <1>0, IdleAskerTyped DEF TakeTaskModelCall
<1>4. CASE UsedOn(d) < ModelLimit /\ TaskUsedOn(d, t) < TaskLimit
  <2>1. PICK next : next = [memory EXCEPT !.quotaDate = d, !.quotaCalls = UsedOn(d) + 1,
                                          !.taskDate[t] = d, !.taskCalls[t] = TaskUsedOn(d, t) + 1]
    OBVIOUS
  <2>2. UsedOn(d) + 1 \in Nat /\ TaskUsedOn(d, t) + 1 \in Nat
    BY <1>0 DEF UsedOn, TaskUsedOn, persistedState
  <2>3. /\ next \in persistedState /\ next.groups = memory.groups
        /\ next.quotaDate = d /\ next.quotaCalls = UsedOn(d) + 1
        /\ next.taskDate[t] = d /\ next.taskCalls[t] = TaskUsedOn(d, t) + 1
        /\ \A u \in ModelTasks \ {t} : next.taskDate[u] = memory.taskDate[u] /\ next.taskCalls[u] = memory.taskCalls[u]
    BY <1>0, <2>1, <2>2 DEF persistedState
  <2>4. [next EXCEPT !.quotaDate = memory.quotaDate, !.quotaCalls = memory.quotaCalls,
                     !.taskDate[t] = memory.taskDate[t], !.taskCalls[t] = memory.taskCalls[t]] = memory
    BY <1>0, <2>1 DEF persistedState
  <2>5. /\ SaveLocked(next, memory)
        /\ granted' = IF memory' = next THEN OneMoreGranted(d, t) ELSE granted
        /\ skewed' = (skewed \/ d < memory.quotaDate)
    BY <1>1, <1>2, <1>4, <2>1, <2>4 DEF TakeTaskModelCall
  <2>6. EffectiveIsDurable' /\ (memory' = next \/ memory' = memory)
    BY <2>5, SavedOrTakenBack DEF StateInv
  <2>7. memory'.groups = memory.groups /\ memory' \in persistedState /\ file' = memory' /\ UnknownIsAbsent'
    BY <1>0, <2>3, <2>6 DEF EffectiveIsDurable, UnknownIsAbsent, StateInv
  <2>8. skewed' \in BOOLEAN /\ (~skewed' => ~skewed /\ d >= memory.quotaDate)
    <3>1. d \in Nat /\ memory.quotaDate \in Nat
      BY <1>0 DEF persistedState, Days
    <3>2. skewed' \in BOOLEAN /\ (~skewed' => ~skewed /\ ~(d < memory.quotaDate))
      BY <1>0, <2>5, Zenon
    <3> QED BY <3>1, <3>2
  <2>9. CASE memory' = next
    <3>1. granted' = OneMoreGranted(d, t)
      BY <2>5, <2>9
    <3>2. granted[d].all + 1 \in Nat /\ granted[d].of \in [ModelTasks -> Nat] /\ granted[d].of[t] + 1 \in Nat
      BY <1>0 DEF GrantRecord
    <3>3. [all |-> granted[d].all + 1, of |-> [granted[d].of EXCEPT ![t] = granted[d].of[t] + 1]] \in GrantRecord
      BY <3>2 DEF GrantRecord
    <3>4. granted' = [granted EXCEPT ![d] = [all |-> granted[d].all + 1, of |-> [granted[d].of EXCEPT ![t] = granted[d].of[t] + 1]]]
      BY <3>1 DEF OneMoreGranted
    <3>5. granted' \in [Days -> GrantRecord] /\ \A e \in Days \ {d} : granted'[e] = granted[e]
      BY <1>0, <3>3, <3>4
    <3>6. granted'[d] = [all |-> granted[d].all + 1, of |-> [granted[d].of EXCEPT ![t] = granted[d].of[t] + 1]]
      BY <1>0, <3>4
    <3>7. /\ granted'[d].all = granted[d].all + 1 /\ granted'[d].of[t] = granted[d].of[t] + 1
          /\ \A u \in ModelTasks \ {t} : granted'[d].of[u] = granted[d].of[u]
      BY <3>2, <3>6
    <3>8. ~skewed' => DayQuota' /\ TaskQuota'
      <4> SUFFICES ASSUME ~skewed' PROVE DayQuota' /\ TaskQuota'
        OBVIOUS
      <4>1. ~skewed /\ d >= memory.quotaDate
        BY <2>8
      <4> QED BY <1>4, <2>3, <2>9, <3>5, <3>7, <4>1, CallCounted
    <3> QED BY <1>0, <1>3, <2>6, <2>7, <2>8, <3>5, <3>8 DEF StateInv, StateTypeOK, AskerRecord, GrantRecord
  <2>10. CASE memory' # next
    <3>1. memory' = memory /\ granted' = granted
      BY <2>5, <2>6, <2>10
    <3>2. ~skewed' => DayQuota' /\ TaskQuota'
      BY <2>8, <3>1 DEF StateInv, DayQuota, TaskQuota
    <3> QED BY <1>0, <1>3, <2>6, <2>7, <2>8, <3>1, <3>2 DEF StateInv, StateTypeOK, AskerRecord, GrantRecord
  <2> QED BY <1>3, <2>7, <2>9, <2>10
<1>5. CASE ~(UsedOn(d) < ModelLimit /\ TaskUsedOn(d, t) < TaskLimit)
  <2>1. UNCHANGED <<memory, file, granted, skewed>>
    BY <1>1, <1>2, <1>5 DEF TakeTaskModelCall
  <2>2. (~skewed => DayQuota /\ TaskQuota)' /\ UnknownIsAbsent' /\ EffectiveIsDurable'
    BY <2>1 DEF StateInv, DayQuota, TaskQuota, UnknownIsAbsent, EffectiveIsDurable
  <2> QED BY <1>0, <1>3, <2>1, <2>2 DEF StateInv, StateTypeOK, AskerRecord, GrantRecord
<1> QED BY <1>4, <1>5

\* What a step does to the switches of a group.
OneSwitch(g) == GroupEnabled(g)' = GroupEnabled(g) \/ GroupSoftMode(g)' = GroupSoftMode(g)

LEMMA SetEnabledStep ==
  ASSUME StateInv, NEW g \in Chats, NEW enabled \in BOOLEAN, SetGroupEnabled(g, enabled)
  PROVE  StateInv' /\ \A k \in Chats : OneSwitch(k)
<1>1. memory.groups[g] \in GroupStates
  BY DEF StateInv, StateTypeOK, persistedState
<1>2. PICK entry : entry = [memory.groups[g] EXCEPT !.known = TRUE, !.enabled = enabled]
  OBVIOUS
<1>3. entry \in GroupStates /\ entry.known = TRUE /\ entry.mode = memory.groups[g].mode
  BY <1>1, <1>2 DEF GroupStates
<1>4. /\ StateInv' /\ softDefault' = softDefault
      /\ \/ memory' = memory
         \/ memory'.groups[g] = entry /\ \A k \in Chats \ {g} : memory'.groups[k] = memory.groups[k]
  <2>1. SetGroup(g, entry)
    BY <1>2 DEF SetGroupEnabled
  <2> QED BY <1>3, <2>1, SetGroupStep
<1>5. ~memory.groups[g].known => memory.groups[g].mode = ""
  <2>1. Absent.mode = ""
    BY DEF Absent
  <2>2. ~memory.groups[g].known => memory.groups[g] = Absent
    BY DEF StateInv, UnknownIsAbsent
  <2> QED BY <2>1, <2>2
<1>6. ASSUME NEW k \in Chats PROVE OneSwitch(k)
  <2>1. CASE k = g
    BY <1>3, <1>4, <1>5, <2>1 DEF OneSwitch, GroupSoftMode
  <2>2. CASE k # g
    BY <1>4, <2>2 DEF OneSwitch, GroupSoftMode
  <2> QED BY <2>1, <2>2
<1> QED BY <1>4, <1>6

LEMMA SetModeStep ==
  ASSUME StateInv, NEW g \in Chats, NEW mode \in AskedModes, SetGroupSoftMode(g, mode)
  PROVE  StateInv' /\ \A k \in Chats : OneSwitch(k)
<1>1. memory.groups[g] \in GroupStates
  BY DEF StateInv, StateTypeOK, persistedState
<1>2. GroupEnabled(g) \in BOOLEAN
  BY <1>1, StateAssumption DEF GroupEnabled, GroupStates
<1>3. PICK entry : entry = [known |-> TRUE, enabled |-> GroupEnabled(g), mode |-> mode]
  OBVIOUS
<1>4. entry \in GroupStates /\ entry.known = TRUE /\ entry.enabled = GroupEnabled(g)
  BY <1>2, <1>3 DEF GroupStates, SetGroupSoftMode
<1>5. /\ StateInv' /\ softDefault' = softDefault
      /\ \/ memory' = memory
         \/ memory'.groups[g] = entry /\ \A k \in Chats \ {g} : memory'.groups[k] = memory.groups[k]
  BY <1>3, <1>4, SetGroupStep DEF SetGroupSoftMode
<1>6. ASSUME NEW k \in Chats PROVE GroupEnabled(k)' = GroupEnabled(k)
  <2>1. CASE k = g
    <3>1. CASE memory' = memory
      BY <3>1 DEF GroupEnabled
    <3>2. CASE memory'.groups[g] = entry
      BY <1>4, <2>1, <3>2 DEF GroupEnabled
    <3> QED BY <1>5, <3>1, <3>2
  <2>2. CASE k # g
    BY <1>5, <2>2 DEF GroupEnabled
  <2> QED BY <2>1, <2>2
<1> QED BY <1>5, <1>6 DEF OneSwitch

\* Every step keeps the invariant and changes one switch of a group at most.
LEMMA StateStep ==
  ASSUME StateInv, [StateNext]_stateVars
  PROVE  StateInv' /\ \A g \in Chats : OneSwitch(g)
<1>g. ASSUME memory'.groups = memory.groups PROVE \A g \in Chats : OneSwitch(g)
  BY <1>g DEF OneSwitch, GroupEnabled
<1>m. ASSUME UNCHANGED <<memory, file, granted, skewed>>, softDefault' \in SoftModes, today' \in Days,
             asker' \in [Askers -> AskerRecord]
      PROVE  StateInv'
  <2>1. (~skewed => DayQuota /\ TaskQuota)' /\ UnknownIsAbsent' /\ EffectiveIsDurable'
    BY <1>m DEF StateInv, DayQuota, TaskQuota, UnknownIsAbsent, EffectiveIsDurable
  <2> QED BY <1>m, <2>1 DEF StateInv, StateTypeOK, AskerRecord
<1>t. softDefault \in SoftModes /\ today \in Days /\ asker \in [Askers -> AskerRecord] /\ file = memory
  BY DEF StateInv, StateTypeOK, AskerRecord, EffectiveIsDurable
<1>1. ASSUME NEW g \in Chats, NEW enabled \in BOOLEAN,
             SetGroupEnabled(g, enabled) \/ SetContextEnabled(g, enabled) \/ SetFactMemoryEnabled(g, enabled)
      PROVE  StateInv' /\ \A k \in Chats : OneSwitch(k)
  BY <1>1, <1>g, SetEnabledStep, SetContextStep, SetFactStep
<1>2. ASSUME NEW g \in Chats, NEW mode \in AskedModes, SetGroupSoftMode(g, mode)
      PROVE  StateInv' /\ \A k \in Chats : OneSwitch(k)
  BY <1>2, SetModeStep
<1>3. ASSUME NEW mode \in AskedModes, SetSoftDefault(mode) PROVE StateInv' /\ \A k \in Chats : OneSwitch(k)
  BY <1>3, <1>g, <1>m, <1>t DEF SetSoftDefault
<1>4. ASSUME NEW a \in Askers, NEW t \in ModelTasks, AskModelCall(a, t)
      PROVE  StateInv' /\ \A k \in Chats : OneSwitch(k)
  <2>1. [pc |-> "ask", date |-> today, task |-> t] \in AskerRecord
    BY <1>t DEF AskerRecord
  <2>2. asker' \in [Askers -> AskerRecord]
    BY <1>t, <1>4, <2>1 DEF AskModelCall
  <2> QED BY <1>4, <1>g, <1>m, <1>t, <2>2 DEF AskModelCall
<1>5. ASSUME NEW a \in Askers, TakeTaskModelCall(a) PROVE StateInv' /\ \A k \in Chats : OneSwitch(k)
  BY <1>5, <1>g, TakeStep
<1>6. CASE NextDay
  <2>1. today' \in Days
    BY <1>6, <1>t, StateAssumption DEF NextDay, Days
  <2> QED BY <1>6, <1>g, <1>m, <1>t, <2>1 DEF NextDay
<1>7. CASE StateRestart
  <2>1. asker' \in [Askers -> AskerRecord]
    BY <1>7, IdleAskerTyped DEF StateRestart
  <2> QED BY <1>7, <1>g, <1>m, <1>t, <2>1 DEF StateRestart
<1>8. CASE UNCHANGED stateVars
  BY <1>8, <1>g, <1>m, <1>t DEF stateVars
<1> QED BY <1>1, <1>2, <1>3, <1>4, <1>5, <1>6, <1>7, <1>8 DEF StateNext

LEMMA QuotaFollows == StateInv => StateTypeOK /\ QuotaRespected /\ EffectiveIsDurable
<1> SUFFICES ASSUME StateInv, ~skewed, NEW d \in Days
             PROVE  granted[d].all <= ModelLimit /\ \A t \in ModelTasks : granted[d].of[t] <= TaskLimit
  BY DEF StateInv, QuotaRespected
<1>1. /\ DayQuota /\ TaskQuota /\ memory \in persistedState /\ granted \in [Days -> GrantRecord]
  BY DEF StateInv, StateTypeOK, GrantRecord
<1>2. /\ memory.quotaDate \in Nat /\ memory.quotaCalls \in Nat /\ d \in Nat /\ granted[d].all \in Nat
      /\ \A u \in ModelTasks : memory.taskDate[u] \in Nat /\ memory.taskCalls[u] \in Nat /\ granted[d].of[u] \in Nat
  <2>1. /\ memory.quotaDate \in Days /\ memory.quotaCalls \in Nat
        /\ \A u \in ModelTasks : memory.taskDate[u] \in Days /\ memory.taskCalls[u] \in Nat
    BY <1>1 DEF persistedState
  <2>2. granted[d].all \in Nat /\ \A u \in ModelTasks : granted[d].of[u] \in Nat
    BY <1>1 DEF GrantRecord
  <2> QED BY <2>1, <2>2 DEF Days
<1>3. granted[d].all <= ModelLimit
  BY <1>1, <1>2, StateAssumption DEF DayQuota
<1>4. ASSUME NEW t \in ModelTasks PROVE granted[d].of[t] <= TaskLimit
  BY <1>1, <1>2, StateAssumption DEF TaskQuota
<1> QED BY <1>3, <1>4

\* state.go: over any number of days, failed saves and restarts no date allows
\* more calls than its limits unless a turn came with an earlier date than
\* another, memory is always what a restart would read, and no step changes
\* two switches of a group.
THEOREM StateStaysSafe == StateSpec => StateIsSafe
<1>1. StateInv /\ [StateNext]_stateVars => StateInv'
  BY StateStep
<1>2. StateInv /\ [StateNext]_stateVars
        => [\A g \in Chats : GroupEnabled(g)' = GroupEnabled(g) \/ GroupSoftMode(g)' = GroupSoftMode(g)]_stateVars
  BY StateStep DEF OneSwitch
<1> QED BY <1>1, <1>2, StateInitInv, QuotaFollows, PTL DEF StateSpec, StateIsSafe, SwitchesAreIndependent

-----------------------------------------------------------------------------
(* The managed configuration: the audit trail *)

\* validateManagedConfigMetadata accepts what the manager writes; and the trail
\* goes back to the first revision or has its full length.
TrailOK(c) ==
    /\ IF c.revision = 0 THEN c.audit = <<>> /\ c.at = 0 ELSE ValidMetadata(c)
    /\ Len(c.audit) = MaxAudit \/ Len(c.audit) = c.revision

\* The trail of a later revision: entries of these sections, and old ones.
TrailContinues(next, sections) ==
    \A i \in 1..Len(next.audit) :
        \/ next.audit[i].sections = sections
        \/ \E j \in 1..Len(current.audit) : next.audit[i] = current.audit[j]

GoodSections(S) == S \in SUBSET Sections /\ S # {} /\ ("none" \in S => Cardinality(S) = 1)

LEMMA MaxOfTwo ==
  ASSUME NEW a \in Nat, NEW b \in Nat
  PROVE  Max({a, b}) \in Nat /\ Max({a, b}) >= a /\ Max({a, b}) >= b
<1>1. \E x \in {a, b} : \A y \in {a, b} : x >= y
  BY SMT
<1>2. Max({a, b}) \in {a, b} /\ \A y \in {a, b} : Max({a, b}) >= y
  BY <1>1, Zenon DEF Max
<1> QED BY <1>2

\* appendManagedConfigAudit: the oldest entry goes when the trail is full, the
\* new one comes last.
LEMMA AuditGrows ==
  ASSUME NEW entries \in Seq(AuditEntries), NEW entry \in AuditEntries, Len(entries) <= MaxAudit
  PROVE  \E k \in {0, 1} :
            /\ k = IF Len(entries) = MaxAudit THEN 1 ELSE 0
            /\ AppendAudit(entries, entry) \in Seq(AuditEntries)
            /\ Len(AppendAudit(entries, entry)) = Len(entries) - k + 1
            /\ \A i \in 1..(Len(entries) - k) : AppendAudit(entries, entry)[i] = entries[i + k]
            /\ AppendAudit(entries, entry)[Len(entries) - k + 1] = entry
<1>0. Len(entries) \in Nat /\ MaxAudit \in Nat /\ MaxAudit > 0
  BY ManagedConfigAssumption
<1>k. PICK k \in {0, 1} : k = IF Len(entries) = MaxAudit THEN 1 ELSE 0
  OBVIOUS
<1>1. PICK start : start = (IF Len(entries) >= MaxAudit THEN Len(entries) - MaxAudit + 2 ELSE 1)
  OBVIOUS
<1>2. start = 1 + k /\ start \in Int /\ k \in {0, 1} /\ k <= Len(entries)
  BY <1>0, <1>1, <1>k
<1>3. PICK kept : kept = SubSeq(entries, start, Len(entries))
  OBVIOUS
<1>4. \A i \in start..Len(entries) : entries[i] \in AuditEntries
  BY <1>0, <1>2
<1>5. /\ kept \in Seq(AuditEntries)
      /\ Len(kept) = IF start <= Len(entries) THEN Len(entries) - start + 1 ELSE 0
      /\ \A i \in 1..(Len(entries) - start + 1) : kept[i] = entries[start + i - 1]
  BY <1>0, <1>2, <1>3, <1>4, SubSeqProperties
<1>6. Len(kept) = Len(entries) - k /\ \A i \in 1..(Len(entries) - k) : kept[i] = entries[i + k]
  <2>1. Len(kept) = Len(entries) - k
    BY <1>0, <1>2, <1>5
  <2>2. ASSUME NEW i \in 1..(Len(entries) - k) PROVE kept[i] = entries[i + k]
    <3>1. i \in 1..(Len(entries) - start + 1) /\ start + i - 1 = i + k
      BY <1>0, <1>2
    <3> QED BY <1>5, <3>1
  <2> QED BY <2>1, <2>2
<1>7. AppendAudit(entries, entry) = Append(kept, entry)
  BY <1>1, <1>3 DEF AppendAudit
<1>8. /\ Append(kept, entry) \in Seq(AuditEntries) /\ Len(Append(kept, entry)) = Len(kept) + 1
      /\ \A i \in 1..Len(kept) : Append(kept, entry)[i] = kept[i]
      /\ Append(kept, entry)[Len(kept) + 1] = entry
  BY <1>5, AppendProperties
<1> QED BY <1>k, <1>6, <1>7, <1>8

\* The next revision: its stamp and its trail are ones that a load accepts, and
\* what it configures is what the caller asked for.
LEMMA NextRevision ==
  ASSUME current \in Configs, TrailOK(current), NEW c \in Configs, NEW now \in Nat, NEW sections, GoodSections(sections),
         NEW next, next = Stamped(c, now, sections)
  PROVE  /\ next \in Configs /\ TrailOK(next) /\ next.revision = current.revision + 1
         /\ next.settings = c.settings /\ next.replyer = c.replyer /\ next.planner = c.planner
         /\ next.rollout = c.rollout /\ next.behavior = c.behavior /\ next.limits = c.limits
         /\ next.qualified = c.qualified
         /\ TrailContinues(next, sections)
<1>0. /\ current.revision \in Nat /\ current.at \in Nat /\ current.audit \in Seq(AuditEntries)
      /\ MaxAudit \in Nat /\ MaxAudit > 0
  BY ManagedConfigAssumption DEF Configs
<1>1. PICK at : at = Max({now, current.at + 1})
  OBVIOUS
<1>2. at \in Nat /\ at >= current.at + 1
  <2>1. current.at + 1 \in Nat
    BY <1>0
  <2> QED BY <1>1, <2>1, MaxOfTwo
<1>3. PICK rev : rev = current.revision + 1
  OBVIOUS
<1>4. PICK entry : entry = [revision |-> rev, at |-> at, sections |-> sections]
  OBVIOUS
<1>5. rev \in Nat /\ entry \in AuditEntries /\ entry.revision = rev /\ entry.at = at /\ entry.sections = sections
  BY <1>0, <1>2, <1>3, <1>4 DEF AuditEntries, GoodSections
<1>6. PICK old : old = current.audit
  OBVIOUS
<1>7. old \in Seq(AuditEntries) /\ Len(old) \in Nat /\ Len(old) <= MaxAudit /\ Len(old) <= current.revision
  BY <1>0, <1>6 DEF TrailOK, ValidMetadata
<1>9. PICK audit : audit = AppendAudit(old, entry)
  OBVIOUS
<1>8. PICK k \in {0, 1} : /\ k = IF Len(old) = MaxAudit THEN 1 ELSE 0
                          /\ audit \in Seq(AuditEntries) /\ Len(audit) = Len(old) - k + 1
                          /\ \A i \in 1..(Len(old) - k) : audit[i] = old[i + k]
                          /\ audit[Len(old) - k + 1] = entry
  BY <1>5, <1>7, <1>9, AuditGrows
<1>10. /\ audit \in Seq(AuditEntries) /\ Len(audit) = Len(old) - k + 1
       /\ \A i \in 1..(Len(old) - k) : audit[i] = old[i + k]
       /\ audit[Len(old) - k + 1] = entry
  BY <1>8
<1>11. next = [c EXCEPT !.revision = rev, !.at = at, !.audit = audit]
  BY <1>1, <1>3, <1>4, <1>6, <1>9 DEF Stamped
<1>12. /\ next \in Configs /\ next.revision = rev /\ next.at = at /\ next.audit = audit
       /\ next.settings = c.settings /\ next.replyer = c.replyer /\ next.planner = c.planner
       /\ next.rollout = c.rollout /\ next.behavior = c.behavior /\ next.limits = c.limits
       /\ next.qualified = c.qualified
  BY <1>2, <1>5, <1>10, <1>11 DEF Configs
<1>13. k \in {0, 1} /\ k <= Len(old) /\ Len(audit) \in Nat /\ Len(audit) >= 1 /\ Len(audit) <= MaxAudit
  BY <1>0, <1>7, <1>8, <1>10
<1>14. ASSUME NEW i \in 1..Len(old)
       PROVE  /\ old[i] \in AuditEntries /\ old[i].revision = current.revision - Len(old) + i
              /\ old[i].at > (IF i = 1 THEN 0 ELSE old[i - 1].at) /\ GoodSections(old[i].sections)
  <2>1. current.revision # 0
    BY <1>0, <1>7
  <2>2. ValidMetadata(current)
    BY <2>1 DEF TrailOK
  <2>3. old[i] \in AuditEntries
    BY <1>7
  <2> QED BY <1>6, <2>2, <2>3 DEF ValidMetadata, GoodSections, AuditEntries
<1>15. Len(old) > 0 => old[Len(old)].at = current.at
  <2> SUFFICES ASSUME Len(old) > 0 PROVE old[Len(old)].at = current.at
    OBVIOUS
  <2>1. current.revision # 0
    BY <1>0, <1>7
  <2> QED BY <1>6, <2>1 DEF TrailOK, ValidMetadata
<1>16. \A i \in 1..Len(old) : old[i].at \in Nat
  BY <1>14 DEF AuditEntries
<1>17. ASSUME NEW i \in 1..Len(audit)
       PROVE  /\ audit[i].revision = rev - Len(audit) + i
              /\ audit[i].at > (IF i = 1 THEN 0 ELSE audit[i - 1].at)
              /\ GoodSections(audit[i].sections)
              /\ audit[i].sections = sections \/ \E j \in 1..Len(old) : audit[i] = old[j]
  <2>1. CASE i = Len(audit)
    <3>1. audit[i] = entry
      BY <1>10, <2>1
    <3>2. audit[i].revision = rev - Len(audit) + i
      BY <1>5, <1>13, <2>1, <3>1
    <3>3. audit[i].at > (IF i = 1 THEN 0 ELSE audit[i - 1].at)
      <4>1. CASE i = 1
        BY <1>0, <1>2, <1>5, <3>1, <4>1
      <4>2. CASE i # 1
        <5>1. i - 1 = Len(old) - k /\ i - 1 \in 1..(Len(old) - k)
          BY <1>7, <1>10, <1>13, <2>1, <4>2
        <5>2. audit[i - 1] = old[Len(old)] /\ Len(old) > 0
          BY <1>7, <1>10, <1>13, <5>1
        <5> QED BY <1>0, <1>2, <1>5, <1>15, <3>1, <4>2, <5>2
      <4> QED BY <4>1, <4>2
    <3> QED BY <1>5, <3>1, <3>2, <3>3
  <2>2. CASE i # Len(audit)
    <3>0. PICK j : j = i + k
      OBVIOUS
    <3>1. i \in 1..(Len(old) - k) /\ j \in 1..Len(old) /\ j - 1 \in Nat
      BY <1>7, <1>10, <1>13, <2>2, <3>0
    <3>2. audit[i] = old[j]
      BY <1>10, <3>0, <3>1
    <3>a. /\ old[j].revision = current.revision - Len(old) + j
          /\ old[j].at > (IF j = 1 THEN 0 ELSE old[j - 1].at) /\ GoodSections(old[j].sections)
      BY <1>14, <3>1
    <3>3. audit[i].revision = rev - Len(audit) + i
      <4>1. Len(audit) = Len(old) - k + 1 /\ Len(old) \in Nat /\ k \in Nat /\ i \in Nat
        BY <1>7, <1>10, <1>13
      <4>2. current.revision - Len(old) + j = rev - Len(audit) + i
        BY <1>0, <1>3, <3>0, <4>1
      <4> QED BY <3>2, <3>a, <4>2
    <3>5. audit[i].at > (IF i = 1 THEN 0 ELSE audit[i - 1].at)
      <4>1. CASE i = 1
        <5>1. CASE j = 1
          BY <3>2, <3>a, <4>1, <5>1
        <5>2. CASE j # 1
          <6>1. j - 1 \in 1..Len(old)
            BY <1>7, <3>1, <5>2
          <6>2. old[j - 1].at \in Nat /\ old[j].at \in Nat
            BY <1>16, <3>1, <6>1
          <6> QED BY <3>2, <3>a, <4>1, <5>2, <6>2
        <5> QED BY <5>1, <5>2
      <4>2. CASE i # 1
        <5>1. i - 1 \in 1..(Len(old) - k) /\ (i - 1) + k = j - 1 /\ j # 1
          BY <1>7, <1>13, <3>0, <3>1, <4>2
        <5>2. audit[i - 1] = old[j - 1]
          BY <1>10, <5>1
        <5> QED BY <3>2, <3>a, <4>2, <5>1, <5>2
      <4> QED BY <4>1, <4>2
    <3> QED BY <3>1, <3>2, <3>3, <3>a, <3>5
  <2> QED BY <2>1, <2>2
<1>18. audit[Len(audit)].at = at
  BY <1>5, <1>10
<1>19. rev > 0 /\ Len(audit) <= rev /\ (Len(audit) = MaxAudit \/ Len(audit) = rev)
  <2>1. Len(old) = MaxAudit \/ Len(old) = current.revision
    BY <1>6 DEF TrailOK
  <2> QED BY <1>0, <1>3, <1>7, <1>8, <1>10, <2>1
<1>20. ValidMetadata(next)
  <2>1. Len(next.audit) \in 1..MaxAudit
    BY <1>0, <1>12, <1>13
  <2>2. \A i \in 1..Len(next.audit) :
          /\ next.audit[i].revision = next.revision - Len(next.audit) + i
          /\ next.audit[i].at > (IF i = 1 THEN 0 ELSE next.audit[i - 1].at)
          /\ next.audit[i].sections # {}
          /\ "none" \in next.audit[i].sections => Cardinality(next.audit[i].sections) = 1
    BY <1>12, <1>17 DEF GoodSections
  <2> QED BY <1>12, <1>18, <1>19, <2>1, <2>2 DEF ValidMetadata
<1>21. TrailOK(next)
  BY <1>0, <1>12, <1>19, <1>20 DEF TrailOK
<1>22. TrailContinues(next, sections)
  BY <1>6, <1>12, <1>17 DEF TrailContinues
<1> QED BY <1>3, <1>12, <1>21, <1>22

-----------------------------------------------------------------------------
(* The managed configuration: the inductive invariant *)

PatchRecord == [pc : {"idle", "apply", "soft", "mark"}, revision : Nat, behavior : Behaviors,
                changed : BOOLEAN, restart : BOOLEAN]
JobRecord == [status : {"idle", "running", "passed", "failed", "error", "cancelled"}, model : ModelIds,
              settings : Settings \cup {Unconfigured}, passed : BOOLEAN]
BothAre(b) == [behavior |-> b, soft |-> b]

ConfigTyped ==
    /\ current \in Configs /\ applied \in Configs
    /\ engine \in [behavior : Behaviors, soft : Behaviors]
    /\ patch \in [Handlers -> PatchRecord]
    /\ restarting \in BOOLEAN /\ overlapped \in BOOLEAN /\ inherited \in BOOLEAN

\* quality_eval_job.go: the job that runs holds the slot, evaluates settings
\* that are configured, and has passed only what it has earned.
JobInv ==
    /\ job \in JobRecord /\ earned \subseteq ModelIds \X Settings
    /\ slot \in {"none", "evaluation"} \cup Diagnostics
    /\ slot = "evaluation" <=> job.status = "running"
    /\ job.status = "running" => job.settings \in Settings
    /\ job.passed => <<job.model, job.settings>> \in earned

\* The file is the configuration, and nothing in it is there to be pruned.
FileInv == configFile = current /\ TrailOK(current) /\ QualificationsAreEarned

Busy(h) == patch[h].pc # "idle"

\* No PATCH is under way: what is current has been applied.
Settled ==
    /\ \A h \in Handlers : ~Busy(h)
    /\ applied = current /\ engine = BothAre(current.behavior)

\* The PATCH of h is under way, alone: what came after its update are only
\* qualifications, and the engine runs what the handler has put into it so far.
UnderwayBy(h) ==
    /\ Busy(h) /\ \A g \in Handlers \ {h} : ~Busy(g)
    /\ applied.revision < patch[h].revision /\ patch[h].revision <= current.revision
    /\ patch[h].behavior = current.behavior
    /\ patch[h].changed <=> BehaviorChanged(applied, current)
    /\ patch[h].restart <=> RestartConfigChanged(applied, current)
    /\ \A i \in 1..Len(current.audit) :
          current.audit[i].revision > patch[h].revision => current.audit[i].sections = {"model_validation"}
    /\ patch[h].pc = "apply" => engine = BothAre(applied.behavior)
    /\ patch[h].pc = "soft" => engine.behavior = current.behavior
    /\ patch[h].pc = "mark" => engine = BothAre(current.behavior)

LiveInv == ~overlapped /\ ~restarting => Settled \/ \E h \in Handlers : UnderwayBy(h)

ConfigInv == ConfigTyped /\ JobInv /\ FileInv /\ ProductionIsQualified /\ LiveInv

\* Two configurations that differ in revision, trail and qualifications only.
SameSettings(c, d) ==
    /\ c.settings = d.settings /\ c.replyer = d.replyer /\ c.planner = d.planner
    /\ c.rollout = d.rollout /\ c.behavior = d.behavior /\ c.limits = d.limits

LEMMA PrunedIs ==
  ASSUME NEW c \in Configs
  PROVE  /\ Pruned(c) \in Configs /\ SameSettings(Pruned(c), c)
         /\ Pruned(c).qualified = {q \in c.qualified : Current(c, q)}
         /\ \A q \in Pruned(c).qualified : q \in c.qualified /\ Current(Pruned(c), q)
<1>1. PICK Q : Q = {q \in c.qualified : Current(c, q)}
  OBVIOUS
<1>2. Pruned(c) = [c EXCEPT !.qualified = Q]
  BY <1>1 DEF Pruned
<1>3. Q \in SUBSET (ModelIds \X Settings)
  BY <1>1 DEF Configs
<1>4. Pruned(c) \in Configs /\ SameSettings(Pruned(c), c) /\ Pruned(c).qualified = Q
  BY <1>2, <1>3 DEF Configs, SameSettings
<1> QED BY <1>1, <1>4 DEF Current, Fingerprint, SameSettings

\* Nothing to prune: the configuration stays as it is.
LEMMA PrunedAlready ==
  ASSUME NEW c \in Configs, \A q \in c.qualified : Current(c, q)
  PROVE  Pruned(c) = c
<1>1. {q \in c.qualified : Current(c, q)} = c.qualified
  OBVIOUS
<1>2. [c EXCEPT !.qualified = c.qualified] = c
  BY DEF Configs
<1> QED BY <1>1, <1>2 DEF Pruned

LEMMA ChangedSectionsAreGood ==
  ASSUME NEW c, NEW d
  PROVE  GoodSections(ChangedSections(c, d))
<1>1. PICK S : S = (IF AIEnabled(c) # AIEnabled(d) THEN {"ai_activation"} ELSE {})
                    \cup (IF c.rollout # d.rollout THEN {"ai_rollout"} ELSE {})
                    \cup (IF ModelRoutingChanged(c, d) THEN {"model"} ELSE {})
                    \cup (IF BehaviorChanged(c, d) THEN {"behavior"} ELSE {})
                    \cup (IF c.limits # d.limits THEN {"runtime_limits"} ELSE {})
  OBVIOUS
<1>2. ChangedSections(c, d) = IF S = {} THEN {"none"} ELSE S
  BY <1>1 DEF ChangedSections
<1>3. S \subseteq Sections /\ "none" \notin S
  BY <1>1 DEF Sections
<1>4. CASE S = {}
  <2>1. Cardinality({"none"}) = 1
    BY FS_Singleton
  <2> QED BY <1>2, <1>4, <2>1 DEF GoodSections, Sections
<1>5. CASE S # {}
  BY <1>2, <1>3, <1>5 DEF GoodSections
<1> QED BY <1>4, <1>5

LEMMA ValidationSectionsAreGood == GoodSections({"model_validation"})
  BY DEF GoodSections, Sections

LEMMA IdleTyped == IdlePatch \in PatchRecord /\ IdleJob \in JobRecord /\ IdlePatch.pc = "idle" /\ IdleJob.status = "idle" /\ IdleJob.passed = FALSE
<1>1. (CHOOSE b \in Behaviors : TRUE) \in Behaviors /\ (CHOOSE m \in ModelIds : TRUE) \in ModelIds
  BY ManagedConfigAssumption
<1>2. IdlePatch \in PatchRecord /\ IdlePatch.pc = "idle"
  BY <1>1 DEF IdlePatch, PatchRecord
<1>3. IdleJob \in JobRecord /\ IdleJob.status = "idle" /\ IdleJob.passed = FALSE
  BY <1>1 DEF IdleJob, JobRecord, Unconfigured
<1> QED BY <1>2, <1>3

LEMMA ConfigInitInv == ConfigInit => ConfigInv
<1> SUFFICES ASSUME ConfigInit PROVE ConfigInv
  OBVIOUS
<1>0. /\ (CHOOSE b \in Behaviors : TRUE) \in Behaviors /\ (CHOOSE l \in Limits : TRUE) \in Limits
      /\ (CHOOSE s \in Settings : TRUE) \in Settings
  BY ManagedConfigAssumption
<1>1. PICK rollout \in {"off", "all"} :
        current = [settings |-> [m \in ModelIds |-> CHOOSE s \in Settings : TRUE], replyer |-> ModelIds, planner |-> {},
                   rollout |-> rollout, behavior |-> CHOOSE b \in Behaviors : TRUE,
                   limits |-> CHOOSE l \in Limits : TRUE, qualified |-> {}, revision |-> 0, at |-> 0,
                   audit |-> <<>>]
  BY DEF ConfigInit
<1>2. current \in Configs /\ current.qualified = {} /\ current.revision = 0 /\ current.at = 0 /\ current.audit = <<>>
  <2>1. [m \in ModelIds |-> CHOOSE s \in Settings : TRUE] \in [ModelIds -> Settings \cup {Unconfigured}]
    BY <1>0
  <2>2. <<>> \in Seq(AuditEntries)
    OBVIOUS
  <2> HIDE DEF Unconfigured
  <2>3. PICK f : f = [m \in ModelIds |-> CHOOSE s \in Settings : TRUE]
    OBVIOUS
  <2>4. PICK bb : bb = (CHOOSE b \in Behaviors : TRUE)
    OBVIOUS
  <2>5. PICK ll : ll = (CHOOSE l \in Limits : TRUE)
    OBVIOUS
  <2>6. current = [settings |-> f, replyer |-> ModelIds, planner |-> {}, rollout |-> rollout, behavior |-> bb,
                   limits |-> ll, qualified |-> {}, revision |-> 0, at |-> 0, audit |-> <<>>]
    BY <1>1, <2>3, <2>4, <2>5
  <2>7. f \in [ModelIds -> Settings \cup {Unconfigured}] /\ bb \in Behaviors /\ ll \in Limits
    BY <1>0, <2>1, <2>3, <2>4, <2>5
  <2> QED BY <2>2, <2>6, <2>7 DEF Configs
<1>3. /\ applied = current /\ configFile = current /\ engine = BothAre(current.behavior)
      /\ patch = [h \in Handlers |-> IdlePatch] /\ slot = "none" /\ job = IdleJob
      /\ restarting = FALSE /\ overlapped = FALSE /\ earned = {} /\ inherited = AIEnabled(current)
  BY DEF ConfigInit, BothAre
<1>4. ConfigTyped
  <2>1. engine \in [behavior : Behaviors, soft : Behaviors]
    BY <1>2, <1>3 DEF BothAre, Configs
  <2>2. patch \in [Handlers -> PatchRecord]
    BY <1>3, IdleTyped
  <2>3. inherited \in BOOLEAN
    BY <1>3 DEF AIEnabled
  <2> QED BY <1>2, <1>3, <2>1, <2>2, <2>3 DEF ConfigTyped
<1>5. JobInv
  BY <1>3, IdleTyped DEF JobInv
<1>6. FileInv
  BY <1>2, <1>3 DEF FileInv, TrailOK, QualificationsAreEarned
<1>7. ProductionIsQualified
  BY <1>3 DEF ProductionIsQualified
<1>8. Settled
  BY <1>3, IdleTyped DEF Settled, Busy
<1> QED BY <1>4, <1>5, <1>6, <1>7, <1>8 DEF ConfigInv, LiveInv

-----------------------------------------------------------------------------
(* The managed configuration: a PATCH *)

\* UpdateWithResult: the next revision, with what the body asks for and the
\* qualifications that still fit.
LEMMA UpdateIs ==
  ASSUME ConfigInv, NEW h \in Handlers, NEW u \in Patches, NEW now \in Clock, UpdateWithResult(h, u, now)
  PROVE  \E next \in Configs :
            /\ current' = next /\ configFile' = next /\ TrailOK(next) /\ next.revision = current.revision + 1
            /\ \A q \in next.qualified : q \in current.qualified /\ Current(next, q)
            /\ AIEnabled(next) /\ (~AIEnabled(current) \/ ModelRoutingChanged(current, next)) => ProductionReady(next)
            /\ patch' = [patch EXCEPT ![h] =
                  [pc |-> "apply", revision |-> next.revision, behavior |-> next.behavior,
                   changed |-> BehaviorChanged(applied, next), restart |-> RestartConfigChanged(applied, next)]]
            /\ inherited' = (inherited /\ AIEnabled(next) /\ ~ModelRoutingChanged(current, next))
<1>0. current \in Configs /\ TrailOK(current) /\ now \in Nat
  BY ManagedConfigAssumption DEF ConfigInv, ConfigTyped, FileInv
<1>1. PICK c : c = [current EXCEPT !.settings = u.settings, !.replyer = u.replyer, !.planner = u.planner,
                                   !.rollout = u.rollout, !.behavior = u.behavior, !.limits = u.limits]
  OBVIOUS
<1>2. u \in [settings : [ModelIds -> Settings \cup {0}], replyer : SUBSET ModelIds, planner : SUBSET ModelIds,
             rollout : {"off", "allowlist", "all"}, behavior : Behaviors, limits : Limits]
  BY ManagedConfigAssumption
<1>3. c \in Configs /\ c.qualified = current.qualified
  BY <1>0, <1>1, <1>2 DEF Configs, Unconfigured
<1>4. PICK asked : asked = Pruned(c)
  OBVIOUS
<1>5. asked \in Configs /\ \A q \in asked.qualified : q \in current.qualified /\ Current(asked, q)
  BY <1>3, <1>4, PrunedIs
<1>6. PICK next : next = Stamped(asked, now, ChangedSections(current, asked))
  OBVIOUS
<1>7. /\ next \in Configs /\ TrailOK(next) /\ next.revision = current.revision + 1
      /\ next.settings = asked.settings /\ next.replyer = asked.replyer /\ next.planner = asked.planner
      /\ next.rollout = asked.rollout /\ next.qualified = asked.qualified
  <2>1. GoodSections(ChangedSections(current, asked))
    BY ChangedSectionsAreGood
  <2> QED BY <1>0, <1>5, <1>6, <2>1, NextRevision
<1>8. /\ AcceptedUpdate(asked) /\ current' = next /\ configFile' = next
      /\ patch' = [patch EXCEPT ![h] =
            [pc |-> "apply", revision |-> next.revision, behavior |-> next.behavior,
             changed |-> BehaviorChanged(applied, next), restart |-> RestartConfigChanged(applied, next)]]
      /\ inherited' = (inherited /\ AIEnabled(next) /\ ~ModelRoutingChanged(current, next))
  BY <1>1, <1>4, <1>6 DEF UpdateWithResult, PersistManagedConfig
<1>9. \A q \in next.qualified : q \in current.qualified /\ Current(next, q)
  BY <1>5, <1>7 DEF Current, Fingerprint
<1>10. AIEnabled(next) /\ (~AIEnabled(current) \/ ModelRoutingChanged(current, next)) => ProductionReady(next)
  <2>1. AIEnabled(next) <=> AIEnabled(asked)
    BY <1>7 DEF AIEnabled
  <2>2. ModelRoutingChanged(current, next) <=> ModelRoutingChanged(current, asked)
    BY <1>7 DEF ModelRoutingChanged
  <2>3. ProductionReady(asked) <=> ProductionReady(next)
    BY <1>7 DEF ProductionReady, Required, Missing, Current, Fingerprint
  <2> QED BY <1>8, <2>1, <2>2, <2>3 DEF AcceptedUpdate
<1> QED BY <1>7, <1>8, <1>9, <1>10

\* A configuration that is ready for production has earned it.
LEMMA ReadyIsEarned ==
  ASSUME NEW c \in Configs, \A q \in c.qualified : q \in earned, ProductionReady(c), NEW m \in Required(c)
  PROVE  <<m, c.settings[m]>> \in earned
<1>1. PICK q \in c.qualified : q[1] = m /\ Current(c, q)
  BY DEF ProductionReady, Missing
<1>2. q = <<q[1], q[2]>>
  BY <1>1 DEF Configs
<1>3. q = <<m, c.settings[m]>>
  BY <1>1, <1>2 DEF Current, Fingerprint
<1> QED BY <1>1, <1>3

LEMMA UpdateStep ==
  ASSUME ConfigInv, NEW h \in Handlers, NEW u \in Patches, NEW now \in Clock, UpdateWithResult(h, u, now)
  PROVE  ConfigInv'
<1>0. /\ ConfigTyped /\ JobInv /\ FileInv /\ ProductionIsQualified /\ LiveInv
  BY DEF ConfigInv
<1>1. PICK next \in Configs :
        /\ current' = next /\ configFile' = next /\ TrailOK(next) /\ next.revision = current.revision + 1
        /\ \A q \in next.qualified : q \in current.qualified /\ Current(next, q)
        /\ AIEnabled(next) /\ (~AIEnabled(current) \/ ModelRoutingChanged(current, next)) => ProductionReady(next)
        /\ patch' = [patch EXCEPT ![h] =
              [pc |-> "apply", revision |-> next.revision, behavior |-> next.behavior,
               changed |-> BehaviorChanged(applied, next), restart |-> RestartConfigChanged(applied, next)]]
        /\ inherited' = (inherited /\ AIEnabled(next) /\ ~ModelRoutingChanged(current, next))
  BY UpdateIs
<1>2. /\ UNCHANGED <<applied, engine, slot, job, restarting, earned>> /\ patch[h].pc = "idle"
      /\ overlapped' = (overlapped \/ \E g \in Handlers \ {h} : patch[g].pc # "idle")
  BY DEF UpdateWithResult
<1>3. PICK r : r = [pc |-> "apply", revision |-> next.revision, behavior |-> next.behavior,
                    changed |-> BehaviorChanged(applied, next), restart |-> RestartConfigChanged(applied, next)]
  OBVIOUS
<1>4. BehaviorChanged(applied, next) \in BOOLEAN /\ RestartConfigChanged(applied, next) \in BOOLEAN
  BY DEF BehaviorChanged, RestartConfigChanged
<1>5. next.revision \in Nat /\ next.behavior \in Behaviors /\ current.revision \in Nat /\ applied.revision \in Nat
  BY <1>0 DEF Configs, ConfigTyped
<1>6. r \in PatchRecord
  BY <1>3, <1>4, <1>5 DEF PatchRecord
<1>7. /\ patch' \in [Handlers -> PatchRecord] /\ patch'[h] = r /\ \A g \in Handlers \ {h} : patch'[g] = patch[g]
  BY <1>0, <1>1, <1>3, <1>6 DEF ConfigTyped
<1>8. ConfigTyped'
  <2>1. overlapped' \in BOOLEAN /\ inherited' \in BOOLEAN
    BY <1>1, <1>2
  <2> QED BY <1>0, <1>1, <1>2, <1>7, <2>1 DEF ConfigTyped
<1>9. JobInv'
  BY <1>0, <1>2 DEF JobInv
<1>10. FileInv'
  BY <1>0, <1>1, <1>2 DEF FileInv, QualificationsAreEarned
<1>11. ProductionIsQualified'
  <2> SUFFICES ASSUME AIEnabled(next), ~inherited', NEW m \in Required(next) PROVE <<m, next.settings[m]>> \in earned
    BY <1>1, <1>2 DEF ProductionIsQualified
  <2>1. CASE ~AIEnabled(current) \/ ModelRoutingChanged(current, next)
    <3>1. ProductionReady(next) /\ \A q \in next.qualified : q \in earned
      BY <1>0, <1>1, <2>1 DEF FileInv, QualificationsAreEarned
    <3> QED BY <3>1, ReadyIsEarned
  <2>2. CASE AIEnabled(current) /\ ~ModelRoutingChanged(current, next)
    <3>1. ~inherited
      BY <1>1, <2>2
    <3>2. next.settings = current.settings /\ next.replyer = current.replyer /\ next.planner = current.planner
      BY <2>2 DEF ModelRoutingChanged
    <3> QED BY <1>0, <2>2, <3>1, <3>2 DEF ProductionIsQualified, Required
  <2> QED BY <2>1, <2>2
<1>12. LiveInv'
  <2> SUFFICES ASSUME ~overlapped', ~restarting' PROVE UnderwayBy(h)'
    BY DEF LiveInv
  <2>1. ~overlapped /\ ~restarting /\ \A g \in Handlers : ~Busy(g)
    BY <1>2 DEF Busy
  <2>2. Settled
    BY <1>0, <2>1 DEF LiveInv, UnderwayBy
  <2>3. /\ r.pc = "apply" /\ r.revision = next.revision /\ r.behavior = next.behavior
        /\ r.changed = BehaviorChanged(applied, next) /\ r.restart = RestartConfigChanged(applied, next)
    BY <1>3
  <2>4. \A i \in 1..Len(next.audit) : ~(next.audit[i].revision > next.revision)
    <3>1. ValidMetadata(next)
      BY <1>1, <1>5 DEF TrailOK
    <3>2. Len(next.audit) \in Nat
      BY DEF Configs
    <3> SUFFICES ASSUME NEW i \in 1..Len(next.audit) PROVE ~(next.audit[i].revision > next.revision)
      OBVIOUS
    <3>3. next.audit[i].revision = next.revision - Len(next.audit) + i
      BY <3>1 DEF ValidMetadata
    <3>4. i \in Nat /\ i <= Len(next.audit)
      BY <3>2
    <3>5. next.revision - Len(next.audit) + i <= next.revision /\ next.revision - Len(next.audit) + i \in Int
      BY <1>5, <3>2, <3>4
    <3> QED BY <1>5, <3>3, <3>5
  <2>5. Busy(h)' /\ \A g \in Handlers \ {h} : ~Busy(g)'
    BY <1>7, <2>1, <2>3 DEF Busy
  <2>6. applied' = applied /\ applied.revision < next.revision /\ next.revision <= next.revision
    BY <1>1, <1>2, <1>5, <2>2 DEF Settled
  <2>7. engine' = BothAre(applied.behavior)
    BY <1>2, <2>2 DEF Settled
  <2> QED BY <1>1, <1>7, <2>3, <2>4, <2>5, <2>6, <2>7 DEF UnderwayBy
<1> QED BY <1>8, <1>9, <1>10, <1>11, <1>12 DEF ConfigInv

\* Steps of a handler leave the manager's configuration and the job alone.
LEMMA HandlerKeeps ==
  ASSUME ConfigInv, UNCHANGED <<current, configFile, slot, job, earned, inherited>>
  PROVE  JobInv' /\ FileInv' /\ ProductionIsQualified'
<1>1. JobInv'
  BY DEF ConfigInv, JobInv
<1>2. FileInv'
  BY DEF ConfigInv, FileInv, QualificationsAreEarned
<1>3. ProductionIsQualified'
  BY DEF ConfigInv, ProductionIsQualified
<1> QED BY <1>1, <1>2, <1>3

\* While another handler is under way alone, this one is idle.
LEMMA OnlyOneUnderway ==
  ASSUME LiveInv, ~overlapped, ~restarting, NEW h \in Handlers, Busy(h)
  PROVE  UnderwayBy(h)
  BY DEF LiveInv, Settled, UnderwayBy

LEMMA ApplyBehaviorStep ==
  ASSUME ConfigInv, NEW h \in Handlers, ApplyBehavior(h)
  PROVE  ConfigInv'
<1>0. ConfigTyped /\ LiveInv
  BY DEF ConfigInv
<1>1. /\ patch[h].pc = "apply" /\ UNCHANGED <<current, applied, configFile, slot, job, restarting, overlapped, earned, inherited>>
      /\ engine' = IF patch[h].changed THEN [engine EXCEPT !.behavior = patch[h].behavior] ELSE engine
  BY DEF ApplyBehavior
<1>2. PICK pc : pc = (IF patch[h].changed THEN "soft" ELSE "mark")
  OBVIOUS
<1>3. patch' = [patch EXCEPT ![h].pc = pc]
  BY <1>2 DEF ApplyBehavior
<1>4. patch[h] \in PatchRecord /\ pc \in {"soft", "mark"}
  BY <1>0, <1>2 DEF ConfigTyped
<1>5. PICK r : r = [patch[h] EXCEPT !.pc = pc]
  OBVIOUS
<1>6. /\ r \in PatchRecord /\ r.pc = pc /\ r.revision = patch[h].revision /\ r.behavior = patch[h].behavior
      /\ r.changed = patch[h].changed /\ r.restart = patch[h].restart
  BY <1>4, <1>5 DEF PatchRecord
<1>7. patch' \in [Handlers -> PatchRecord] /\ patch'[h] = r /\ \A g \in Handlers \ {h} : patch'[g] = patch[g]
  BY <1>0, <1>3, <1>5, <1>6 DEF ConfigTyped
<1>8. engine' \in [behavior : Behaviors, soft : Behaviors]
  BY <1>0, <1>1, <1>4 DEF ConfigTyped, PatchRecord
<1>9. ConfigTyped'
  BY <1>0, <1>1, <1>7, <1>8 DEF ConfigTyped
<1>10. LiveInv'
  <2> SUFFICES ASSUME ~overlapped, ~restarting PROVE UnderwayBy(h)'
    BY <1>1 DEF LiveInv
  <2>1. UnderwayBy(h)
    BY <1>0, <1>1, OnlyOneUnderway DEF Busy
  <2>2. Busy(h)' /\ \A g \in Handlers \ {h} : ~Busy(g)'
    BY <1>4, <1>6, <1>7, <2>1 DEF UnderwayBy, Busy
  <2>3. engine = BothAre(applied.behavior) /\ patch[h].behavior = current.behavior
    BY <1>1, <2>1 DEF UnderwayBy
  <2>4. CASE patch[h].changed
    <3>1. pc = "soft" /\ engine'.behavior = current.behavior
      BY <1>1, <1>2, <2>3, <2>4 DEF BothAre
    <3> QED BY <1>1, <1>6, <1>7, <2>1, <2>2, <3>1 DEF UnderwayBy
  <2>5. CASE ~patch[h].changed
    <3>1. pc = "mark" /\ engine' = engine /\ applied.behavior = current.behavior
      BY <1>1, <1>2, <2>1, <2>5 DEF UnderwayBy, BehaviorChanged
    <3> QED BY <1>1, <1>6, <1>7, <2>1, <2>2, <2>3, <3>1 DEF UnderwayBy
  <2> QED BY <2>4, <2>5
<1> QED BY <1>1, <1>9, <1>10, HandlerKeeps DEF ConfigInv

LEMMA ApplySoftStep ==
  ASSUME ConfigInv, NEW h \in Handlers, ApplySoftDefault(h)
  PROVE  ConfigInv'
<1>0. ConfigTyped /\ LiveInv
  BY DEF ConfigInv
<1>1. /\ patch[h].pc = "soft" /\ UNCHANGED <<current, applied, configFile, slot, job, restarting, overlapped, earned, inherited>>
      /\ engine' = [engine EXCEPT !.soft = patch[h].behavior] /\ patch' = [patch EXCEPT ![h].pc = "mark"]
  BY DEF ApplySoftDefault
<1>4. patch[h] \in PatchRecord
  BY <1>0 DEF ConfigTyped
<1>5. PICK r : r = [patch[h] EXCEPT !.pc = "mark"]
  OBVIOUS
<1>6. /\ r \in PatchRecord /\ r.pc = "mark" /\ r.revision = patch[h].revision /\ r.behavior = patch[h].behavior
      /\ r.changed = patch[h].changed /\ r.restart = patch[h].restart
  BY <1>4, <1>5 DEF PatchRecord
<1>7. patch' \in [Handlers -> PatchRecord] /\ patch'[h] = r /\ \A g \in Handlers \ {h} : patch'[g] = patch[g]
  BY <1>0, <1>1, <1>5, <1>6 DEF ConfigTyped
<1>8. engine' \in [behavior : Behaviors, soft : Behaviors]
  BY <1>0, <1>1, <1>4 DEF ConfigTyped, PatchRecord
<1>9. ConfigTyped'
  BY <1>0, <1>1, <1>7, <1>8 DEF ConfigTyped
<1>10. LiveInv'
  <2> SUFFICES ASSUME ~overlapped, ~restarting PROVE UnderwayBy(h)'
    BY <1>1 DEF LiveInv
  <2>1. UnderwayBy(h)
    BY <1>0, <1>1, OnlyOneUnderway DEF Busy
  <2>2. Busy(h)' /\ \A g \in Handlers \ {h} : ~Busy(g)'
    BY <1>6, <1>7, <2>1 DEF UnderwayBy, Busy
  <2>3. engine.behavior = current.behavior /\ patch[h].behavior = current.behavior
    BY <1>1, <2>1 DEF UnderwayBy
  <2>4. engine' = BothAre(current.behavior)
    BY <1>0, <1>1, <2>3 DEF BothAre, ConfigTyped
  <2> QED BY <1>1, <1>6, <1>7, <2>1, <2>2, <2>4 DEF UnderwayBy
<1> QED BY <1>1, <1>9, <1>10, HandlerKeeps DEF ConfigInv

\* onlyModelValidationChangesAfter finds nothing but qualifications, as long as
\* the trail still reaches back to the revision.
LEMMA QualificationsOnly ==
  ASSUME current \in Configs, TrailOK(current), NEW revision \in Nat, revision <= current.revision,
         current.revision - revision <= MaxAudit,
         \A i \in 1..Len(current.audit) :
            current.audit[i].revision > revision => current.audit[i].sections = {"model_validation"}
  PROVE  OnlyValidationAfter(revision)
<1>1. PICK L : L = Len(current.audit)
  OBVIOUS
<1>2. L \in Nat /\ MaxAudit \in Nat /\ current.revision \in Nat /\ (L = MaxAudit \/ L = current.revision)
  BY <1>1, ManagedConfigAssumption DEF Configs, TrailOK
<1>3. PICK k : k = L - (current.revision - revision)
  OBVIOUS
<1>4. L <= current.revision
  BY <1>1, <1>2 DEF TrailOK, ValidMetadata
<1>5. k \in Nat /\ k <= L
  BY <1>2, <1>3, <1>4
<1>6. ASSUME NEW i \in 1..L PROVE current.audit[i].revision = revision - k + i
  <2>1. current.revision # 0
    BY <1>2, <1>4
  <2>2. current.audit[i].revision = current.revision - L + i
    BY <1>1, <2>1 DEF TrailOK, ValidMetadata
  <2>3. current.revision - L + i = revision - k + i
    BY <1>2, <1>3
  <2> QED BY <2>2, <2>3
<1>7. PICK later : later = {i \in 1..Len(current.audit) : current.audit[i].revision > revision}
  OBVIOUS
<1>8. later = (k + 1)..L
  <2>1. ASSUME NEW i \in 1..L PROVE current.audit[i].revision > revision <=> i >= k + 1
    <3>1. revision - k + i > revision <=> i >= k + 1
      BY <1>5
    <3> QED BY <1>6, <3>1
  <2>2. \A i : i \in (k + 1)..L <=> i \in 1..L /\ i >= k + 1
    BY <1>2, <1>5
  <2> QED BY <1>1, <1>7, <2>1, <2>2
<1>9. ASSUME NEW i \in later PROVE revision + Cardinality({j \in later : j <= i}) = current.audit[i].revision
  <2>1. i \in 1..L /\ i >= k + 1 /\ i <= L /\ i \in Nat
    BY <1>2, <1>5, <1>8
  <2>2. {j \in later : j <= i} = (k + 1)..i
    BY <1>2, <1>5, <1>8, <2>1
  <2>3. Cardinality((k + 1)..i) = i - (k + 1) + 1
    BY <1>5, <2>1, FS_Interval
  <2>4. current.audit[i].revision = revision - k + i
    BY <1>6, <2>1
  <2>5. revision + (i - (k + 1) + 1) = revision - k + i
    BY <1>5, <2>1
  <2> QED BY <2>2, <2>3, <2>4, <2>5
<1>10. revision + Cardinality(later) = current.revision
  <2>1. Cardinality((k + 1)..L) = IF k + 1 > L THEN 0 ELSE L - (k + 1) + 1
    BY <1>2, <1>5, FS_Interval
  <2>2. Cardinality((k + 1)..L) = L - k
    BY <1>2, <1>5, <2>1
  <2> QED BY <1>2, <1>3, <1>8, <2>2
<1>11. \A i \in later : current.audit[i].sections = {"model_validation"}
  BY <1>7
<1> QED BY <1>7, <1>9, <1>10, <1>11 DEF OnlyValidationAfter

LEMMA FinishStep ==
  ASSUME ConfigInv, NEW h \in Handlers, FinishUpdate(h)
  PROVE  ConfigInv'
<1>0. ConfigTyped /\ LiveInv /\ FileInv
  BY DEF ConfigInv
<1>1. /\ patch[h].pc = "mark" /\ UNCHANGED <<current, configFile, engine, slot, job, earned, inherited>>
      /\ patch' = [patch EXCEPT ![h] = IdlePatch]
      /\ overlapped' = (overlapped \/ current.revision - patch[h].revision > MaxAudit)
      /\ IF patch[h].restart THEN restarting' = TRUE /\ UNCHANGED applied
                             ELSE MarkApplied(patch[h].revision) /\ UNCHANGED restarting
  BY DEF FinishUpdate
<1>2. patch' \in [Handlers -> PatchRecord] /\ patch'[h] = IdlePatch /\ \A g \in Handlers \ {h} : patch'[g] = patch[g]
  BY <1>0, <1>1, IdleTyped DEF ConfigTyped
<1>3. applied' \in {applied, current} /\ restarting' \in BOOLEAN
  BY <1>0, <1>1 DEF MarkApplied, ConfigTyped
<1>4. ConfigTyped'
  <2>1. overlapped' \in BOOLEAN
    BY <1>1
  <2> QED BY <1>0, <1>1, <1>2, <1>3, <2>1 DEF ConfigTyped
<1>5. LiveInv'
  <2> SUFFICES ASSUME ~overlapped', ~restarting' PROVE Settled'
    BY DEF LiveInv
  <2>1. ~overlapped /\ ~restarting /\ ~patch[h].restart /\ MarkApplied(patch[h].revision)
    BY <1>1
  <2>2. UnderwayBy(h)
    BY <1>0, <1>1, <2>1, OnlyOneUnderway DEF Busy
  <2>3. patch[h].revision \in Nat /\ current.revision \in Nat /\ MaxAudit \in Nat
    BY <1>0, ManagedConfigAssumption DEF ConfigTyped, PatchRecord, Configs
  <2>4. patch[h].revision <= current.revision /\ current.revision - patch[h].revision <= MaxAudit
    <3>1. ~(current.revision - patch[h].revision > MaxAudit)
      BY <1>1
    <3>2. patch[h].revision <= current.revision
      BY <2>2 DEF UnderwayBy
    <3> QED BY <2>3, <3>1, <3>2
  <2>5. OnlyValidationAfter(patch[h].revision)
    <3>1. current \in Configs /\ TrailOK(current)
      BY <1>0 DEF ConfigTyped, FileInv
    <3>2. \A i \in 1..Len(current.audit) :
            current.audit[i].revision > patch[h].revision => current.audit[i].sections = {"model_validation"}
      BY <2>2 DEF UnderwayBy
    <3> QED BY <2>3, <2>4, <3>1, <3>2, QualificationsOnly
  <2>6. ~RestartConfigChanged(applied, current)
    BY <2>1, <2>2 DEF UnderwayBy
  <2>7. applied' = current
    BY <2>1, <2>4, <2>5, <2>6 DEF MarkApplied
  <2>8. \A g \in Handlers : ~Busy(g)'
    BY <1>2, <2>2, IdleTyped DEF UnderwayBy, Busy
  <2>9. engine = BothAre(current.behavior)
    BY <1>1, <2>2 DEF UnderwayBy
  <2> QED BY <1>1, <2>7, <2>8, <2>9 DEF Settled
<1> QED BY <1>1, <1>4, <1>5, HandlerKeeps DEF ConfigInv

-----------------------------------------------------------------------------
(* The managed configuration: diagnostics and restarts *)

\* Steps of the diagnostics leave the configuration and the handlers alone.
LEMMA DiagnosticKeeps ==
  ASSUME ConfigInv, UNCHANGED <<current, applied, configFile, engine, patch, restarting, overlapped, inherited>>,
         earned \subseteq earned'
  PROVE  ConfigTyped' /\ FileInv' /\ ProductionIsQualified' /\ LiveInv'
<1>1. ConfigTyped'
  BY DEF ConfigInv, ConfigTyped
<1>2. FileInv'
  BY DEF ConfigInv, FileInv, QualificationsAreEarned
<1>3. ProductionIsQualified'
  BY DEF ConfigInv, ProductionIsQualified
<1>4. LiveInv'
  BY DEF ConfigInv, LiveInv, Settled, UnderwayBy, Busy
<1> QED BY <1>1, <1>2, <1>3, <1>4

LEMMA StartEvaluationStep ==
  ASSUME ConfigInv, NEW m \in ModelIds, StartEvaluation(m)
  PROVE  ConfigInv'
<1>0. JobInv /\ current \in Configs
  BY DEF ConfigInv, ConfigTyped
<1>1. /\ current.settings[m] # Unconfigured /\ slot' = "evaluation" /\ earned' = earned
      /\ job' = [status |-> "running", model |-> m, settings |-> current.settings[m], passed |-> FALSE]
      /\ UNCHANGED <<current, applied, configFile, engine, patch, restarting, overlapped, inherited>>
  BY DEF StartEvaluation, Evaluable, Fingerprint
<1>2. current.settings[m] \in Settings
  BY <1>0, <1>1 DEF Configs
<1>3. JobInv'
  <2>1. job' \in JobRecord /\ job'.status = "running" /\ job'.settings \in Settings /\ job'.passed = FALSE
    BY <1>1, <1>2 DEF JobRecord
  <2> QED BY <1>0, <1>1, <2>1 DEF JobInv
<1> QED BY <1>1, <1>3, DiagnosticKeeps DEF ConfigInv

LEMMA EvaluationEndsStep ==
  ASSUME ConfigInv, NEW passed \in BOOLEAN, EvaluationEnds(passed)
  PROVE  ConfigInv'
<1>0. JobInv /\ job \in JobRecord
  BY DEF ConfigInv, JobInv
<1>1. /\ job.status = "running"
      /\ UNCHANGED <<current, applied, configFile, engine, patch, restarting, overlapped, inherited>>
  BY DEF EvaluationEnds
<1>2. job.settings \in Settings /\ job.model \in ModelIds /\ slot = "evaluation"
  BY <1>0, <1>1 DEF JobInv, JobRecord
<1>3. CASE passed
  <2>1. job' = [job EXCEPT !.passed = TRUE] /\ slot' = slot /\ earned' = earned \cup {<<job.model, job.settings>>}
    BY <1>3 DEF EvaluationEnds
  <2>2. job' \in JobRecord /\ job'.status = "running" /\ job'.settings = job.settings /\ job'.model = job.model
    BY <1>0, <1>1, <2>1 DEF JobRecord
  <2>3. JobInv'
    BY <1>0, <1>2, <2>1, <2>2 DEF JobInv
  <2> QED BY <1>1, <2>1, <2>3, DiagnosticKeeps DEF ConfigInv
<1>4. CASE ~passed
  <2>1. /\ slot' = "none" /\ earned' = earned
        /\ job' \in {[job EXCEPT !.status = s] : s \in {"failed", "error", "cancelled"}}
    BY <1>4 DEF EvaluationEnds
  <2>2. PICK s \in {"failed", "error", "cancelled"} : job' = [job EXCEPT !.status = s]
    BY <2>1
  <2>3. job' \in JobRecord /\ job'.status # "running" /\ job'.passed = job.passed /\ job'.settings = job.settings /\ job'.model = job.model
    BY <1>0, <2>2 DEF JobRecord
  <2>4. JobInv'
    BY <1>0, <2>1, <2>3 DEF JobInv
  <2> QED BY <1>1, <2>1, <2>4, DiagnosticKeeps DEF ConfigInv
<1> QED BY <1>3, <1>4

\* The job is over, with what it captured.
LEMMA EndJobStep ==
  ASSUME JobInv, NEW status \in {"passed", "error"}, EndJob(status), earned' = earned
  PROVE  JobInv'
<1>1. job \in JobRecord /\ job' = [job EXCEPT !.status = status] /\ slot' = "none"
  BY DEF JobInv, EndJob
<1>2. job' \in JobRecord /\ job'.status # "running" /\ job'.passed = job.passed /\ job'.settings = job.settings /\ job'.model = job.model
  BY <1>1 DEF JobRecord
<1> QED BY <1>1, <1>2 DEF JobInv

\* RecordModelQualification: the next revision differs in the qualifications,
\* all of them earned and current.
LEMMA QualificationIs ==
  ASSUME ConfigInv, NEW now \in Clock, RecordQualification(now), job'.status = "passed"
  PROVE  \E next \in Configs :
            /\ current' = next /\ configFile' = next /\ TrailOK(next) /\ next.revision = current.revision + 1
            /\ SameSettings(next, current)
            /\ \A q \in next.qualified : q \in earned /\ Current(next, q)
            /\ applied' = IF applied.revision = current.revision THEN next ELSE applied
            /\ \A i \in 1..Len(next.audit) :
                  \/ next.audit[i].sections = {"model_validation"}
                  \/ \E j \in 1..Len(current.audit) : next.audit[i] = current.audit[j]
<1>0. current \in Configs /\ TrailOK(current) /\ now \in Nat /\ JobInv /\ QualificationsAreEarned
  BY ManagedConfigAssumption DEF ConfigInv, ConfigTyped, FileInv
<1>1. PICK m : m = job.model
  OBVIOUS
<1>2. PICK Q : Q = {q \in current.qualified : q[1] # m} \cup {<<m, job.settings>>}
  OBVIOUS
<1>3. PICK c : c = [current EXCEPT !.qualified = Q]
  OBVIOUS
<1>4. PICK asked : asked = Pruned(c)
  OBVIOUS
<1>5. PICK next : next = Stamped(asked, now, {"model_validation"})
  OBVIOUS
<1>6. /\ job.status = "running" /\ job.passed /\ configFile' = next /\ current' = next
      /\ applied' = IF applied.revision = current.revision THEN next ELSE applied
  <2>1. job \in JobRecord
    BY <1>0 DEF JobInv
  <2>2. ~(EndJob("error") /\ UNCHANGED <<current, applied, configFile>>)
    BY <2>1 DEF EndJob, JobRecord
  <2> QED BY <1>1, <1>2, <1>3, <1>4, <1>5, <2>2 DEF RecordQualification, PersistManagedConfig
<1>7. m \in ModelIds /\ job.settings \in Settings /\ <<m, job.settings>> \in earned
  BY <1>0, <1>1, <1>6 DEF JobInv, JobRecord
<1>8. Q \in SUBSET (ModelIds \X Settings) /\ \A q \in Q : q \in earned
  BY <1>0, <1>2, <1>7 DEF Configs, QualificationsAreEarned
<1>9. c \in Configs /\ c.qualified = Q /\ SameSettings(c, current)
  BY <1>0, <1>3, <1>8 DEF Configs, SameSettings
<1>10. asked \in Configs /\ SameSettings(asked, c) /\ \A q \in asked.qualified : q \in Q /\ Current(asked, q)
  BY <1>4, <1>9, PrunedIs
<1>11. /\ next \in Configs /\ TrailOK(next) /\ next.revision = current.revision + 1
       /\ next.settings = asked.settings /\ next.replyer = asked.replyer /\ next.planner = asked.planner
       /\ next.rollout = asked.rollout /\ next.behavior = asked.behavior /\ next.limits = asked.limits
       /\ next.qualified = asked.qualified
       /\ \A i \in 1..Len(next.audit) :
             \/ next.audit[i].sections = {"model_validation"}
             \/ \E j \in 1..Len(current.audit) : next.audit[i] = current.audit[j]
  <2>1. PICK S : S = {"model_validation"}
    OBVIOUS
  <2>2. GoodSections(S) /\ next = Stamped(asked, now, S)
    BY <1>5, <2>1, ValidationSectionsAreGood
  <2>3. /\ next \in Configs /\ TrailOK(next) /\ next.revision = current.revision + 1
        /\ next.settings = asked.settings /\ next.replyer = asked.replyer /\ next.planner = asked.planner
        /\ next.rollout = asked.rollout /\ next.behavior = asked.behavior /\ next.limits = asked.limits
        /\ next.qualified = asked.qualified
        /\ TrailContinues(next, S)
    BY <1>0, <1>10, <2>2, NextRevision
  <2> QED BY <2>1, <2>3 DEF TrailContinues
<1>12. SameSettings(next, current)
  BY <1>9, <1>10, <1>11 DEF SameSettings
<1>13. \A q \in next.qualified : q \in earned /\ Current(next, q)
  BY <1>8, <1>10, <1>11 DEF Current, Fingerprint
<1> QED BY <1>6, <1>11, <1>12, <1>13

LEMMA RecordQualificationStep ==
  ASSUME ConfigInv, NEW now \in Clock, RecordQualification(now)
  PROVE  ConfigInv'
<1>0. ConfigTyped /\ JobInv /\ LiveInv /\ FileInv /\ ProductionIsQualified
  BY DEF ConfigInv
<1>1. UNCHANGED <<engine, patch, restarting, overlapped, earned, inherited>>
  BY DEF RecordQualification
<1>2. JobInv'
  <2>1. EndJob("passed") \/ EndJob("error")
    BY DEF RecordQualification
  <2> QED BY <1>0, <1>1, <2>1, EndJobStep
<1>3. CASE UNCHANGED <<current, applied, configFile>>
  BY <1>1, <1>2, <1>3, DiagnosticKeeps DEF ConfigInv
<1>4. CASE ~UNCHANGED <<current, applied, configFile>>
  <2>1. EndJob("passed")
    BY <1>4 DEF RecordQualification
  <2>2. job'.status = "passed"
    <3>1. job \in JobRecord
      BY <1>0 DEF JobInv
    <3> QED BY <2>1, <3>1 DEF EndJob, JobRecord
  <2>3. PICK next \in Configs :
          /\ current' = next /\ configFile' = next /\ TrailOK(next) /\ next.revision = current.revision + 1
          /\ SameSettings(next, current)
          /\ \A q \in next.qualified : q \in earned /\ Current(next, q)
          /\ applied' = IF applied.revision = current.revision THEN next ELSE applied
          /\ \A i \in 1..Len(next.audit) :
                \/ next.audit[i].sections = {"model_validation"}
                \/ \E j \in 1..Len(current.audit) : next.audit[i] = current.audit[j]
    BY <2>2, QualificationIs
  <2>4. ConfigTyped'
    BY <1>0, <1>1, <2>3 DEF ConfigTyped
  <2>5. FileInv'
    BY <1>1, <2>3 DEF FileInv, QualificationsAreEarned
  <2>6. ProductionIsQualified'
    BY <1>0, <1>1, <2>3 DEF ProductionIsQualified, SameSettings, AIEnabled, Required
  <2>7. LiveInv'
    <3> SUFFICES ASSUME ~overlapped, ~restarting PROVE Settled' \/ \E h \in Handlers : UnderwayBy(h)'
      BY <1>1 DEF LiveInv
    <3>1. CASE Settled
      <4>1. applied' = next /\ next.behavior = current.behavior
        BY <2>3, <3>1 DEF Settled, SameSettings
      <4> QED BY <1>1, <2>3, <3>1, <4>1 DEF Settled, Busy
    <3>2. ASSUME NEW h \in Handlers, UnderwayBy(h) PROVE UnderwayBy(h)'
      <4>1. patch[h].revision \in Nat /\ current.revision \in Nat /\ applied.revision \in Nat
        BY <1>0 DEF ConfigTyped, PatchRecord, Configs
      <4>2. applied.revision < patch[h].revision /\ patch[h].revision <= current.revision
        BY <3>2 DEF UnderwayBy
      <4>3. applied' = applied /\ patch[h].revision <= next.revision
        <5>1. applied.revision # current.revision /\ patch[h].revision <= current.revision + 1
          BY <4>1, <4>2
        <5> QED BY <2>3, <5>1
      <4>4. BehaviorChanged(applied, next) <=> BehaviorChanged(applied, current)
        BY <2>3 DEF BehaviorChanged, SameSettings
      <4>5. RestartConfigChanged(applied, next) <=> RestartConfigChanged(applied, current)
        BY <2>3 DEF RestartConfigChanged, ModelRoutingChanged, SameSettings
      <4>6. ASSUME NEW i \in 1..Len(next.audit), next.audit[i].revision > patch[h].revision
            PROVE  next.audit[i].sections = {"model_validation"}
        BY <2>3, <3>2, <4>6 DEF UnderwayBy
      <4>7. next.behavior = current.behavior
        BY <2>3 DEF SameSettings
      <4>8. Busy(h)' /\ \A g \in Handlers \ {h} : ~Busy(g)'
        BY <1>1, <3>2 DEF UnderwayBy, Busy
      <4> QED BY <1>1, <2>3, <3>2, <4>2, <4>3, <4>4, <4>5, <4>6, <4>7, <4>8 DEF UnderwayBy
    <3> QED BY <1>0, <3>1, <3>2 DEF LiveInv
  <2> QED BY <1>2, <2>4, <2>5, <2>6, <2>7 DEF ConfigInv
<1> QED BY <1>3, <1>4

LEMMA ConfigRestartStep ==
  ASSUME ConfigInv, ConfigRestart
  PROVE  ConfigInv'
<1>0. ConfigTyped /\ FileInv /\ ProductionIsQualified /\ JobInv
  BY DEF ConfigInv
<1>1. Pruned(configFile) = current /\ configFile = current
  BY <1>0, PrunedAlready DEF FileInv, ConfigTyped, QualificationsAreEarned
<1>2. /\ current' = current /\ applied' = current /\ engine' = BothAre(current.behavior)
      /\ patch' = [h \in Handlers |-> IdlePatch] /\ slot' = "none" /\ job' = IdleJob /\ restarting' = FALSE
      /\ overlapped' = FALSE /\ UNCHANGED <<configFile, earned, inherited>>
  BY <1>1 DEF ConfigRestart, BothAre
<1>3. ConfigTyped'
  <2>1. engine' \in [behavior : Behaviors, soft : Behaviors]
    BY <1>0, <1>2 DEF BothAre, Configs, ConfigTyped
  <2>2. patch' \in [Handlers -> PatchRecord]
    BY <1>2, IdleTyped
  <2> QED BY <1>0, <1>2, <2>1, <2>2 DEF ConfigTyped
<1>4. JobInv'
  BY <1>0, <1>2, IdleTyped DEF JobInv
<1>5. FileInv' /\ ProductionIsQualified'
  BY <1>0, <1>2 DEF FileInv, QualificationsAreEarned, ProductionIsQualified
<1>6. Settled'
  BY <1>2, IdleTyped DEF Settled, Busy
<1> QED BY <1>3, <1>4, <1>5, <1>6 DEF ConfigInv, LiveInv

LEMMA ConfigStep == ConfigInv /\ [ConfigNext]_configVars => ConfigInv'
<1> SUFFICES ASSUME ConfigInv, [ConfigNext]_configVars PROVE ConfigInv'
  OBVIOUS
<1>1. ASSUME NEW h \in Handlers, NEW u \in Patches, NEW now \in Clock, UpdateWithResult(h, u, now) PROVE ConfigInv'
  BY <1>1, UpdateStep
<1>2. ASSUME NEW h \in Handlers, ApplyBehavior(h) \/ ApplySoftDefault(h) \/ FinishUpdate(h) PROVE ConfigInv'
  BY <1>2, ApplyBehaviorStep, ApplySoftStep, FinishStep
<1>3. ASSUME NEW m \in ModelIds, StartEvaluation(m) PROVE ConfigInv'
  BY <1>3, StartEvaluationStep
<1>4. ASSUME NEW passed \in BOOLEAN, EvaluationEnds(passed) PROVE ConfigInv'
  BY <1>4, EvaluationEndsStep
<1>5. ASSUME NEW now \in Clock, RecordQualification(now) PROVE ConfigInv'
  BY <1>5, RecordQualificationStep
<1>6. ASSUME NEW kind \in Diagnostics, StartDiagnostic(kind) \/ EndDiagnostic(kind) PROVE ConfigInv'
  <2>1. kind # "evaluation" /\ JobInv
    BY ManagedConfigAssumption DEF ConfigInv
  <2>2. /\ slot' \in {kind, "none"} /\ slot # "evaluation" /\ job' = job /\ earned' = earned
        /\ UNCHANGED <<current, applied, configFile, engine, patch, restarting, overlapped, inherited>>
    BY <1>6, <2>1 DEF StartDiagnostic, EndDiagnostic
  <2>3. JobInv'
    BY <2>1, <2>2 DEF JobInv
  <2> QED BY <2>2, <2>3, DiagnosticKeeps DEF ConfigInv
<1>7. CASE ConfigRestart
  BY <1>7, ConfigRestartStep
<1>8. CASE UNCHANGED configVars
  <2>1. JobInv'
    BY <1>8 DEF configVars, ConfigInv, JobInv
  <2> QED BY <1>8, <2>1, DiagnosticKeeps DEF configVars, ConfigInv
<1> QED BY <1>1, <1>2, <1>3, <1>4, <1>5, <1>6, <1>7, <1>8 DEF ConfigNext

LEMMA InForceFollows == ConfigInv => ConfigIsInForce /\ ModelsAreQualified
<1> SUFFICES ASSUME ConfigInv PROVE ConfigIsInForce /\ ModelsAreQualified
  OBVIOUS
<1>0. ConfigTyped /\ JobInv /\ FileInv /\ ProductionIsQualified /\ LiveInv
  BY DEF ConfigInv
<1>1. ConfigTypeOK
  <2>1. \A h \in Handlers : patch[h].pc \in {"idle", "apply", "soft", "mark"}
    BY <1>0 DEF ConfigTyped, PatchRecord
  <2>2. job.status \in {"idle", "running", "passed", "failed", "error", "cancelled"}
    BY <1>0 DEF JobInv, JobRecord
  <2> QED BY <1>0, <2>1, <2>2 DEF ConfigTypeOK, ConfigTyped, JobInv, FileInv
<1>2. FileReloads
  <2>1. Pruned(configFile) = current
    BY <1>0, PrunedAlready DEF FileInv, ConfigTyped, QualificationsAreEarned
  <2>2. current.revision \in Nat
    BY <1>0 DEF ConfigTyped, Configs
  <2> QED BY <1>0, <2>1, <2>2 DEF FileReloads, FileInv, TrailOK
<1>3. ActiveIsApplied
  BY <1>0 DEF ActiveIsApplied, LiveInv, Settled, UnderwayBy, Busy, BothAre
<1> QED BY <1>0, <1>1, <1>2, <1>3 DEF ConfigIsInForce, ModelsAreQualified, FileInv

\* managed_config.go: after any interleaving of PATCH requests, evaluations and
\* restarts, at any clock, the file on disk is one that a restart accepts and
\* comes back as the configuration in force, and what the status shows as
\* active is what the engine runs unless PATCH requests overlapped.
THEOREM ConfigStaysInForce == ConfigSpec => []ConfigIsInForce
<1> QED BY ConfigInitInv, ConfigStep, InForceFollows, PTL DEF ConfigSpec

\* applyManagedUpdate and RecordModelQualification: a model gets users only on
\* the strength of an evaluation of exactly its present settings, also when it
\* is changed while the evaluation runs.
THEOREM ModelsStayQualified == ConfigSpec => []ModelsAreQualified
<1> QED BY ConfigInitInv, ConfigStep, InForceFollows, PTL DEF ConfigSpec

-----------------------------------------------------------------------------
(* The external tool providers: the inductive invariant *)

StreakRecord == [failed : Nat, at : Nat]
CallRecord == [step : {"idle", "waiting", "connect", "call"}, to : Providers \cup {NoCaller}, expired : BOOLEAN]

ExternalTyped == ExternalTypeOK /\ streak \in [Providers -> StreakRecord]

\* The one child of the provider is its session; the circuit stays open until
\* the time is up, also when the clock moves; and nothing has happened to a
\* provider that is still being started.
ProviderInv(p) ==
    /\ children[p] = (IF provider[p].session = NoSession THEN {} ELSE {provider[p].session})
    /\ provider[p].closed => provider[p].session = NoSession
    /\ provider[p].failures = streak[p].failed
    /\ streak[p].failed >= FailureThreshold /\ streak[p].at > 0 /\ instant < streak[p].at + ResetTimeout
       => provider[p].circuitOpenUntil >= streak[p].at + ResetTimeout
    /\ callMu[p] = Manager => /\ provider[p].session = NoSession /\ provider[p].circuitOpenUntil = 0
                              /\ streak[p].at = 0

\* execute works on the provider while it holds its callMu.
CallerInv(c) ==
    /\ caller[c].step # "idle" => caller[c].to \in Providers
    /\ caller[c].step \in {"connect", "call"} => callMu[caller[c].to] = c

ExternalInv ==
    /\ ExternalTyped
    /\ \A p \in Providers : ProviderInv(p)
    /\ \A c \in Callers : CallerInv(c)

\* What a step may start while the circuit is open.
StartsNothing == \A p \in Providers : CircuitOpen(p) => children'[p] \subseteq children[p]

LEMMA ExternalNumbers ==
  ASSUME ExternalTyped
  PROVE  /\ instant \in Nat /\ instant >= 1 /\ instant <= MaxInstant /\ lastChild \in Nat /\ lastChild <= MaxChildren
         /\ MaxInstant \in Nat /\ MaxChildren \in Nat /\ ResetTimeout \in Nat /\ ResetTimeout > 0
         /\ FailureThreshold \in Nat /\ FailureThreshold > 0
  BY ExternalAssumption DEF ExternalTyped, ExternalTypeOK

LEMMA ExternalTypes ==
  ASSUME ExternalTyped
  PROVE  /\ provider \in [Providers -> ProviderStates] /\ children \in [Providers -> SUBSET (1..MaxChildren)]
         /\ callMu \in [Providers -> Callers \cup {Manager, NoCaller}] /\ caller \in [Callers -> CallRecord]
         /\ streak \in [Providers -> StreakRecord]
  BY DEF ExternalTyped, ExternalTypeOK, CallRecord

\* One provider changes, as a step of start, execute or close does it.
OnlyAt(p) ==
    \A q \in Providers \ {p} :
        provider'[q] = provider[q] /\ children'[q] = children[q] /\ streak'[q] = streak[q] /\ callMu'[q] = callMu[q]

LEMMA OthersKeep ==
  ASSUME \A q \in Providers : ProviderInv(q), NEW p \in Providers, OnlyAt(p), instant' = instant
  PROVE  \A q \in Providers \ {p} : ProviderInv(q)'
  BY DEF ProviderInv, OnlyAt

\* recordFailure
LEMMA FailedIs ==
  ASSUME ExternalTyped, NEW s \in ProviderStates, NEW force \in BOOLEAN
  PROVE  /\ Failed(s, force) \in ProviderStates
         /\ Failed(s, force).session = s.session /\ Failed(s, force).closed = s.closed
         /\ Failed(s, force).failures = s.failures + 1
         /\ s.failures + 1 >= FailureThreshold => Failed(s, force).circuitOpenUntil = instant + ResetTimeout
<1>1. PICK until : until = IF force \/ s.failures + 1 >= FailureThreshold THEN instant + ResetTimeout ELSE s.circuitOpenUntil
  OBVIOUS
<1>2. s.failures \in Nat /\ s.circuitOpenUntil \in 0..(MaxInstant + ResetTimeout)
  BY DEF ProviderStates
<1>3. until \in 0..(MaxInstant + ResetTimeout)
  BY <1>1, <1>2, ExternalNumbers
<1>4. PICK n : n = s.failures + 1
  OBVIOUS
<1>5. n \in Nat
  BY <1>2, <1>4
<1>6. Failed(s, force) = [s EXCEPT !.failures = n, !.circuitOpenUntil = until]
  BY <1>1, <1>4 DEF Failed
<1>7. /\ Failed(s, force) \in ProviderStates
      /\ Failed(s, force).session = s.session /\ Failed(s, force).closed = s.closed
      /\ Failed(s, force).failures = n /\ Failed(s, force).circuitOpenUntil = until
  BY <1>3, <1>5, <1>6 DEF ProviderStates
<1> QED BY <1>1, <1>4, <1>7

\* The end of execute: callMu is free again.
LEMMA ReturnStep ==
  ASSUME ExternalInv, NEW c \in Callers, caller[c].step \in {"connect", "call"}, Return(c)
  PROVE  /\ caller' \in [Callers -> CallRecord] /\ callMu' \in [Providers -> Callers \cup {Manager, NoCaller}]
         /\ \A d \in Callers : CallerInv(d)'
         /\ caller[c].to \in Providers /\ callMu'[caller[c].to] = NoCaller
         /\ \A q \in Providers \ {caller[c].to} : callMu'[q] = callMu[q]
<1>0. caller \in [Callers -> CallRecord] /\ callMu \in [Providers -> Callers \cup {Manager, NoCaller}]
  BY ExternalTypes DEF ExternalInv
<1>1. PICK p : p = caller[c].to
  OBVIOUS
<1>2. p \in Providers /\ callMu[p] = c
  BY <1>1 DEF ExternalInv, CallerInv
<1>3. callMu' = [callMu EXCEPT ![p] = NoCaller] /\ caller' = [caller EXCEPT ![c] = NotCalling]
  BY <1>1 DEF Return
<1>4. NotCalling \in CallRecord /\ NotCalling.step = "idle"
  BY DEF NotCalling, CallRecord
<1>5. /\ caller' \in [Callers -> CallRecord] /\ callMu' \in [Providers -> Callers \cup {Manager, NoCaller}]
      /\ callMu'[p] = NoCaller /\ \A q \in Providers \ {p} : callMu'[q] = callMu[q]
      /\ caller'[c] = NotCalling /\ \A d \in Callers \ {c} : caller'[d] = caller[d]
  BY <1>0, <1>2, <1>3, <1>4
<1>6. ASSUME NEW d \in Callers PROVE CallerInv(d)'
  <2>1. CASE d = c
    BY <1>4, <1>5, <2>1 DEF CallerInv
  <2>2. CASE d # c
    <3>1. CallerInv(d) /\ caller'[d] = caller[d]
      BY <1>5, <2>2 DEF ExternalInv
    <3>2. caller[d].step \in {"connect", "call"} => caller[d].to # p
      BY <1>2, <2>2, <3>1 DEF CallerInv
    <3> QED BY <1>5, <3>1, <3>2 DEF CallerInv
  <2> QED BY <2>1, <2>2
<1> QED BY <1>1, <1>2, <1>5, <1>6

\* A caller goes on, or its time is over.
LEMMA CallerMoves ==
  ASSUME ExternalInv, NEW c \in Callers, NEW r \in CallRecord, r.step = "idle" \/ r.to \in Providers,
         caller' = [caller EXCEPT ![c] = r], callMu' = callMu,
         r.step \in {"connect", "call"} => callMu[r.to] = c
  PROVE  caller' \in [Callers -> CallRecord] /\ \A d \in Callers : CallerInv(d)'
<1>0. caller \in [Callers -> CallRecord]
  BY ExternalTypes DEF ExternalInv
<1>1. caller' \in [Callers -> CallRecord] /\ caller'[c] = r /\ \A d \in Callers \ {c} : caller'[d] = caller[d]
  BY <1>0
<1>2. ASSUME NEW d \in Callers PROVE CallerInv(d)'
  BY <1>1 DEF ExternalInv, CallerInv
<1> QED BY <1>1, <1>2

LEMMA ExternalInitInv == ExternalInit => ExternalInv
<1> SUFFICES ASSUME ExternalInit PROVE ExternalInv
  OBVIOUS
<1>1. PICK s : s = [session |-> NoSession, failures |-> 0, circuitOpenUntil |-> 0,
                    startupFailed |-> FALSE, closed |-> FALSE, toolCount |-> {}]
  OBVIOUS
<1>2. /\ provider = [p \in Providers |-> s] /\ children = [p \in Providers |-> {}] /\ lastChild = 0
      /\ callMu = [p \in Providers |-> IF p \in EnabledProviders THEN Manager ELSE NoCaller]
      /\ caller = [c \in Callers |-> NotCalling] /\ instant = 1
      /\ streak = [p \in Providers |-> [failed |-> 0, at |-> 0]]
  BY <1>1 DEF ExternalInit
<1>3. s \in ProviderStates
  BY <1>1, ExternalAssumption DEF ProviderStates, NoSession
<1>4. NotCalling \in CallRecord /\ NotCalling.step = "idle"
  BY DEF NotCalling, CallRecord
<1>5. ExternalTyped
  <2>1. provider \in [Providers -> ProviderStates]
    BY <1>2, <1>3
  <2>2. caller \in [Callers -> CallRecord]
    BY <1>2, <1>4
  <2>3. children \in [Providers -> SUBSET (1..MaxChildren)]
    BY <1>2
  <2>4. callMu \in [Providers -> Callers \cup {Manager, NoCaller}]
    BY <1>2
  <2>5. streak \in [Providers -> StreakRecord]
    BY <1>2 DEF StreakRecord
  <2>6. lastChild \in 0..MaxChildren /\ instant \in 1..MaxInstant
    BY <1>2, ExternalAssumption
  <2> QED BY <2>1, <2>2, <2>3, <2>4, <2>5, <2>6 DEF ExternalTyped, ExternalTypeOK, CallRecord
<1>6. ASSUME NEW p \in Providers PROVE ProviderInv(p)
  BY <1>1, <1>2, ExternalAssumption DEF ProviderInv, NoSession
<1>7. ASSUME NEW c \in Callers PROVE CallerInv(c)
  BY <1>2, <1>4 DEF CallerInv
<1> QED BY <1>5, <1>6, <1>7 DEF ExternalInv

-----------------------------------------------------------------------------
(* The external tool providers: steps *)

\* A new child is the only one, and one more than there were.
LEMMA SpawnIs ==
  ASSUME ExternalInv, NEW p \in Providers, Spawn(p), provider[p].session = NoSession
  PROVE  /\ lastChild' = lastChild + 1 /\ lastChild' \in 1..MaxChildren
         /\ children' \in [Providers -> SUBSET (1..MaxChildren)]
         /\ children'[p] = {lastChild + 1} /\ \A q \in Providers \ {p} : children'[q] = children[q]
<1>0. children \in [Providers -> SUBSET (1..MaxChildren)] /\ children[p] = {} /\ ExternalTyped
  BY ExternalTypes DEF ExternalInv, ProviderInv
<1>1. PICK n : n = lastChild + 1
  OBVIOUS
<1>2. lastChild' = n /\ n \in 1..MaxChildren
  BY <1>0, <1>1, ExternalNumbers DEF Spawn
<1>3. children' = [children EXCEPT ![p] = children[p] \cup {n}]
  BY <1>2 DEF Spawn
<1>4. children[p] \cup {n} = {n} /\ {n} \in SUBSET (1..MaxChildren)
  BY <1>0, <1>2
<1> QED BY <1>0, <1>1, <1>2, <1>3, <1>4

LEMMA StartStep ==
  ASSUME ExternalInv, NEW p \in Providers, Start(p)
  PROVE  ExternalInv' /\ StartsNothing
<1>0. /\ ExternalTyped /\ callMu[p] = Manager /\ ProviderInv(p) /\ UNCHANGED <<caller, instant>>
      /\ callMu' = [callMu EXCEPT ![p] = NoCaller] /\ provider[p].closed = FALSE
      /\ \A q \in Providers : ProviderInv(q)
  <2>1. ExternalTyped /\ \A q \in Providers : ProviderInv(q)
    BY DEF ExternalInv
  <2>2. provider[p].closed \in BOOLEAN
    BY <2>1, ExternalTypes DEF ProviderStates
  <2> QED BY <2>1, <2>2 DEF Start
<1>t. /\ provider \in [Providers -> ProviderStates] /\ children \in [Providers -> SUBSET (1..MaxChildren)]
      /\ callMu \in [Providers -> Callers \cup {Manager, NoCaller}] /\ caller \in [Callers -> CallRecord]
      /\ streak \in [Providers -> StreakRecord]
  BY <1>0, ExternalTypes
<1>1. provider[p].session = NoSession /\ provider[p].circuitOpenUntil = 0 /\ streak[p].at = 0
  BY <1>0 DEF ProviderInv
<1>2. /\ callMu' \in [Providers -> Callers \cup {Manager, NoCaller}] /\ callMu'[p] = NoCaller
      /\ \A q \in Providers \ {p} : callMu'[q] = callMu[q]
  BY <1>0, <1>t
<1>3. \A c \in Callers : CallerInv(c)'
  <2> SUFFICES ASSUME NEW c \in Callers PROVE CallerInv(c)'
    OBVIOUS
  <2>1. CallerInv(c) /\ Manager # c
    BY ExternalAssumption DEF ExternalInv
  <2>2. caller[c].step \in {"connect", "call"} => caller[c].to # p /\ caller[c].to \in Providers
    BY <1>0, <2>1 DEF CallerInv
  <2> QED BY <1>0, <1>2, <2>1, <2>2 DEF CallerInv
<1>4. ~CircuitOpen(p)
  BY <1>0, <1>1, ExternalNumbers DEF CircuitOpen
<1>5. NoCaller # Manager
  BY DEF NoCaller, Manager
<1>6. CASE /\ Spawn(p) /\ UNCHANGED streak
           /\ \E offered \in SUBSET RemoteTools :
                provider' = [provider EXCEPT ![p].session = lastChild', ![p].toolCount = offered \cap AllowedTools \cap ReadOnlyTools]
  <2>1. PICK tools : /\ tools \in SUBSET RemoteTools
                     /\ provider' = [provider EXCEPT ![p].session = lastChild', ![p].toolCount = tools]
    BY <1>6
  <2>2. /\ lastChild' = lastChild + 1 /\ lastChild' \in 1..MaxChildren
        /\ children' \in [Providers -> SUBSET (1..MaxChildren)]
        /\ children'[p] = {lastChild'} /\ \A q \in Providers \ {p} : children'[q] = children[q]
    BY <1>1, <1>6, SpawnIs
  <2>3. PICK s : s = [provider[p] EXCEPT !.session = lastChild', !.toolCount = tools]
    OBVIOUS
  <2>4. lastChild' \in 0..MaxChildren
    BY <1>0, <2>2, ExternalNumbers
  <2>5. /\ s \in ProviderStates /\ s.session = lastChild' /\ s.closed = provider[p].closed
        /\ s.failures = provider[p].failures /\ s.circuitOpenUntil = provider[p].circuitOpenUntil
    <3>1. provider[p] \in ProviderStates
      BY <1>t
    <3> QED BY <2>1, <2>3, <2>4, <3>1 DEF ProviderStates
  <2>6. provider' = [provider EXCEPT ![p] = s]
    BY <1>t, <2>1, <2>3
  <2>7. provider' \in [Providers -> ProviderStates] /\ provider'[p] = s /\ \A q \in Providers \ {p} : provider'[q] = provider[q]
    BY <1>t, <2>5, <2>6
  <2>8. ExternalTyped'
    BY <1>0, <1>t, <1>2, <1>6, <2>2, <2>4, <2>7 DEF ExternalTyped, ExternalTypeOK, CallRecord
  <2>9. ProviderInv(p)'
    <3>1. lastChild' # NoSession
      BY <1>0, <2>2, ExternalNumbers DEF NoSession
    <3>2. streak' = streak
      BY <1>6
    <3> QED BY <1>0, <1>1, <1>2, <1>5, <2>2, <2>5, <2>7, <3>1, <3>2 DEF ProviderInv
  <2>10. \A q \in Providers \ {p} : ProviderInv(q)'
    <3>1. OnlyAt(p)
      BY <1>2, <1>6, <2>2, <2>7 DEF OnlyAt
    <3> QED BY <1>0, <3>1, OthersKeep
  <2>11. StartsNothing
    BY <1>4, <2>2 DEF StartsNothing
  <2> QED BY <1>3, <2>8, <2>9, <2>10, <2>11 DEF ExternalInv
<1>7. CASE /\ provider' = [provider EXCEPT ![p].startupFailed = TRUE, ![p].failures = @ + 1]
           /\ UNCHANGED <<children, lastChild>> /\ streak' = [streak EXCEPT ![p].failed = @ + 1]
  <2>1. PICK s : s = [provider[p] EXCEPT !.startupFailed = TRUE, !.failures = provider[p].failures + 1]
    OBVIOUS
  <2>2. /\ s \in ProviderStates /\ s.session = provider[p].session /\ s.closed = provider[p].closed
        /\ s.failures = provider[p].failures + 1 /\ s.circuitOpenUntil = provider[p].circuitOpenUntil
    <3>1. provider[p] \in ProviderStates /\ provider[p].failures + 1 \in Nat
      BY <1>t DEF ProviderStates
    <3> QED BY <2>1, <3>1 DEF ProviderStates
  <2>3. provider' = [provider EXCEPT ![p] = s]
    BY <1>t, <1>7, <2>1
  <2>4. provider' \in [Providers -> ProviderStates] /\ provider'[p] = s /\ \A q \in Providers \ {p} : provider'[q] = provider[q]
    BY <1>t, <2>2, <2>3
  <2>5. PICK k : k = [streak[p] EXCEPT !.failed = streak[p].failed + 1]
    OBVIOUS
  <2>6. k \in StreakRecord /\ k.failed = streak[p].failed + 1 /\ k.at = streak[p].at
    <3>1. streak[p] \in StreakRecord /\ streak[p].failed + 1 \in Nat
      BY <1>t DEF StreakRecord
    <3> QED BY <2>5, <3>1 DEF StreakRecord
  <2>7. streak' \in [Providers -> StreakRecord] /\ streak'[p] = k /\ \A q \in Providers \ {p} : streak'[q] = streak[q]
    BY <1>t, <1>7, <2>5, <2>6
  <2>8. ExternalTyped'
    BY <1>0, <1>t, <1>2, <1>7, <2>4, <2>7 DEF ExternalTyped, ExternalTypeOK, CallRecord
  <2>9. ProviderInv(p)'
    <3>1. children'[p] = children[p] /\ instant' = instant /\ callMu'[p] # Manager
      BY <1>0, <1>2, <1>5, <1>7
    <3>2. provider'[p].failures = streak'[p].failed
      BY <1>0, <2>2, <2>4, <2>6, <2>7 DEF ProviderInv
    <3>3. streak'[p].at = 0 /\ provider'[p].session = provider[p].session /\ provider'[p].closed = provider[p].closed
      BY <1>1, <2>2, <2>4, <2>6, <2>7
    <3>4. ~(streak'[p].at > 0)
      BY <3>3
    <3> QED BY <1>0, <3>1, <3>2, <3>3, <3>4 DEF ProviderInv
  <2>10. \A q \in Providers \ {p} : ProviderInv(q)'
    <3>1. OnlyAt(p)
      BY <1>2, <1>7, <2>4, <2>7 DEF OnlyAt
    <3> QED BY <1>0, <3>1, OthersKeep
  <2>11. StartsNothing
    BY <1>7 DEF StartsNothing
  <2> QED BY <1>3, <2>8, <2>9, <2>10, <2>11 DEF ExternalInv
<1> QED BY <1>6, <1>7 DEF Start

\* The state, the streak and the children of a provider that fit together.
FitTogether(s, k, kids) ==
    /\ s \in ProviderStates /\ k \in StreakRecord
    /\ kids = (IF s.session = NoSession THEN {} ELSE {s.session}) /\ (s.closed => s.session = NoSession)
    /\ s.failures = k.failed
    /\ k.failed >= FailureThreshold /\ k.at > 0 /\ instant < k.at + ResetTimeout
       => s.circuitOpenUntil >= k.at + ResetTimeout

\* execute leaves its provider so, and frees callMu.
LeavesIt(p, s, k, kids) ==
    /\ provider' = [provider EXCEPT ![p] = s] /\ streak' = [streak EXCEPT ![p] = k]
    /\ children' = [children EXCEPT ![p] = kids] /\ kids \subseteq children[p]
    /\ UNCHANGED <<lastChild, instant>>

LEMMA ReturnsWith ==
  ASSUME ExternalInv, NEW c \in Callers, caller[c].step \in {"connect", "call"}, Return(c),
         NEW s, NEW k, NEW kids, FitTogether(s, k, kids), LeavesIt(caller[c].to, s, k, kids)
  PROVE  ExternalInv' /\ StartsNothing
<1>p. PICK p : p = caller[c].to
  OBVIOUS
<1>l. /\ provider' = [provider EXCEPT ![p] = s] /\ streak' = [streak EXCEPT ![p] = k]
      /\ children' = [children EXCEPT ![p] = kids] /\ kids \subseteq children[p]
      /\ UNCHANGED <<lastChild, instant>>
  BY <1>p DEF LeavesIt
<1>f. s \in ProviderStates /\ k \in StreakRecord
  BY DEF FitTogether
<1>0. /\ ExternalTyped /\ \A q \in Providers : ProviderInv(q)
      /\ provider \in [Providers -> ProviderStates] /\ children \in [Providers -> SUBSET (1..MaxChildren)]
      /\ streak \in [Providers -> StreakRecord]
  BY ExternalTypes DEF ExternalInv
<1>1. /\ caller' \in [Callers -> CallRecord] /\ callMu' \in [Providers -> Callers \cup {Manager, NoCaller}]
      /\ \A d \in Callers : CallerInv(d)'
      /\ p \in Providers /\ callMu'[p] = NoCaller
      /\ \A q \in Providers \ {p} : callMu'[q] = callMu[q]
  BY <1>p, ReturnStep
<1>2. /\ provider' \in [Providers -> ProviderStates] /\ provider'[p] = s
      /\ \A q \in Providers \ {p} : provider'[q] = provider[q]
  BY <1>0, <1>1, <1>l, <1>f
<1>3. /\ streak' \in [Providers -> StreakRecord] /\ streak'[p] = k
      /\ \A q \in Providers \ {p} : streak'[q] = streak[q]
  BY <1>0, <1>1, <1>l, <1>f
<1>4. /\ children' \in [Providers -> SUBSET (1..MaxChildren)] /\ children'[p] = kids
      /\ \A q \in Providers \ {p} : children'[q] = children[q]
  <2>1. kids \in SUBSET (1..MaxChildren)
    BY <1>0, <1>1, <1>l
  <2> QED BY <1>0, <1>1, <1>l, <2>1
<1>5. ExternalTyped'
  BY <1>0, <1>1, <1>2, <1>3, <1>4, <1>l DEF ExternalTyped, ExternalTypeOK, CallRecord
<1>6. ProviderInv(p)'
  <2>1. callMu'[p] # Manager
    BY <1>1 DEF NoCaller, Manager
  <2> QED BY <1>2, <1>3, <1>4, <1>l, <2>1 DEF ProviderInv, FitTogether
<1>7. \A q \in Providers \ {p} : ProviderInv(q)'
  <2>1. OnlyAt(p)
    BY <1>1, <1>2, <1>3, <1>4 DEF OnlyAt
  <2> QED BY <1>0, <1>1, <1>l, <2>1, OthersKeep
<1>8. StartsNothing
  BY <1>4, <1>l DEF StartsNothing
<1> QED BY <1>1, <1>5, <1>6, <1>7, <1>8 DEF ExternalInv

\* A failure of the call, counted: the circuit opens when it was one too many.
FailsWith(p, s, force, kids) ==
    /\ s \in ProviderStates /\ force \in BOOLEAN /\ provider' = [provider EXCEPT ![p] = Failed(s, force)]
    /\ s.failures = provider[p].failures /\ (s.closed => s.session = NoSession)
    /\ children' = [children EXCEPT ![p] = kids] /\ kids \subseteq children[p]
    /\ kids = (IF s.session = NoSession THEN {} ELSE {s.session})
    /\ CountFailure(p) /\ UNCHANGED <<lastChild, instant>>

LEMMA FailureStep ==
  ASSUME ExternalInv, NEW c \in Callers, caller[c].step \in {"connect", "call"}, Return(c),
         NEW s, NEW force, NEW kids, FailsWith(caller[c].to, s, force, kids)
  PROVE  ExternalInv' /\ StartsNothing
<1>p. PICK p : p = caller[c].to
  OBVIOUS
<1>f. /\ s \in ProviderStates /\ force \in BOOLEAN /\ provider' = [provider EXCEPT ![p] = Failed(s, force)]
      /\ s.failures = provider[p].failures /\ (s.closed => s.session = NoSession)
      /\ children' = [children EXCEPT ![p] = kids] /\ kids \subseteq children[p]
      /\ kids = (IF s.session = NoSession THEN {} ELSE {s.session})
      /\ CountFailure(p) /\ UNCHANGED <<lastChild, instant>>
  BY <1>p DEF FailsWith
<1>0. ExternalTyped /\ p \in Providers /\ streak \in [Providers -> StreakRecord] /\ ProviderInv(p)
  BY <1>p, ExternalTypes DEF ExternalInv, CallerInv
<1>1. PICK f : f = Failed(s, force)
  OBVIOUS
<1>2. /\ f \in ProviderStates /\ f.session = s.session /\ f.closed = s.closed /\ f.failures = s.failures + 1
      /\ s.failures + 1 >= FailureThreshold => f.circuitOpenUntil = instant + ResetTimeout
  BY <1>0, <1>1, <1>f, FailedIs
<1>3. PICK k : k = [failed |-> streak[p].failed + 1, at |-> instant]
  OBVIOUS
<1>4. k \in StreakRecord /\ k.failed = streak[p].failed + 1 /\ k.at = instant
  <2>1. streak[p].failed + 1 \in Nat /\ instant \in Nat
    BY <1>0, ExternalNumbers DEF StreakRecord
  <2> QED BY <1>3, <2>1 DEF StreakRecord
<1>5. streak' = [streak EXCEPT ![p] = k]
  BY <1>0, <1>3, <1>f DEF CountFailure
<1>6. f.failures = k.failed
  BY <1>0, <1>2, <1>4, <1>f DEF ProviderInv
<1>7. k.failed >= FailureThreshold => f.circuitOpenUntil >= k.at + ResetTimeout
  <2>1. instant + ResetTimeout >= instant + ResetTimeout
    BY <1>0, ExternalNumbers
  <2> QED BY <1>2, <1>4, <1>6, <2>1
<1>8. provider' = [provider EXCEPT ![p] = f]
  BY <1>1, <1>f
<1>9. FitTogether(f, k, kids)
  BY <1>2, <1>4, <1>6, <1>7, <1>f DEF FitTogether
<1>10. LeavesIt(caller[c].to, f, k, kids)
  BY <1>5, <1>8, <1>f, <1>p DEF LeavesIt
<1> QED BY <1>9, <1>10, ReturnsWith

\* A provider and its child, of which the caller holds callMu.
LEMMA AtWork ==
  ASSUME ExternalInv, NEW c \in Callers, caller[c].step \in {"connect", "call"}, NEW p, p = caller[c].to
  PROVE  /\ p \in Providers /\ callMu[p] = c /\ callMu[p] # Manager /\ ProviderInv(p) /\ ExternalTyped
         /\ provider[p] \in ProviderStates /\ streak[p] \in StreakRecord
         /\ provider = [provider EXCEPT ![p] = provider[p]]
         /\ children = [children EXCEPT ![p] = children[p]]
         /\ streak = [streak EXCEPT ![p] = streak[p]]
<1>1. p \in Providers /\ callMu[p] = c /\ ProviderInv(p) /\ ExternalTyped
  BY DEF ExternalInv, CallerInv
<1>2. c # Manager
  BY ExternalAssumption
<1>3. /\ provider \in [Providers -> ProviderStates] /\ children \in [Providers -> SUBSET (1..MaxChildren)]
      /\ streak \in [Providers -> StreakRecord]
  BY <1>1, ExternalTypes
<1> QED BY <1>1, <1>2, <1>3

LEMMA CallStep ==
  ASSUME ExternalInv, NEW c \in Callers, NEW r \in CallRecord, r.step = "idle" \/ r.to \in Providers,
         caller' = [caller EXCEPT ![c] = r], r.step \in {"connect", "call"} => callMu[r.to] = c,
         UNCHANGED <<provider, children, lastChild, callMu, instant, streak>>
  PROVE  ExternalInv' /\ StartsNothing
<1>1. caller' \in [Callers -> CallRecord] /\ \A d \in Callers : CallerInv(d)'
  BY CallerMoves
<1>2. ExternalTyped'
  BY <1>1 DEF ExternalInv, ExternalTyped, ExternalTypeOK, CallRecord
<1>3. \A p \in Providers : ProviderInv(p)'
  BY DEF ExternalInv, ProviderInv
<1>4. StartsNothing
  BY DEF StartsNothing
<1> QED BY <1>1, <1>2, <1>3, <1>4 DEF ExternalInv

LEMMA CallerSteps ==
  ASSUME ExternalInv, NEW c \in Callers, (\E p \in Providers : Call(c, p)) \/ Expire(c)
  PROVE  ExternalInv' /\ StartsNothing
<1>0. caller \in [Callers -> CallRecord] /\ CallerInv(c)
  BY ExternalTypes DEF ExternalInv
<1>1. ASSUME NEW p \in Providers, Call(c, p) PROVE ExternalInv' /\ StartsNothing
  <2>1. PICK r : r = [step |-> "waiting", to |-> p, expired |-> FALSE]
    OBVIOUS
  <2>2. r \in CallRecord /\ r.step = "waiting" /\ r.to = p
    BY <2>1 DEF CallRecord
  <2>3. caller' = [caller EXCEPT ![c] = r] /\ UNCHANGED <<provider, children, lastChild, callMu, instant, streak>>
    BY <1>1, <2>1 DEF Call
  <2> QED BY <2>2, <2>3, CallStep
<1>2. CASE Expire(c)
  <2>1. PICK r : r = [caller[c] EXCEPT !.expired = TRUE]
    OBVIOUS
  <2>2. r \in CallRecord /\ r.step = caller[c].step /\ r.to = caller[c].to
    <3>1. caller[c] \in CallRecord
      BY <1>0
    <3> QED BY <2>1, <3>1 DEF CallRecord
  <2>3. caller' = [caller EXCEPT ![c] = r] /\ UNCHANGED <<provider, children, lastChild, callMu, instant, streak>>
    BY <1>0, <1>2, <2>1 DEF Expire
  <2> QED BY <1>0, <2>2, <2>3, CallStep DEF CallerInv
<1> QED BY <1>1, <1>2

LEMMA LockStep ==
  ASSUME ExternalInv, NEW c \in Callers, Lock(c)
  PROVE  ExternalInv' /\ StartsNothing
<1>0. /\ caller \in [Callers -> CallRecord] /\ CallerInv(c) /\ callMu \in [Providers -> Callers \cup {Manager, NoCaller}]
  BY ExternalTypes DEF ExternalInv
<1>1. PICK p : p = caller[c].to
  OBVIOUS
<1>2. /\ caller[c].step = "waiting" /\ callMu[p] = NoCaller /\ callMu' = [callMu EXCEPT ![p] = c]
      /\ caller' = [caller EXCEPT ![c].step = "connect"] /\ UNCHANGED <<provider, children, lastChild, instant, streak>>
  BY <1>1 DEF Lock
<1>3. p \in Providers
  BY <1>0, <1>1, <1>2 DEF CallerInv
<1>4. PICK r : r = [caller[c] EXCEPT !.step = "connect"]
  OBVIOUS
<1>5. r \in CallRecord /\ r.step = "connect" /\ r.to = p
  <2>1. caller[c] \in CallRecord
    BY <1>0
  <2> QED BY <1>1, <1>4, <2>1 DEF CallRecord
<1>6. /\ caller' \in [Callers -> CallRecord] /\ caller'[c] = r /\ \A d \in Callers \ {c} : caller'[d] = caller[d]
      /\ callMu' \in [Providers -> Callers \cup {Manager, NoCaller}] /\ callMu'[p] = c
      /\ \A q \in Providers \ {p} : callMu'[q] = callMu[q]
  BY <1>0, <1>2, <1>3, <1>4, <1>5
<1>7. ExternalTyped'
  BY <1>2, <1>6 DEF ExternalInv, ExternalTyped, ExternalTypeOK, CallRecord
<1>8. ASSUME NEW q \in Providers PROVE ProviderInv(q)'
  <2>1. callMu'[q] = Manager => callMu[q] = Manager
    BY <1>6, ExternalAssumption
  <2> QED BY <1>2, <2>1 DEF ExternalInv, ProviderInv
<1>9. ASSUME NEW d \in Callers PROVE CallerInv(d)'
  <2>1. CASE d = c
    BY <1>3, <1>5, <1>6, <2>1 DEF CallerInv
  <2>2. CASE d # c
    <3>1. CallerInv(d) /\ caller'[d] = caller[d] /\ NoCaller # d
      BY <1>6, <2>2, ExternalAssumption DEF ExternalInv
    <3>2. caller[d].step \in {"connect", "call"} => caller[d].to # p /\ caller[d].to \in Providers
      BY <1>2, <3>1 DEF CallerInv
    <3> QED BY <1>6, <3>1, <3>2 DEF CallerInv
  <2> QED BY <2>1, <2>2
<1>10. StartsNothing
  BY <1>2 DEF StartsNothing
<1> QED BY <1>7, <1>8, <1>9, <1>10 DEF ExternalInv

LEMMA ConnectStep ==
  ASSUME ExternalInv, NEW c \in Callers, Connect(c)
  PROVE  ExternalInv' /\ StartsNothing
<1>0. caller \in [Callers -> CallRecord] /\ CallerInv(c) /\ provider \in [Providers -> ProviderStates]
  BY ExternalTypes DEF ExternalInv
<1>1. PICK p : p = caller[c].to
  OBVIOUS
<1>2. caller[c].step = "connect" /\ instant' = instant
  BY DEF Connect
<1>3. /\ p \in Providers /\ callMu[p] = c /\ callMu[p] # Manager /\ ProviderInv(p) /\ ExternalTyped
      /\ provider[p] \in ProviderStates /\ children = [children EXCEPT ![p] = children[p]]
  BY <1>1, <1>2, AtWork
<1>4. PICK r : r = [caller[c] EXCEPT !.step = "call"]
  OBVIOUS
<1>5. r \in CallRecord /\ r.step = "call" /\ r.to = p
  <2>1. caller[c] \in CallRecord
    BY <1>0
  <2> QED BY <1>1, <1>4, <2>1 DEF CallRecord
<1>6. CASE caller' = [caller EXCEPT ![c].step = "call"] /\ UNCHANGED <<provider, children, lastChild, callMu, streak>>
  <2>1. caller' = [caller EXCEPT ![c] = r]
    BY <1>0, <1>4, <1>6
  <2> QED BY <1>2, <1>3, <1>5, <1>6, <2>1, CallStep
<1>7. CASE /\ provider[p].session = NoSession /\ ~provider[p].closed /\ MaySpawn(c, p) /\ Spawn(p)
           /\ provider' = [provider EXCEPT ![p].session = lastChild', ![p].circuitOpenUntil = 0]
           /\ caller' = [caller EXCEPT ![c].step = "call"] /\ UNCHANGED <<callMu, streak>>
  <2>1. caller' = [caller EXCEPT ![c] = r]
    BY <1>0, <1>4, <1>7
  <2>2. caller' \in [Callers -> CallRecord] /\ \A d \in Callers : CallerInv(d)'
    BY <1>3, <1>5, <1>7, <2>1, CallerMoves
  <2>3. /\ lastChild' = lastChild + 1 /\ lastChild' \in 1..MaxChildren
        /\ children' \in [Providers -> SUBSET (1..MaxChildren)]
        /\ children'[p] = {lastChild'} /\ \A q \in Providers \ {p} : children'[q] = children[q]
    BY <1>3, <1>7, SpawnIs
  <2>4. lastChild' \in 0..MaxChildren /\ lastChild' # NoSession /\ 0 \in 0..(MaxInstant + ResetTimeout)
    BY <1>3, <2>3, ExternalNumbers DEF NoSession
  <2>5. PICK s : s = [provider[p] EXCEPT !.session = lastChild', !.circuitOpenUntil = 0]
    OBVIOUS
  <2>6. /\ s \in ProviderStates /\ s.session = lastChild' /\ s.closed = provider[p].closed
        /\ s.failures = provider[p].failures
    BY <1>3, <2>4, <2>5 DEF ProviderStates
  <2>7. provider' = [provider EXCEPT ![p] = s]
    BY <1>0, <1>7, <2>5
  <2>8. provider' \in [Providers -> ProviderStates] /\ provider'[p] = s /\ \A q \in Providers \ {p} : provider'[q] = provider[q]
    BY <1>0, <1>3, <2>6, <2>7
  <2>9. ~CircuitOpen(p) /\ UNCHANGED <<callMu, streak>> /\ ~provider[p].closed
    BY <1>7 DEF MaySpawn
  <2>10. ExternalTyped'
    BY <1>2, <1>3, <2>2, <2>3, <2>4, <2>8, <2>9 DEF ExternalTyped, ExternalTypeOK, CallRecord
  <2>11. ProviderInv(p)'
    <3>1. streak[p].at \in Nat /\ provider[p].circuitOpenUntil \in Nat
      BY <1>3, ExternalTypes, ExternalNumbers DEF StreakRecord, ProviderStates
    <3>2. ~(streak[p].failed >= FailureThreshold /\ streak[p].at > 0 /\ instant < streak[p].at + ResetTimeout)
      <4>1. ~(instant < provider[p].circuitOpenUntil)
        BY <2>9 DEF CircuitOpen
      <4>2. ~(provider[p].circuitOpenUntil >= streak[p].at + ResetTimeout /\ instant < streak[p].at + ResetTimeout)
        BY <1>3, <3>1, <4>1, ExternalNumbers
      <4> QED BY <1>3, <4>2 DEF ProviderInv
    <3>3. provider'[p].failures = streak'[p].failed
      BY <1>3, <2>6, <2>8, <2>9 DEF ProviderInv
    <3>4. children'[p] = (IF provider'[p].session = NoSession THEN {} ELSE {provider'[p].session}) /\ ~provider'[p].closed
      BY <2>3, <2>4, <2>6, <2>8, <2>9
    <3> QED BY <1>2, <1>3, <2>9, <3>2, <3>3, <3>4 DEF ProviderInv
  <2>12. \A q \in Providers \ {p} : ProviderInv(q)'
    <3>1. OnlyAt(p)
      BY <2>3, <2>8, <2>9 DEF OnlyAt
    <3>2. \A q \in Providers : ProviderInv(q)
      BY DEF ExternalInv
    <3> QED BY <1>2, <1>3, <3>1, <3>2, OthersKeep
  <2>13. StartsNothing
    BY <2>3, <2>9 DEF StartsNothing
  <2> QED BY <2>2, <2>10, <2>11, <2>12, <2>13 DEF ExternalInv
<1>8. CASE /\ provider[p].closed \/ provider[p].session = NoSession
           /\ provider' = [provider EXCEPT ![p] = Failed(IF provider[p].closed \/ CircuitOpen(p) THEN @ ELSE [@ EXCEPT !.circuitOpenUntil = 0], FALSE)]
           /\ Return(c) /\ CountFailure(p) /\ UNCHANGED <<children, lastChild>>
  <2>1. PICK s : s = IF provider[p].closed \/ CircuitOpen(p) THEN provider[p] ELSE [provider[p] EXCEPT !.circuitOpenUntil = 0]
    OBVIOUS
  <2>2. 0 \in 0..(MaxInstant + ResetTimeout)
    BY <1>3, ExternalNumbers
  <2>3. /\ s \in ProviderStates /\ s.failures = provider[p].failures /\ s.session = provider[p].session
        /\ s.closed = provider[p].closed
    BY <1>3, <2>1, <2>2 DEF ProviderStates
  <2>4. provider' = [provider EXCEPT ![p] = Failed(s, FALSE)]
    BY <1>0, <1>3, <1>8, <2>1
  <2>5. FailsWith(p, s, FALSE, children[p])
    BY <1>2, <1>3, <1>8, <2>3, <2>4 DEF FailsWith, ProviderInv
  <2> QED BY <1>1, <1>2, <1>8, <2>5, FailureStep
<1> QED BY <1>1, <1>6, <1>7, <1>8 DEF Connect

\* The three ways a call fails or says nothing, and the one it succeeds.
LEMMA ResultStep ==
  ASSUME ExternalInv, NEW c \in Callers,
         CallFails(c) \/ ArgumentsRejected(c) \/ ResultRejected(c) \/ CallSucceeds(c)
  PROVE  ExternalInv' /\ StartsNothing
<1>0. provider \in [Providers -> ProviderStates] /\ streak \in [Providers -> StreakRecord]
  BY ExternalTypes DEF ExternalInv
<1>1. PICK p : p = caller[c].to
  OBVIOUS
<1>2. caller[c].step = "call" /\ Return(c) /\ UNCHANGED <<lastChild, instant>>
  BY DEF CallFails, ArgumentsRejected, ResultRejected, CallSucceeds
<1>3. /\ p \in Providers /\ ProviderInv(p) /\ ExternalTyped
      /\ provider[p] \in ProviderStates /\ streak[p] \in StreakRecord
      /\ provider = [provider EXCEPT ![p] = provider[p]]
      /\ children = [children EXCEPT ![p] = children[p]]
      /\ streak = [streak EXCEPT ![p] = streak[p]]
  BY <1>1, <1>2, AtWork
<1>4. CASE CallFails(c)
  <2>1. PICK s : s = [provider[p] EXCEPT !.session = NoSession]
    OBVIOUS
  <2>2. s \in ProviderStates /\ s.failures = provider[p].failures /\ s.session = NoSession
    <3>1. NoSession \in 0..MaxChildren
      BY <1>3, ExternalNumbers DEF NoSession
    <3> QED BY <1>3, <2>1, <3>1 DEF ProviderStates
  <2>3. provider' = [provider EXCEPT ![p] = Failed(s, TRUE)] /\ CountFailure(p)
    BY <1>0, <1>1, <1>3, <1>4, <2>1 DEF CallFails
  <2>4. children' = [children EXCEPT ![p] = DroppedChildren(p)] /\ DroppedChildren(p) = {}
    BY <1>1, <1>3, <1>4 DEF CallFails, DroppedChildren, ProviderInv
  <2>5. FailsWith(p, s, TRUE, {})
    BY <1>2, <2>2, <2>3, <2>4 DEF FailsWith
  <2> QED BY <1>1, <1>2, <2>5, FailureStep
<1>5. CASE ResultRejected(c)
  <2>1. provider' = [provider EXCEPT ![p] = Failed(provider[p], FALSE)] /\ CountFailure(p) /\ children' = children
    BY <1>0, <1>1, <1>3, <1>5 DEF ResultRejected
  <2>2. FailsWith(p, provider[p], FALSE, children[p])
    BY <1>2, <1>3, <2>1 DEF FailsWith, ProviderInv
  <2> QED BY <1>1, <1>2, <2>2, FailureStep
<1>6. CASE ArgumentsRejected(c)
  <2>1. provider' = provider /\ children' = children /\ streak' = streak
    BY <1>6 DEF ArgumentsRejected
  <2>2. FitTogether(provider[p], streak[p], children[p])
    BY <1>3 DEF FitTogether, ProviderInv
  <2>3. LeavesIt(p, provider[p], streak[p], children[p])
    BY <1>2, <1>3, <2>1 DEF LeavesIt
  <2> QED BY <1>1, <1>2, <2>2, <2>3, ReturnsWith
<1>7. CASE CallSucceeds(c)
  <2>1. PICK s : s = Succeeded(provider[p])
    OBVIOUS
  <2>2. /\ s \in ProviderStates /\ s.failures = 0 /\ s.session = provider[p].session /\ s.closed = provider[p].closed
    <3>1. 0 \in 0..(MaxInstant + ResetTimeout)
      BY <1>3, ExternalNumbers
    <3> QED BY <1>3, <2>1, <3>1 DEF Succeeded, ProviderStates
  <2>3. PICK k : k = [failed |-> 0, at |-> 0]
    OBVIOUS
  <2>4. k \in StreakRecord /\ k.failed = 0 /\ k.at = 0
    BY <2>3 DEF StreakRecord
  <2>5. provider' = [provider EXCEPT ![p] = s] /\ streak' = [streak EXCEPT ![p] = k] /\ children' = children
    BY <1>0, <1>1, <1>3, <1>7, <2>1, <2>3 DEF CallSucceeds
  <2>6. FitTogether(s, k, children[p])
    <3>1. ~(k.failed >= FailureThreshold)
      BY <1>3, <2>4, ExternalNumbers
    <3> QED BY <1>3, <2>2, <2>4, <3>1 DEF FitTogether, ProviderInv
  <2>7. LeavesIt(p, s, k, children[p])
    BY <1>2, <1>3, <2>5 DEF LeavesIt
  <2> QED BY <1>1, <1>2, <2>6, <2>7, ReturnsWith
<1> QED BY <1>4, <1>5, <1>6, <1>7

LEMMA CloseStep ==
  ASSUME ExternalInv, NEW p \in Providers, CloseProvider(p)
  PROVE  ExternalInv' /\ StartsNothing
<1>0. /\ ExternalTyped /\ \A q \in Providers : ProviderInv(q)
      /\ provider \in [Providers -> ProviderStates] /\ children \in [Providers -> SUBSET (1..MaxChildren)]
  BY ExternalTypes DEF ExternalInv
<1>1. /\ callMu[p] = NoCaller /\ UNCHANGED <<lastChild, callMu, caller, instant, streak>>
      /\ children' = [children EXCEPT ![p] = DroppedChildren(p)]
      /\ provider' = [provider EXCEPT ![p].closed = TRUE, ![p].session = NoSession]
  BY DEF CloseProvider
<1>2. DroppedChildren(p) = {}
  BY <1>0 DEF DroppedChildren, ProviderInv
<1>3. PICK s : s = [provider[p] EXCEPT !.closed = TRUE, !.session = NoSession]
  OBVIOUS
<1>4. /\ s \in ProviderStates /\ s.session = NoSession /\ s.failures = provider[p].failures
      /\ s.circuitOpenUntil = provider[p].circuitOpenUntil
  <2>1. NoSession \in 0..MaxChildren /\ provider[p] \in ProviderStates
    BY <1>0, ExternalNumbers DEF NoSession
  <2> QED BY <1>3, <2>1 DEF ProviderStates
<1>5. provider' = [provider EXCEPT ![p] = s]
  BY <1>0, <1>1, <1>3
<1>6. /\ provider' \in [Providers -> ProviderStates] /\ provider'[p] = s
      /\ \A q \in Providers \ {p} : provider'[q] = provider[q]
  BY <1>0, <1>4, <1>5
<1>7. /\ children' \in [Providers -> SUBSET (1..MaxChildren)] /\ children'[p] = {}
      /\ \A q \in Providers \ {p} : children'[q] = children[q]
  <2>1. {} \in SUBSET (1..MaxChildren)
    OBVIOUS
  <2> QED BY <1>0, <1>1, <1>2, <2>1
<1>8. ExternalTyped'
  BY <1>0, <1>1, <1>6, <1>7 DEF ExternalTyped, ExternalTypeOK
<1>9. ProviderInv(p)'
  <2>1. NoCaller # Manager
    BY DEF NoCaller, Manager
  <2> QED BY <1>0, <1>1, <1>4, <1>6, <1>7, <2>1 DEF ProviderInv
<1>10. \A q \in Providers \ {p} : ProviderInv(q)'
  <2>1. OnlyAt(p)
    BY <1>1, <1>6, <1>7 DEF OnlyAt
  <2> QED BY <1>0, <1>1, <2>1, OthersKeep
<1>11. \A c \in Callers : CallerInv(c)'
  BY <1>1 DEF ExternalInv, CallerInv
<1>12. StartsNothing
  BY <1>7 DEF StartsNothing
<1> QED BY <1>8, <1>9, <1>10, <1>11, <1>12 DEF ExternalInv

LEMMA ClockStep ==
  ASSUME ExternalInv, ClockAdvances
  PROVE  ExternalInv' /\ StartsNothing
<1>0. /\ ExternalTyped /\ instant < MaxInstant /\ instant' = instant + 1
      /\ UNCHANGED <<provider, children, lastChild, callMu, caller, streak>>
  BY DEF ExternalInv, ClockAdvances
<1>1. instant' \in 1..MaxInstant /\ instant < instant'
  BY <1>0, ExternalNumbers
<1>2. ExternalTyped'
  BY <1>0, <1>1 DEF ExternalTyped, ExternalTypeOK
<1>3. ASSUME NEW p \in Providers PROVE ProviderInv(p)'
  <2>1. streak[p].at \in Nat /\ ResetTimeout \in Nat /\ instant \in Nat
    BY <1>0, ExternalTypes, ExternalNumbers DEF StreakRecord
  <2>2. instant' < streak[p].at + ResetTimeout => instant < streak[p].at + ResetTimeout
    BY <1>0, <2>1
  <2> QED BY <1>0, <2>2 DEF ExternalInv, ProviderInv
<1>4. \A c \in Callers : CallerInv(c)'
  BY <1>0 DEF ExternalInv, CallerInv
<1>5. StartsNothing
  BY <1>0 DEF StartsNothing
<1> QED BY <1>2, <1>3, <1>4, <1>5 DEF ExternalInv

LEMMA ExternalStep ==
  ASSUME ExternalInv, [ExternalNext]_externalVars
  PROVE  ExternalInv' /\ StartsNothing
<1>1. ASSUME NEW p \in Providers, Start(p) \/ CloseProvider(p) PROVE ExternalInv' /\ StartsNothing
  BY <1>1, StartStep, CloseStep
<1>2. ASSUME NEW c \in Callers,
             (\E p \in Providers : Call(c, p)) \/ Expire(c) \/ Lock(c) \/ Connect(c)
             \/ CallFails(c) \/ ArgumentsRejected(c) \/ ResultRejected(c) \/ CallSucceeds(c)
      PROVE  ExternalInv' /\ StartsNothing
  BY <1>2, CallerSteps, LockStep, ConnectStep, ResultStep
<1>3. CASE ClockAdvances
  BY <1>3, ClockStep
<1>4. CASE UNCHANGED externalVars
  <2>1. UNCHANGED <<provider, children, lastChild, callMu, caller, instant, streak>>
    BY <1>4 DEF externalVars
  <2>2. ExternalTyped'
    BY <2>1 DEF ExternalInv, ExternalTyped, ExternalTypeOK
  <2>3. (\A p \in Providers : ProviderInv(p)') /\ \A c \in Callers : CallerInv(c)'
    BY <2>1 DEF ExternalInv, ProviderInv, CallerInv
  <2>4. StartsNothing
    BY <2>1 DEF StartsNothing
  <2> QED BY <2>2, <2>3, <2>4 DEF ExternalInv
<1> QED BY <1>1, <1>2, <1>3, <1>4 DEF ExternalNext

LEMMA SoundFollows == ExternalInv => ExternalTypeOK /\ ChildrenAreSessions /\ CircuitFollowsFailures
<1> SUFFICES ASSUME ExternalInv PROVE ChildrenAreSessions /\ CircuitFollowsFailures
  BY DEF ExternalInv, ExternalTyped
<1>1. ChildrenAreSessions
  BY DEF ExternalInv, ProviderInv, ChildrenAreSessions
<1>2. ASSUME NEW p \in Providers, streak[p].failed >= FailureThreshold, streak[p].at > 0, instant < streak[p].at + ResetTimeout
      PROVE  CircuitOpen(p)
  <2>1. ExternalTyped /\ ProviderInv(p)
    BY DEF ExternalInv
  <2>2. streak[p].at \in Nat /\ provider[p].circuitOpenUntil \in Nat /\ ResetTimeout \in Nat /\ instant \in Nat
    BY <2>1, ExternalTypes, ExternalNumbers DEF StreakRecord, ProviderStates
  <2>3. provider[p].circuitOpenUntil >= streak[p].at + ResetTimeout
    BY <1>2, <2>1 DEF ProviderInv
  <2> QED BY <1>2, <2>2, <2>3 DEF CircuitOpen
<1>3. \A p \in Providers : provider[p].failures = streak[p].failed
  BY DEF ExternalInv, ProviderInv
<1> QED BY <1>1, <1>2, <1>3 DEF CircuitFollowsFailures

\* mcp_provider.go: over any calls that fail, expire or wait for each other, a
\* provider never has a child other than its session, none once it is closed,
\* and no child is started while the circuit that its failures opened is open.
THEOREM ProvidersStaySound == ExternalSpec => ProvidersAreSound
<1>1. ExternalInv /\ [ExternalNext]_externalVars => ExternalInv'
  BY ExternalStep
<1>2. ExternalInv /\ [ExternalNext]_externalVars
        => [\A p \in Providers : CircuitOpen(p) => children'[p] \subseteq children[p]]_externalVars
  BY ExternalStep DEF StartsNothing
<1> QED BY <1>1, <1>2, ExternalInitInv, SoundFollows, PTL DEF ExternalSpec, ProvidersAreSound, OpenCircuitStartsNothing

-----------------------------------------------------------------------------
(* The plugin host *)

Loading == {"register", "validate"}

\* The open calls of visit form a chain of dependencies, and what is listed
\* already has everything it depends on listed before it.
SearchOf(visit, needs) ==
    /\ \A p \in Plugins : visit.state[p] = 1 <=> \E i \in 1..Len(visit.stack) : visit.stack[i] = p
    /\ \A p \in Plugins : visit.state[p] = 2 <=> \E i \in 1..Len(visit.order) : visit.order[i] = p
    /\ \A i, j \in 1..Len(visit.stack) : visit.stack[i] = visit.stack[j] => i = j
    /\ \A i, j \in 1..Len(visit.order) : visit.order[i] = visit.order[j] => i = j
    /\ \A i \in 1..(Len(visit.stack) - 1) : visit.stack[i + 1] \in needs[visit.stack[i]]
    /\ \A i \in 1..Len(visit.order) : \A d \in needs[visit.order[i]] :
          \E j \in 1..(i - 1) : visit.order[j] = d

SearchInv == SearchOf(pluginVisit, pluginNeeds)

\* What a finished search has listed.
Sorted(order) ==
    /\ \A p \in Plugins : \E i \in 1..Len(order) : order[i] = p
    /\ \A i, j \in 1..Len(order) : order[i] = order[j] => i = j
    /\ \A i \in 1..Len(order) : \A d \in pluginNeeds[order[i]] : \E j \in 1..(i - 1) : order[j] = d

OrderInv ==
    /\ pluginOperation.step = "refused" => pluginOrder = <<>> /\ ~(AcyclicGraph /\ AllRegistered)
    /\ pluginOperation.step = "order" => pluginOrder = <<>>
    /\ pluginOrder # <<>> => Sorted(pluginOrder)

\* startAll: what it has still to handle is new, and different from what it
\* loads.
StartInv ==
    pluginOperation.name = "startAll" =>
        /\ pluginOperation.step \in {"order", "refused"} => pluginOperation.queue = <<>> /\ \A p \in Plugins : pluginState[p] = "new"
        /\ \A i \in 1..Len(pluginOperation.queue) : pluginState[pluginOperation.queue[i]] = "new" /\ pluginOperation.queue[i] # pluginOperation.plugin
        /\ \A i, j \in 1..Len(pluginOperation.queue) : pluginOperation.queue[i] = pluginOperation.queue[j] => i = j

\* The plugin of an operation under way.
PluginInHand ==
    /\ pluginOperation.step \in {"order", "refused"} => pluginOperation.name = "startAll" /\ pluginOperation.plugin = Nobody
    /\ pluginOperation.step \in {"load", "register", "validate", "unload", "stop"} => pluginOperation.plugin \in Plugins
    /\ pluginOperation.step \in {"load", "register", "validate"} => pluginState[pluginOperation.plugin] \notin {"running", "stopping"}
    /\ pluginOperation.step \in Loading => \A d \in pluginNeeds[pluginOperation.plugin] : d \in Plugins /\ pluginState[d] = "running"
    /\ pluginOperation.step = "stop" => pluginState[pluginOperation.plugin] = "stopping"

\* A scope is empty unless its plugin runs, stops or is being loaded, and
\* holds every capability its plugin owns.
ScopeInv ==
    /\ \A p \in Plugins : \/ pluginState[p] \in {"running", "stopping"}
                          \/ pluginOperation.plugin = p /\ pluginOperation.step \in Loading
                          \/ pluginScope[p] = EmptyScope
    /\ \A c \in AllCapabilities : capabilityOwner[c] \in Plugins => c \in pluginScope[capabilityOwner[c]].capabilities

HostInv ==
    /\ PluginTypeOK /\ SearchInv /\ OrderInv /\ StartInv /\ PluginInHand /\ ScopeInv
    /\ DependenciesRun /\ ToolsUnambiguous
    /\ \A c \in CoreCapabilities : capabilityOwner[c] = CoreOwner

LEMMA LeastNumber ==
  ASSUME NEW T \in SUBSET Nat, T # {}
  PROVE  \E x \in T : \A y \in T : x <= y
<1>1. PICK x \in T : \A y \in T : ~ (<<y, x>> \in OpToRel(<, Nat))
  BY WFMin, NatLessThanWellFounded
<1>2. \A y \in T : ~ (y < x)
  BY <1>1 DEF OpToRel
<1>3. \A y \in T : x <= y
  BY <1>2
<1> QED BY <1>3

LEMMA AppendPlaces ==
  ASSUME NEW S, NEW s \in Seq(S), NEW e \in S
  PROVE  /\ Append(s, e) \in Seq(S) /\ Len(s) \in Nat /\ Len(Append(s, e)) = Len(s) + 1
         /\ Append(s, e)[Len(s) + 1] = e /\ \A i \in 1..Len(s) : Append(s, e)[i] = s[i]
         /\ Len(s) + 1 \in 1..Len(Append(s, e))
         /\ \A i \in 1..Len(Append(s, e)) : i \in 1..Len(s) \/ i = Len(s) + 1
         /\ \A i \in 1..Len(s) : i \in 1..Len(Append(s, e))
<1>1. /\ Append(s, e) \in Seq(S) /\ Len(s) \in Nat /\ Len(Append(s, e)) = Len(s) + 1
      /\ Append(s, e)[Len(s) + 1] = e /\ \A i \in 1..Len(s) : Append(s, e)[i] = s[i]
  BY AppendProperties, LenProperties
<1>2. /\ Len(s) + 1 \in 1..Len(Append(s, e)) /\ \A i \in 1..Len(Append(s, e)) : i \in 1..Len(s) \/ i = Len(s) + 1
      /\ \A i \in 1..Len(s) : i \in 1..Len(Append(s, e))
  BY <1>1
<1> QED BY <1>1, <1>2

\* Appending adds one element, and nothing twice if it was not there.
LEMMA AppendElements ==
  ASSUME NEW S, NEW s \in Seq(S), NEW e \in S
  PROVE  /\ \A x : (\E i \in 1..Len(Append(s, e)) : Append(s, e)[i] = x) <=> x = e \/ \E i \in 1..Len(s) : s[i] = x
         /\ (\A i \in 1..Len(s) : s[i] # e) /\ (\A i, j \in 1..Len(s) : s[i] = s[j] => i = j)
            => \A i, j \in 1..Len(Append(s, e)) : Append(s, e)[i] = Append(s, e)[j] => i = j
<1>1. PICK t, n : t = Append(s, e) /\ n = Len(s)
  OBVIOUS
<1>2. /\ t[n + 1] = e /\ (\A i \in 1..n : t[i] = s[i]) /\ n + 1 \in 1..Len(t)
      /\ (\A i \in 1..Len(t) : i \in 1..n \/ i = n + 1) /\ \A i \in 1..n : i \in 1..Len(t)
  BY <1>1, AppendPlaces
<1>3. \A x : (\E i \in 1..Len(t) : t[i] = x) <=> x = e \/ \E i \in 1..n : s[i] = x
  BY <1>2, Zenon
<1>4. (\A i \in 1..n : s[i] # e) /\ (\A i, j \in 1..n : s[i] = s[j] => i = j)
      => \A i, j \in 1..Len(t) : t[i] = t[j] => i = j
  BY <1>2, Zenon
<1> QED BY <1>1, <1>3, <1>4

\* Taking the last element away.
LEMMA FrontElements ==
  ASSUME NEW S, NEW s \in Seq(S), s # <<>>
  PROVE  /\ SubSeq(s, 1, Len(s) - 1) \in Seq(S) /\ Len(SubSeq(s, 1, Len(s) - 1)) = Len(s) - 1
         /\ \A i \in 1..(Len(s) - 1) : SubSeq(s, 1, Len(s) - 1)[i] = s[i]
         /\ Len(s) \in Nat /\ Len(s) > 0 /\ Len(s) \in 1..Len(s) /\ s[Len(s)] \in S
         /\ \A i \in 1..Len(s) : i \in 1..(Len(s) - 1) \/ i = Len(s)
         /\ \A i \in 1..(Len(s) - 1) : i \in 1..Len(s) /\ i # Len(s)
<1>1. Len(s) \in Nat /\ Len(s) > 0 /\ Len(s) \in 1..Len(s)
  BY LenProperties, EmptySeq
<1>2. s[Len(s)] \in S
  BY <1>1, ElementOfSeq
<1>3. /\ \A i \in 1..Len(s) : i \in 1..(Len(s) - 1) \/ i = Len(s)
      /\ \A i \in 1..(Len(s) - 1) : i \in 1..Len(s) /\ i # Len(s)
  BY <1>1
<1>4. /\ SubSeq(s, 1, Len(s) - 1) \in Seq(S) /\ Len(SubSeq(s, 1, Len(s) - 1)) = Len(s) - 1
      /\ \A i \in 1..(Len(s) - 1) : SubSeq(s, 1, Len(s) - 1)[i] = s[i]
  <2>1. PICK n : n = Len(s) - 1
    OBVIOUS
  <2>2. 1 \in Int /\ n \in Int /\ \A i \in 1..n : s[i] \in S
    BY <1>1, <1>3, <2>1, ElementOfSeq
  <2>3. /\ SubSeq(s, 1, n) \in Seq(S) /\ Len(SubSeq(s, 1, n)) = IF 1 <= n THEN n - 1 + 1 ELSE 0
        /\ \A i \in 1..(n - 1 + 1) : SubSeq(s, 1, n)[i] = s[1 + i - 1]
    BY <2>2, SubSeqProperties
  <2>4. Len(SubSeq(s, 1, n)) = n
    BY <1>1, <2>1, <2>3
  <2>5. ASSUME NEW i \in 1..n PROVE SubSeq(s, 1, n)[i] = s[i]
    <3>1. i \in 1..(n - 1 + 1) /\ 1 + i - 1 = i
      BY <2>2
    <3> QED BY <2>3, <3>1
  <2> QED BY <2>1, <2>3, <2>4, <2>5
<1> QED BY <1>1, <1>2, <1>3, <1>4

LEMMA PluginIdsFacts ==
  /\ PluginIds \in Seq(Plugins) /\ Len(PluginIds) \in Nat
  /\ \A i \in 1..Len(PluginIds) : PluginIds[i] \in Plugins
  /\ \A p \in Plugins : \E i \in 1..Len(PluginIds) : PluginIds[i] = p
  /\ IsFiniteSet(Plugins)
<1>1. PluginIds \in Seq(Plugins) /\ Len(PluginIds) \in Nat /\ DOMAIN PluginIds = 1..Len(PluginIds)
  BY PluginAssumption, LenProperties
<1>2. \A i \in 1..Len(PluginIds) : PluginIds[i] \in Plugins
  BY <1>1, ElementOfSeq
<1>3. \A p \in Plugins : \E i \in 1..Len(PluginIds) : PluginIds[i] = p
  BY <1>1 DEF Plugins, Range
<1>4. PluginIds \in [1..Len(PluginIds) -> Plugins]
  BY <1>1, LenProperties
<1>5. PluginIds \in Surjection(1..Len(PluginIds), Plugins)
  BY <1>3, <1>4, Fun_IsSurj
<1>6. IsFiniteSet(1..Len(PluginIds))
  BY <1>1, FS_Interval
<1>7. IsFiniteSet(Plugins)
  BY <1>5, <1>6, FS_Surjection
<1> QED BY <1>1, <1>2, <1>3, <1>7

\* A chain of dependencies that comes back to one of its plugins is a set of
\* plugins each of which depends on another one of the set.
LEMMA ChainIsCycle ==
  ASSUME NEW s \in Seq(Plugins), NEW k \in 1..Len(s),
         \A i \in 1..(Len(s) - 1) : s[i + 1] \in pluginNeeds[s[i]],
         s[k] \in pluginNeeds[s[Len(s)]]
  PROVE  ~AcyclicGraph
<1>1. Len(s) \in Nat /\ \A i \in 1..Len(s) : s[i] \in Plugins
  BY LenProperties, ElementOfSeq
<1>2. PICK S : S = {s[i] : i \in k..Len(s)}
  OBVIOUS
<1>3. S \in (SUBSET Plugins) \ {{}}
  <2>1. S \subseteq Plugins
    BY <1>1, <1>2
  <2>2. k \in k..Len(s)
    BY <1>1
  <2>3. s[k] \in S
    BY <1>2, <2>2
  <2> QED BY <2>1, <2>3
<1>4. ASSUME NEW p \in S PROVE pluginNeeds[p] \cap S # {}
  <2>1. PICK i \in k..Len(s) : p = s[i]
    BY <1>2
  <2>2. CASE i = Len(s)
    BY <1>1, <1>2, <2>1, <2>2
  <2>3. CASE i < Len(s)
    <3>1. i + 1 \in k..Len(s) /\ i \in 1..(Len(s) - 1)
      BY <1>1, <2>1, <2>3
    <3>2. s[i + 1] \in S
      BY <1>2, <3>1
    <3> QED BY <2>1, <3>1, <3>2
  <2> QED BY <1>1, <2>1, <2>2, <2>3
<1> QED BY <1>3, <1>4 DEF AcyclicGraph

\* A list with every dependency before what needs it leaves no cycle: of any
\* set of plugins the first one listed depends on none of the others.
LEMMA SortedIsAcyclic ==
  ASSUME NEW s \in Seq(Plugins), Sorted(s)
  PROVE  AcyclicGraph /\ AllRegistered /\ IsTopological(s)
<1>1. Len(s) \in Nat /\ DOMAIN s = 1..Len(s) /\ (\A i \in 1..Len(s) : s[i] \in Plugins) /\ s \in [1..Len(s) -> Plugins]
  BY LenProperties, ElementOfSeq
<1>2. ASSUME NEW set \in (SUBSET Plugins) \ {{}} PROVE \E p \in set : pluginNeeds[p] \cap set = {}
  <2>1. PICK T : T = {i \in 1..Len(s) : s[i] \in set}
    OBVIOUS
  <2>2. T \in SUBSET Nat /\ T # {}
    <3>1. PICK p \in set : TRUE
      BY <1>2
    <3>2. PICK i \in 1..Len(s) : s[i] = p
      BY <1>2, <3>1 DEF Sorted
    <3> QED BY <2>1, <3>2, <1>1
  <2>3. PICK x \in T : \A y \in T : x <= y
    BY <2>2, LeastNumber
  <2>4. x \in 1..Len(s) /\ s[x] \in set
    BY <2>1
  <2>5. ASSUME NEW d \in pluginNeeds[s[x]], d \in set PROVE FALSE
    <3>1. PICK j \in 1..(x - 1) : s[j] = d
      BY <2>4, <2>5 DEF Sorted
    <3>2. j \in T
      BY <1>1, <2>1, <2>4, <2>5, <3>1
    <3> QED BY <2>3, <2>4, <3>1, <3>2, <1>1
  <2> QED BY <2>4, <2>5
<1>3. AllRegistered
  <2>1. ASSUME NEW p \in Plugins, NEW d \in pluginNeeds[p] PROVE d \in Plugins
    <3>1. PICK i \in 1..Len(s) : s[i] = p
      BY DEF Sorted
    <3>2. PICK j \in 1..(i - 1) : s[j] = d
      BY <2>1, <3>1 DEF Sorted
    <3>3. j \in 1..Len(s)
      BY <1>1, <3>1, <3>2
    <3> QED BY <1>1, <3>2, <3>3
  <2> QED BY <2>1 DEF AllRegistered
<1>4. Len(s) = Cardinality(Plugins)
  <2>1. s \in Bijection(1..Len(s), Plugins)
    BY <1>1, Fun_IsBij DEF Sorted
  <2>2. ExistsBijection(1..Len(s), Plugins)
    BY <2>1 DEF ExistsBijection
  <2>3. IsFiniteSet(1..Len(s)) /\ Cardinality(1..Len(s)) = Len(s)
    <3>1. IsFiniteSet(1..Len(s)) /\ Cardinality(1..Len(s)) = IF 1 > Len(s) THEN 0 ELSE Len(s) - 1 + 1
      BY <1>1, 1 \in Int, Len(s) \in Int, FS_Interval
    <3> QED BY <1>1, <3>1
  <2> QED BY <2>2, <2>3, FS_Bijection
<1>5. Range(s) = Plugins
  BY <1>1 DEF Sorted, Range
<1>6. IsTopological(s)
  BY <1>4, <1>5 DEF IsTopological, Sorted
<1> QED BY <1>2, <1>3, <1>6 DEF AcyclicGraph

LEMMA NoVisitTyped ==
  NoVisit \in [state : [Plugins -> 0..2], stack : Seq(Plugins), order : Seq(Plugins)]
<1>1. [p \in Plugins |-> 0] \in [Plugins -> 0..2] /\ <<>> \in Seq(Plugins)
  OBVIOUS
<1> QED BY <1>1 DEF NoVisit

LEMMA NoVisitSearch == pluginVisit = NoVisit => SearchInv
<1> SUFFICES ASSUME pluginVisit = NoVisit PROVE SearchInv
  OBVIOUS
<1>1. pluginVisit.stack = <<>> /\ pluginVisit.order = <<>> /\ \A p \in Plugins : pluginVisit.state[p] = 0
  BY DEF NoVisit
<1>2. Len(pluginVisit.stack) = 0 /\ Len(pluginVisit.order) = 0
  BY <1>1
<1> QED BY <1>1, <1>2 DEF SearchInv, SearchOf

LEMMA HostInitInv == PluginInit => HostInv
<1> SUFFICES ASSUME PluginInit PROVE HostInv
  OBVIOUS
<1>1. PluginTypeOK
  <2>1. pluginVisit \in [state : [Plugins -> 0..2], stack : Seq(Plugins), order : Seq(Plugins)]
    BY NoVisitTyped DEF PluginInit
  <2>2. pluginOrder \in Seq(Plugins)
    BY DEF PluginInit
  <2>3. pluginState \in [Plugins -> PluginStates] /\ \A p \in Plugins : pluginState[p] = "new"
    BY DEF PluginInit, PluginStates
  <2>4. pluginScope \in [Plugins -> [capabilities : SUBSET AllCapabilities, tools : SUBSET ToolIds]]
    BY DEF PluginInit, EmptyScope
  <2>5. capabilityOwner \in [AllCapabilities -> Plugins \cup {CoreOwner, Nobody}]
    BY DEF PluginInit
  <2>6. pluginOperation \in [name : OperationNames, step : OperationSteps, plugin : Plugins \cup {Nobody}, queue : Seq(Plugins)]
    BY DEF PluginInit, NoOperation, OperationNames, OperationSteps
  <2> QED BY <2>1, <2>2, <2>3, <2>4, <2>5, <2>6 DEF PluginTypeOK
<1>2. SearchInv
  BY NoVisitSearch DEF PluginInit
<1>3. OrderInv /\ StartInv /\ PluginInHand
  BY DEF PluginInit, NoOperation, OrderInv, StartInv, PluginInHand, Loading
<1>4. ScopeInv
  <2>1. \A p \in Plugins : pluginScope[p] = EmptyScope
    BY DEF PluginInit
  <2>2. \A c \in AllCapabilities : capabilityOwner[c] \notin Plugins
    BY PluginAssumption DEF PluginInit
  <2> QED BY <2>1, <2>2 DEF ScopeInv
<1>5. DependenciesRun /\ ToolsUnambiguous
  BY DEF PluginInit, DependenciesRun, ToolsUnambiguous
<1>6. \A c \in CoreCapabilities : capabilityOwner[c] = CoreOwner
  BY DEF PluginInit, AllCapabilities
<1> QED BY <1>1, <1>2, <1>3, <1>4, <1>5, <1>6 DEF HostInv

-----------------------------------------------------------------------------
(* dependencyOrder *)

\* What the steps of dependencyOrder leave alone.
LEMMA SearchFrame ==
  ASSUME HostInv, pluginOperation.step = "order",
         UNCHANGED <<pluginNeeds, pluginState, pluginScope, capabilityOwner>>,
         pluginOperation' \in [name : {"startAll"}, step : {"order", "refused", "next"}, plugin : {pluginOperation.plugin}, queue : Seq(Plugins)]
  PROVE  /\ ScopeInv' /\ DependenciesRun' /\ ToolsUnambiguous' /\ PluginInHand'
         /\ \A c \in CoreCapabilities : capabilityOwner'[c] = CoreOwner
         /\ pluginState' \in [Plugins -> PluginStates]
         /\ pluginScope' \in [Plugins -> [capabilities : SUBSET AllCapabilities, tools : SUBSET ToolIds]]
         /\ capabilityOwner' \in [AllCapabilities -> Plugins \cup {CoreOwner, Nobody}]
         /\ \A p \in Plugins : pluginState[p] = "new"
<1>1. /\ pluginOperation'.name = "startAll" /\ pluginOperation'.step \in {"order", "refused", "next"}
      /\ pluginOperation'.plugin = pluginOperation.plugin
  OBVIOUS
<1>2. /\ pluginState' = pluginState /\ pluginScope' = pluginScope /\ capabilityOwner' = capabilityOwner
      /\ pluginNeeds' = pluginNeeds
  OBVIOUS
<1>3. \A p \in Plugins : pluginState[p] = "new"
  BY DEF HostInv, PluginInHand, StartInv
<1>4. ScopeInv'
  BY <1>1, <1>2 DEF HostInv, ScopeInv, Loading
<1>5. DependenciesRun' /\ ToolsUnambiguous'
  BY <1>2 DEF HostInv, DependenciesRun, ToolsUnambiguous
<1>6. PluginInHand'
  BY <1>1 DEF HostInv, PluginInHand, Loading
<1> QED BY <1>2, <1>3, <1>4, <1>5, <1>6 DEF HostInv, PluginTypeOK

LEMMA VisitFacts ==
  ASSUME HostInv
  PROVE  /\ pluginVisit.state \in [Plugins -> 0..2] /\ pluginVisit.stack \in Seq(Plugins) /\ pluginVisit.order \in Seq(Plugins)
         /\ Len(pluginVisit.stack) \in Nat /\ Len(pluginVisit.order) \in Nat
         /\ \A i \in 1..Len(pluginVisit.stack) : pluginVisit.stack[i] \in Plugins
         /\ \A i \in 1..Len(pluginVisit.order) : pluginVisit.order[i] \in Plugins
         /\ pluginVisit = [state |-> pluginVisit.state, stack |-> pluginVisit.stack, order |-> pluginVisit.order]
<1>1. pluginVisit \in [state : [Plugins -> 0..2], stack : Seq(Plugins), order : Seq(Plugins)]
  BY DEF HostInv, PluginTypeOK
<1>2. pluginVisit.state \in [Plugins -> 0..2] /\ pluginVisit.stack \in Seq(Plugins) /\ pluginVisit.order \in Seq(Plugins)
  BY <1>1
<1>3. pluginVisit = [state |-> pluginVisit.state, stack |-> pluginVisit.stack, order |-> pluginVisit.order]
  BY <1>1
<1> QED BY <1>2, <1>3, LenProperties, ElementOfSeq

LEMMA OperationFacts ==
  ASSUME HostInv
  PROVE  /\ pluginOperation.name \in OperationNames /\ pluginOperation.step \in OperationSteps
         /\ pluginOperation.plugin \in Plugins \cup {Nobody} /\ pluginOperation.queue \in Seq(Plugins)
         /\ pluginOperation = [name |-> pluginOperation.name, step |-> pluginOperation.step,
                               plugin |-> pluginOperation.plugin, queue |-> pluginOperation.queue]
<1>1. pluginOperation \in [name : OperationNames, step : OperationSteps, plugin : Plugins \cup {Nobody}, queue : Seq(Plugins)]
  BY DEF HostInv, PluginTypeOK
<1> QED BY <1>1


LEMMA VisitRefusedStep ==
  ASSUME HostInv, NEW id, VisitPlugin(id), id \notin Plugins \/ pluginVisit.state[id] = 1
  PROVE  HostInv'
<1> USE VisitFacts, OperationFacts
<1>1. /\ pluginOperation.step = "order" /\ id \in ToVisit
      /\ pluginOperation' = [pluginOperation EXCEPT !.step = "refused"] /\ pluginVisit' = NoVisit
      /\ UNCHANGED <<pluginNeeds, pluginOrder, pluginState, pluginScope, capabilityOwner>>
  BY DEF VisitPlugin
<1>2. /\ pluginOperation.name = "startAll" /\ pluginOperation.queue = <<>> /\ pluginOrder = <<>>
      /\ \A p \in Plugins : pluginState[p] = "new"
  BY <1>1 DEF HostInv, PluginInHand, StartInv, OrderInv
<1>3. /\ pluginOperation'.name = "startAll" /\ pluginOperation'.step = "refused"
      /\ pluginOperation'.plugin = pluginOperation.plugin /\ pluginOperation'.queue = <<>>
      /\ pluginOperation' = [name |-> "startAll", step |-> "refused", plugin |-> pluginOperation.plugin, queue |-> <<>>]
  BY <1>1, <1>2
<1>4. ~(AcyclicGraph /\ AllRegistered)
  <2>1. pluginVisit.stack # <<>>
    <3>1. CASE pluginVisit.stack = <<>>
      <4>1. PICK i \in 1..Len(PluginIds) : id = PluginIds[i] /\ pluginVisit.state[PluginIds[i]] = 0
        BY <1>1, <3>1 DEF ToVisit
      <4> QED BY <4>1, PluginIdsFacts
    <3> QED BY <3>1
  <2>2. id \in pluginNeeds[Last(pluginVisit.stack)]
    BY <1>1, <2>1 DEF ToVisit
  <2>3. Len(pluginVisit.stack) \in 1..Len(pluginVisit.stack) /\ Last(pluginVisit.stack) = pluginVisit.stack[Len(pluginVisit.stack)]
    BY <2>1, EmptySeq DEF Last
  <2>4. CASE id \notin Plugins
    BY <2>2, <2>3, <2>4 DEF AllRegistered
  <2>5. CASE id \in Plugins /\ pluginVisit.state[id] = 1
    <3>1. PICK k \in 1..Len(pluginVisit.stack) : pluginVisit.stack[k] = id
      BY <2>5 DEF HostInv, SearchInv, SearchOf
    <3>2. \A i \in 1..(Len(pluginVisit.stack) - 1) : pluginVisit.stack[i + 1] \in pluginNeeds[pluginVisit.stack[i]]
      BY DEF HostInv, SearchInv, SearchOf
    <3> QED BY <2>2, <2>3, <3>1, <3>2, ChainIsCycle
  <2> QED BY <2>4, <2>5
<1>5. OrderInv'
  BY <1>1, <1>2, <1>3, <1>4 DEF OrderInv, AcyclicGraph, AllRegistered
<1>6. SearchInv'
  <2>1. (pluginVisit = NoVisit)' => SearchInv'
    BY NoVisitSearch, PTL
  <2> QED BY <1>1, <2>1 DEF NoVisit
<1>7. StartInv'
  BY <1>1, <1>2, <1>3 DEF StartInv
<1>8. pluginOperation' \in [name : {"startAll"}, step : {"order", "refused", "next"}, plugin : {pluginOperation.plugin}, queue : Seq(Plugins)]
  BY <1>3
<1>9. PluginTypeOK'
  <2>1. pluginVisit' \in [state : [Plugins -> 0..2], stack : Seq(Plugins), order : Seq(Plugins)]
    BY <1>1, NoVisitTyped
  <2>2. pluginOperation' \in [name : OperationNames, step : OperationSteps, plugin : Plugins \cup {Nobody}, queue : Seq(Plugins)]
    BY <1>3 DEF OperationNames, OperationSteps
  <2>3. pluginOrder' \in Seq(Plugins)
    BY <1>1 DEF HostInv, PluginTypeOK
  <2>4. \A p \in Plugins : pluginState'[p] # "stopping"
    BY <1>1, <1>2
  <2> QED BY <1>1, <1>8, <2>1, <2>2, <2>3, <2>4, SearchFrame DEF PluginTypeOK
<1> QED BY <1>1, <1>5, <1>6, <1>7, <1>8, <1>9, SearchFrame DEF HostInv

\* A visit that goes deeper: the chain of open calls grows by one dependency.
LEMMA VisitDeeperStep ==
  ASSUME HostInv, NEW id, VisitPlugin(id), id \in Plugins, pluginVisit.state[id] # 1
  PROVE  HostInv'
<1> USE VisitFacts, OperationFacts
<1>1. /\ pluginOperation.step = "order" /\ id \in ToVisit
      /\ pluginVisit' = [pluginVisit EXCEPT !.state[id] = 1, !.stack = Append(@, id)]
      /\ UNCHANGED <<pluginNeeds, pluginOrder, pluginState, pluginScope, capabilityOwner, pluginOperation>>
  BY DEF VisitPlugin
<1>2. PICK st, s, s1 : /\ st = pluginVisit.state /\ s = pluginVisit.stack /\ s1 = Append(s, id)
  OBVIOUS
<1>3. /\ pluginVisit'.state = [st EXCEPT ![id] = 1] /\ pluginVisit'.stack = s1 /\ pluginVisit'.order = pluginVisit.order
      /\ pluginVisit' = [state |-> [st EXCEPT ![id] = 1], stack |-> s1, order |-> pluginVisit.order]
  BY <1>1, <1>2
<1>4. /\ s \in Seq(Plugins) /\ s1 \in Seq(Plugins) /\ Len(s) \in Nat /\ Len(s1) = Len(s) + 1 /\ s1[Len(s) + 1] = id
      /\ \A i \in 1..Len(s) : s1[i] = s[i]
  BY <1>2, AppendProperties
<1>5. st[id] = 0 /\ (s # <<>> => id \in pluginNeeds[s[Len(s)]])
  <2>1. CASE s = <<>>
    <3>1. PICK i \in 1..Len(PluginIds) : id = PluginIds[i] /\ pluginVisit.state[PluginIds[i]] = 0
      BY <1>1, <1>2, <2>1 DEF ToVisit
    <3> QED BY <3>1, <2>1, <1>2
  <2>2. CASE s # <<>>
    <3>1. id \in pluginNeeds[Last(s)] /\ st[id] # 2
      BY <1>1, <1>2, <2>2 DEF ToVisit
    <3>2. st[id] \in 0..2 /\ st[id] # 1
      BY <1>2
    <3> QED BY <3>1, <3>2 DEF Last
  <2> QED BY <2>1, <2>2
<1>6. /\ \A p \in Plugins : st[p] = 1 <=> \E i \in 1..Len(s) : s[i] = p
      /\ \A i, j \in 1..Len(s) : s[i] = s[j] => i = j
      /\ \A i \in 1..(Len(s) - 1) : s[i + 1] \in pluginNeeds[s[i]]
  BY <1>2 DEF HostInv, SearchInv, SearchOf
<1>7. st \in [Plugins -> 0..2]
  BY <1>2
<1>8. SearchInv'
  <2>1. ASSUME NEW p \in Plugins PROVE pluginVisit'.state[p] = 1 <=> \E i \in 1..Len(s1) : s1[i] = p
    <3>1. CASE p = id
      <4>1. Len(s) + 1 \in 1..Len(s1)
        BY <1>4
      <4> QED BY <1>3, <1>4, <1>7, <3>1, <4>1
    <3>2. CASE p # id
      <4>1. pluginVisit'.state[p] = st[p]
        BY <1>3, <1>7, <3>2
      <4>2. (\E i \in 1..Len(s1) : s1[i] = p) <=> \E i \in 1..Len(s) : s[i] = p
        BY <1>2, <1>4, <3>2, AppendElements
      <4> QED BY <1>6, <4>1, <4>2
    <3> QED BY <3>1, <3>2
  <2>2. ASSUME NEW p \in Plugins PROVE pluginVisit'.state[p] = 2 <=> st[p] = 2
    BY <1>3, <1>5, <1>7
  <2>3. ASSUME NEW i \in 1..Len(s1), NEW j \in 1..Len(s1), s1[i] = s1[j] PROVE i = j
    <3>1. \A k \in 1..Len(s) : s[k] # id
      BY <1>5, <1>6
    <3>2. CASE i \in 1..Len(s) /\ j \in 1..Len(s)
      BY <1>4, <1>6, <2>3, <3>2
    <3>3. CASE i = Len(s) + 1 \/ j = Len(s) + 1
      BY <1>4, <2>3, <3>1, <3>3
    <3> QED BY <1>4, <3>2, <3>3
  <2>4. ASSUME NEW i \in 1..(Len(s1) - 1) PROVE s1[i + 1] \in pluginNeeds[s1[i]]
    <3>1. CASE i = Len(s)
      <4>1. s # <<>> /\ s1[i + 1] = id /\ s1[i] = s[Len(s)]
        BY <1>4, <2>4, <3>1
      <4> QED BY <1>5, <4>1
    <3>2. CASE i \in 1..(Len(s) - 1)
      <4>1. i \in 1..Len(s) /\ i + 1 \in 1..Len(s)
        BY <1>4, <3>2
      <4> QED BY <1>4, <1>6, <3>2, <4>1
    <3> QED BY <1>4, <3>1, <3>2
  <2>5. pluginNeeds' = pluginNeeds
    BY <1>1
  <2>6. /\ \A p \in Plugins : pluginVisit'.state[p] = 2 <=> \E i \in 1..Len(pluginVisit.order) : pluginVisit.order[i] = p
        /\ \A i, j \in 1..Len(pluginVisit.order) : pluginVisit.order[i] = pluginVisit.order[j] => i = j
        /\ \A i \in 1..Len(pluginVisit.order) : \A d \in pluginNeeds[pluginVisit.order[i]] :
              \E j \in 1..(i - 1) : pluginVisit.order[j] = d
    BY <1>2, <2>2 DEF HostInv, SearchInv, SearchOf
  <2> QED BY <1>3, <2>1, <2>3, <2>4, <2>5, <2>6 DEF SearchInv, SearchOf
<1>9. pluginOperation.name = "startAll" /\ \A p \in Plugins : pluginState[p] = "new"
  BY <1>1 DEF HostInv, PluginInHand, StartInv
<1>10. pluginOperation' \in [name : {"startAll"}, step : {"order", "refused", "next"}, plugin : {pluginOperation.plugin}, queue : Seq(Plugins)]
  BY <1>1, <1>9
<1>11. OrderInv' /\ StartInv'
  BY <1>1 DEF HostInv, OrderInv, StartInv, Sorted, AcyclicGraph, AllRegistered
<1>12. PluginTypeOK'
  <2>1. [st EXCEPT ![id] = 1] \in [Plugins -> 0..2]
    BY <1>7
  <2>2. pluginVisit' \in [state : [Plugins -> 0..2], stack : Seq(Plugins), order : Seq(Plugins)]
    BY <1>3, <1>4, <2>1
  <2>3. \A p \in Plugins : pluginState'[p] # "stopping"
    BY <1>1, <1>9
  <2> QED BY <1>1, <2>2, <2>3 DEF HostInv, PluginTypeOK
<1> QED BY <1>1, <1>8, <1>10, <1>11, <1>12, SearchFrame DEF HostInv


\* The end of a visit: the plugin moves from the chain to the list, and
\* everything it depends on is listed.
LEMMA LeaveStep ==
  ASSUME HostInv, LeavePlugin
  PROVE  HostInv'
<1> USE VisitFacts, OperationFacts
<1>1. PICK st, s, o, id : st = pluginVisit.state /\ s = pluginVisit.stack /\ o = pluginVisit.order /\ id = s[Len(s)]
  OBVIOUS
<1>2. /\ pluginOperation.step = "order" /\ s # <<>> /\ ToVisit = {}
      /\ pluginVisit' = [state |-> [st EXCEPT ![id] = 2], stack |-> SubSeq(s, 1, Len(s) - 1), order |-> Append(o, id)]
      /\ UNCHANGED <<pluginNeeds, pluginOrder, pluginState, pluginScope, capabilityOwner, pluginOperation>>
  BY <1>1 DEF LeavePlugin, Last, Front
<1>3. PICK s1, o1 : s1 = SubSeq(s, 1, Len(s) - 1) /\ o1 = Append(o, id)
  OBVIOUS
<1>4. Len(s) \in Nat /\ Len(s) > 0 /\ id \in Plugins /\ s \in Seq(Plugins) /\ o \in Seq(Plugins) /\ Len(o) \in Nat
  <2>1. Len(s) \in Nat /\ s \in Seq(Plugins) /\ o \in Seq(Plugins) /\ Len(o) \in Nat /\ Len(s) # 0
    BY <1>1, <1>2, EmptySeq
  <2>2. Len(s) \in 1..Len(s)
    BY <2>1
  <2> QED BY <1>1, <2>1, <2>2
<1>5. /\ s1 \in Seq(Plugins) /\ Len(s1) = Len(s) - 1 /\ \A i \in 1..(Len(s) - 1) : s1[i] = s[i]
  BY <1>2, <1>3, <1>4, FrontElements
<1>6. /\ o1 \in Seq(Plugins) /\ Len(o1) = Len(o) + 1 /\ o1[Len(o) + 1] = id /\ \A i \in 1..Len(o) : o1[i] = o[i]
  BY <1>3, <1>4, AppendProperties
<1>7. /\ \A p \in Plugins : st[p] = 1 <=> \E i \in 1..Len(s) : s[i] = p
      /\ \A i, j \in 1..Len(s) : s[i] = s[j] => i = j
      /\ \A i \in 1..(Len(s) - 1) : s[i + 1] \in pluginNeeds[s[i]]
      /\ \A p \in Plugins : st[p] = 2 <=> \E i \in 1..Len(o) : o[i] = p
      /\ \A i, j \in 1..Len(o) : o[i] = o[j] => i = j
      /\ \A i \in 1..Len(o) : \A d \in pluginNeeds[o[i]] : \E j \in 1..(i - 1) : o[j] = d
  BY <1>1 DEF HostInv, SearchInv, SearchOf
<1>8. st \in [Plugins -> 0..2] /\ st[id] = 1
  <2>1. Len(s) \in 1..Len(s)
    BY <1>4
  <2> QED BY <1>1, <1>4, <1>7, <2>1
<1>9. /\ pluginVisit'.state = [st EXCEPT ![id] = 2] /\ pluginVisit'.stack = s1 /\ pluginVisit'.order = o1
      /\ pluginVisit' = [state |-> [st EXCEPT ![id] = 2], stack |-> s1, order |-> o1]
  BY <1>2, <1>3
<1>10. ASSUME NEW d \in pluginNeeds[id] PROVE \E j \in 1..Len(o) : o[j] = d
  <2>1. d \in Plugins /\ st[d] = 2
    BY <1>1, <1>2 DEF ToVisit, Last
  <2> QED BY <1>7, <2>1
<1>11. SearchInv'
  <2>1. ASSUME NEW p \in Plugins PROVE pluginVisit'.state[p] = 1 <=> \E i \in 1..Len(s1) : s1[i] = p
    <3>1. CASE p = id
      <4>1. pluginVisit'.state[p] = 2
        BY <1>4, <1>8, <1>9, <3>1
      <4>2. ASSUME NEW i \in 1..Len(s1) PROVE s1[i] # id
        <5>1. i \in 1..Len(s) /\ Len(s) \in 1..Len(s) /\ i # Len(s) /\ s1[i] = s[i]
          BY ONLY <1>4, <1>5, i \in 1..Len(s1)
        <5>2. s[i] = s[Len(s)] => i = Len(s)
          BY ONLY <1>7, <5>1, Zenon
        <5> QED BY ONLY <1>1, <5>1, <5>2, Zenon
      <4> QED BY <3>1, <4>1, <4>2
    <3>2. CASE p # id
      <4>1. pluginVisit'.state[p] = st[p]
        BY <1>8, <1>9, <3>2
      <4>2. (\E i \in 1..Len(s1) : s1[i] = p) <=> \E i \in 1..Len(s) : s[i] = p
        <5>1. /\ \A i \in 1..Len(s) : i \in 1..Len(s1) \/ i = Len(s)
              /\ \A i \in 1..Len(s1) : i \in 1..Len(s) /\ s1[i] = s[i]
          BY <1>4, <1>5
        <5> QED BY <1>1, <3>2, <5>1, Zenon
      <4> QED BY <1>7, <4>1, <4>2
    <3> QED BY <3>1, <3>2
  <2>2. ASSUME NEW p \in Plugins PROVE pluginVisit'.state[p] = 2 <=> \E i \in 1..Len(o1) : o1[i] = p
    <3>1. CASE p = id
      <4>1. Len(o) + 1 \in 1..Len(o1)
        BY <1>4, <1>6
      <4>2. pluginVisit'.state[p] = 2
        BY <1>4, <1>8, <1>9, <3>1
      <4>3. \E i \in 1..Len(o1) : o1[i] = p
        BY <1>6, <3>1, <4>1
      <4> QED BY <4>2, <4>3
    <3>2. CASE p # id
      <4>1. pluginVisit'.state[p] = st[p]
        BY <1>8, <1>9, <3>2
      <4>2. (\E i \in 1..Len(o1) : o1[i] = p) <=> \E i \in 1..Len(o) : o[i] = p
        BY <1>3, <1>4, <3>2, AppendElements
      <4> QED BY <1>7, <4>1, <4>2
    <3> QED BY <3>1, <3>2
  <2>3. ASSUME NEW i \in 1..Len(s1), NEW j \in 1..Len(s1), s1[i] = s1[j] PROVE i = j
    BY <1>4, <1>5, <1>7, <2>3
  <2>4. ASSUME NEW i \in 1..Len(o1), NEW j \in 1..Len(o1), o1[i] = o1[j] PROVE i = j
    <3>1. \A k \in 1..Len(o) : o[k] # id
      BY <1>4, <1>7, <1>8
    <3>2. \A k, l \in 1..Len(o1) : o1[k] = o1[l] => k = l
      BY <1>3, <1>4, <1>7, <3>1, AppendElements
    <3> QED BY <2>4, <3>2
  <2>5. ASSUME NEW i \in 1..(Len(s1) - 1) PROVE s1[i + 1] \in pluginNeeds[s1[i]]
    <3>1. i \in 1..(Len(s) - 1) /\ i + 1 \in 1..(Len(s) - 1)
      BY <1>4, <1>5
    <3> QED BY <1>5, <1>7, <3>1
  <2>6. ASSUME NEW i \in 1..Len(o1), NEW d \in pluginNeeds[o1[i]] PROVE \E j \in 1..(i - 1) : o1[j] = d
    <3>1. CASE i = Len(o) + 1
      <4>1. PICK j \in 1..Len(o) : o[j] = d
        BY <1>6, <1>10, <2>6, <3>1
      <4>2. j \in 1..(i - 1)
        BY <1>4, <3>1
      <4> QED BY <1>6, <4>1, <4>2
    <3>2. CASE i \in 1..Len(o)
      <4>1. PICK j \in 1..(i - 1) : o[j] = d
        BY <1>6, <1>7, <2>6, <3>2
      <4>2. j \in 1..Len(o)
        BY <1>4, <3>2
      <4> QED BY <1>6, <4>1, <4>2
    <3> QED BY <1>4, <1>6, <3>1, <3>2
  <2>7. pluginNeeds' = pluginNeeds
    BY <1>2
  <2> QED BY <1>9, <2>1, <2>2, <2>3, <2>4, <2>5, <2>6, <2>7 DEF SearchInv, SearchOf
<1>12. pluginOperation.name = "startAll" /\ \A p \in Plugins : pluginState[p] = "new"
  BY <1>2 DEF HostInv, PluginInHand, StartInv
<1>13. pluginOperation' \in [name : {"startAll"}, step : {"order", "refused", "next"}, plugin : {pluginOperation.plugin}, queue : Seq(Plugins)]
  BY <1>2, <1>12
<1>14. OrderInv' /\ StartInv'
  BY <1>2 DEF HostInv, OrderInv, StartInv, Sorted, AcyclicGraph, AllRegistered
<1>15. PluginTypeOK'
  <2>1. 2 \in 0..2 /\ st \in [Plugins -> 0..2]
    BY <1>8
  <2>a. [st EXCEPT ![id] = 2] \in [Plugins -> 0..2]
    BY ONLY <1>4, <2>1, id \in Plugins
  <2>2. pluginVisit' \in [state : [Plugins -> 0..2], stack : Seq(Plugins), order : Seq(Plugins)]
    BY <1>5, <1>6, <1>9, <2>a
  <2>3. \A p \in Plugins : pluginState'[p] # "stopping"
    BY <1>2, <1>12
  <2> QED BY <1>2, <2>2, <2>3 DEF HostInv, PluginTypeOK
<1> QED BY <1>2, <1>11, <1>13, <1>14, <1>15, SearchFrame DEF HostInv

\* The end of the search: nothing is left open and nothing unvisited.
LEMMA FinishOrderStep ==
  ASSUME HostInv, FinishOrder
  PROVE  HostInv'
<1> USE VisitFacts, OperationFacts
<1>1. /\ pluginOperation.step = "order" /\ pluginVisit.stack = <<>> /\ ToVisit = {}
      /\ pluginOrder' = pluginVisit.order /\ pluginVisit' = NoVisit
      /\ pluginOperation' = [pluginOperation EXCEPT !.step = "next", !.queue = pluginVisit.order]
      /\ UNCHANGED <<pluginNeeds, pluginState, pluginScope, capabilityOwner>>
  BY DEF FinishOrder
<1>2. pluginOperation.name = "startAll" /\ \A p \in Plugins : pluginState[p] = "new"
  BY <1>1 DEF HostInv, PluginInHand, StartInv
<1>3. /\ pluginOperation'.name = "startAll" /\ pluginOperation'.step = "next"
      /\ pluginOperation'.plugin = pluginOperation.plugin /\ pluginOperation'.queue = pluginVisit.order
      /\ pluginOperation' = [name |-> "startAll", step |-> "next", plugin |-> pluginOperation.plugin, queue |-> pluginVisit.order]
  BY <1>1, <1>2
<1>4. ASSUME NEW p \in Plugins PROVE pluginVisit.state[p] = 2
  <2>1. Len(pluginVisit.stack) = 0
    BY <1>1
  <2>2. \A q \in Plugins : pluginVisit.state[q] \in {0, 2}
    <3>1. ASSUME NEW q \in Plugins PROVE pluginVisit.state[q] # 1
      BY <2>1 DEF HostInv, SearchInv, SearchOf
    <3> QED BY <3>1
  <2>3. PICK T : T = {i \in 1..Len(PluginIds) : pluginVisit.state[PluginIds[i]] = 0}
    OBVIOUS
  <2>4. CASE T = {}
    <3>1. PICK i \in 1..Len(PluginIds) : PluginIds[i] = p
      BY PluginIdsFacts
    <3> QED BY <2>2, <2>3, <2>4, <3>1
  <2>5. CASE T # {}
    <3>1. T \in SUBSET Nat
      BY <2>3, PluginIdsFacts
    <3>2. PICK x \in T : \A y \in T : x <= y
      BY <2>5, <3>1, LeastNumber
    <3>3. x \in 1..Len(PluginIds) /\ pluginVisit.state[PluginIds[x]] = 0
      BY <2>3
    <3>4. ASSUME NEW j \in 1..(x - 1) PROVE pluginVisit.state[PluginIds[j]] = 2
      <4>0. Len(PluginIds) \in Nat
        BY PluginIdsFacts
      <4>1. j \in 1..Len(PluginIds) /\ ~(x <= j)
        BY <3>3, <3>4, <4>0
      <4>2. j \notin T
        BY <3>2, <4>1
      <4>3. PluginIds[j] \in Plugins
        BY <4>1, PluginIdsFacts
      <4> QED BY <2>2, <2>3, <4>1, <4>2, <4>3
    <3>5. PluginIds[x] \in ToVisit
      BY <1>1, <3>3, <3>4 DEF ToVisit
    <3> QED BY <1>1, <3>5
  <2> QED BY <2>4, <2>5
<1>5. Sorted(pluginVisit.order)
  BY <1>4 DEF Sorted, HostInv, SearchInv, SearchOf
<1>6. OrderInv'
  BY <1>1, <1>3, <1>5 DEF OrderInv, Sorted
<1>7. SearchInv'
  <2>1. (pluginVisit = NoVisit)' => SearchInv'
    BY NoVisitSearch, PTL
  <2> QED BY <1>1, <2>1 DEF NoVisit
<1>8. StartInv'
  <2>1. pluginOperation.plugin \notin Plugins
    BY <1>1, PluginAssumption DEF HostInv, PluginInHand
  <2>2. pluginState' = pluginState
    BY <1>1
  <2> QED BY <1>2, <1>3, <1>5, <2>1, <2>2 DEF StartInv, Sorted
<1>9. pluginOperation' \in [name : {"startAll"}, step : {"order", "refused", "next"}, plugin : {pluginOperation.plugin}, queue : Seq(Plugins)]
  BY <1>3
<1>10. PluginTypeOK'
  <2>1. pluginVisit' \in [state : [Plugins -> 0..2], stack : Seq(Plugins), order : Seq(Plugins)]
    BY <1>1, NoVisitTyped
  <2>2. pluginOperation' \in [name : OperationNames, step : OperationSteps, plugin : Plugins \cup {Nobody}, queue : Seq(Plugins)]
    BY <1>3 DEF OperationNames, OperationSteps
  <2>3. pluginOrder' \in Seq(Plugins)
    BY <1>1
  <2>4. \A p \in Plugins : pluginState'[p] # "stopping"
    BY <1>1, <1>2
  <2> QED BY <1>1, <1>9, <2>1, <2>2, <2>3, <2>4, SearchFrame DEF PluginTypeOK
<1> QED BY <1>1, <1>6, <1>7, <1>8, <1>9, <1>10, SearchFrame DEF HostInv


LEMMA StartAllStep ==
  ASSUME HostInv, StartAll
  PROVE  HostInv'
<1> USE OperationFacts
<1>1. /\ pluginOperation = NoOperation /\ pluginOrder = <<>> /\ \A p \in Plugins : pluginState[p] = "new"
      /\ pluginOperation' = [name |-> "startAll", step |-> "order", plugin |-> Nobody, queue |-> <<>>]
      /\ UNCHANGED <<pluginNeeds, pluginVisit, pluginOrder, pluginState, pluginScope, capabilityOwner>>
  BY DEF StartAll, NoOperation
<1>2. pluginOperation.plugin = Nobody /\ pluginOperation.step = "none"
  BY <1>1 DEF NoOperation
<1>3. SearchInv' /\ DependenciesRun' /\ ToolsUnambiguous' /\ \A c \in CoreCapabilities : capabilityOwner'[c] = CoreOwner
  BY <1>1 DEF HostInv, SearchInv, SearchOf, DependenciesRun, ToolsUnambiguous
<1>4. OrderInv' /\ StartInv' /\ PluginInHand'
  BY <1>1 DEF HostInv, OrderInv, StartInv, PluginInHand, Loading
<1>5. ScopeInv'
  BY <1>1, <1>2 DEF HostInv, ScopeInv, Loading
<1>6. PluginTypeOK'
  <2>1. pluginOperation' \in [name : OperationNames, step : OperationSteps, plugin : Plugins \cup {Nobody}, queue : Seq(Plugins)]
    BY <1>1 DEF OperationNames, OperationSteps
  <2> QED BY <1>1, <2>1 DEF HostInv, PluginTypeOK
<1> QED BY <1>3, <1>4, <1>5, <1>6 DEF HostInv

-----------------------------------------------------------------------------
(* Loading and unloading *)

\* What every step outside dependencyOrder leaves alone.
LEMMA OutsideSearch ==
  ASSUME HostInv, UNCHANGED <<pluginNeeds, pluginVisit, pluginOrder>>, pluginOperation'.step \notin {"order", "refused"}
  PROVE  SearchInv' /\ OrderInv'
<1>0. SearchInv /\ OrderInv /\ pluginNeeds' = pluginNeeds /\ pluginVisit' = pluginVisit /\ pluginOrder' = pluginOrder
  BY DEF HostInv
<1>1. SearchInv'
  BY <1>0 DEF SearchInv
<1>2. OrderInv'
  BY <1>0 DEF OrderInv, Sorted
<1> QED BY <1>1, <1>2

\* The types of the operation that goes on.
LEMMA ContinueTyped ==
  ASSUME HostInv
  PROVE  /\ ContinueOperation \in [name : OperationNames, step : OperationSteps, plugin : Plugins \cup {Nobody}, queue : Seq(Plugins)]
         /\ ContinueOperation.step \in {"none", "next"} /\ ContinueOperation.plugin = Nobody
         /\ ContinueOperation.name = "startAll" =>
                pluginOperation.name = "startAll" /\ ContinueOperation.queue = pluginOperation.queue
<1> USE OperationFacts
<1>1. CASE pluginOperation.name \in {"startAll", "close"}
  <2>1. ContinueOperation = [name |-> pluginOperation.name, step |-> "next", plugin |-> Nobody, queue |-> pluginOperation.queue]
    BY <1>1 DEF ContinueOperation
  <2> QED BY <2>1 DEF OperationNames, OperationSteps
<1>2. CASE pluginOperation.name \notin {"startAll", "close"}
  <2>1. ContinueOperation = [name |-> "none", step |-> "none", plugin |-> Nobody, queue |-> <<>>]
    BY <1>2 DEF ContinueOperation, NoOperation
  <2> QED BY <2>1 DEF OperationNames, OperationSteps
<1> QED BY <1>1, <1>2

\* PluginContext.Close with the end of its plugin.
LEMMA ReleaseFacts ==
  ASSUME HostInv, NEW p \in Plugins,
         capabilityOwner' = ReleasedOwners(p), pluginScope' = [pluginScope EXCEPT ![p] = EmptyScope]
  PROVE  /\ capabilityOwner' \in [AllCapabilities -> Plugins \cup {CoreOwner, Nobody}]
         /\ pluginScope' \in [Plugins -> [capabilities : SUBSET AllCapabilities, tools : SUBSET ToolIds]]
         /\ pluginScope'[p] = EmptyScope /\ \A q \in Plugins \ {p} : pluginScope'[q] = pluginScope[q]
         /\ \A c \in AllCapabilities : capabilityOwner'[c] \in Plugins =>
                capabilityOwner'[c] # p /\ c \in pluginScope'[capabilityOwner'[c]].capabilities
         /\ \A c \in CoreCapabilities : capabilityOwner'[c] = CoreOwner
<1>1. /\ capabilityOwner \in [AllCapabilities -> Plugins \cup {CoreOwner, Nobody}]
      /\ pluginScope \in [Plugins -> [capabilities : SUBSET AllCapabilities, tools : SUBSET ToolIds]]
      /\ \A c \in AllCapabilities : capabilityOwner[c] \in Plugins => c \in pluginScope[capabilityOwner[c]].capabilities
      /\ \A c \in CoreCapabilities : capabilityOwner[c] = CoreOwner
  BY DEF HostInv, PluginTypeOK, ScopeInv
<1>2. /\ capabilityOwner' \in [AllCapabilities -> Plugins \cup {CoreOwner, Nobody}]
      /\ \A c \in AllCapabilities : capabilityOwner'[c] =
            IF c \in pluginScope[p].capabilities /\ capabilityOwner[c] = p THEN Nobody ELSE capabilityOwner[c]
  BY <1>1 DEF ReleasedOwners
<1>3. EmptyScope \in [capabilities : SUBSET AllCapabilities, tools : SUBSET ToolIds]
  BY DEF EmptyScope
<1>4. /\ pluginScope' \in [Plugins -> [capabilities : SUBSET AllCapabilities, tools : SUBSET ToolIds]]
      /\ pluginScope'[p] = EmptyScope /\ \A q \in Plugins \ {p} : pluginScope'[q] = pluginScope[q]
  BY <1>1, <1>3
<1>5. ASSUME NEW c \in AllCapabilities, capabilityOwner'[c] \in Plugins
      PROVE  capabilityOwner'[c] # p /\ c \in pluginScope'[capabilityOwner'[c]].capabilities
  <2>1. ~(c \in pluginScope[p].capabilities /\ capabilityOwner[c] = p)
    BY <1>2, <1>5, PluginAssumption
  <2>2. capabilityOwner'[c] = capabilityOwner[c] /\ capabilityOwner[c] \in Plugins
    BY <1>2, <1>5, <2>1
  <2>3. capabilityOwner[c] # p /\ c \in pluginScope[capabilityOwner[c]].capabilities
    BY <1>1, <2>1, <2>2
  <2> QED BY <1>4, <2>2, <2>3
<1>6. ASSUME NEW c \in CoreCapabilities PROVE capabilityOwner'[c] = CoreOwner
  <2>1. c \in AllCapabilities
    BY DEF AllCapabilities
  <2> QED BY <1>1, <1>2, <2>1, PluginAssumption
<1> QED BY <1>2, <1>4, <1>5, <1>6

\* A plugin that was not running ends without its scope: nothing that runs
\* depended on it.
LEMMA EndOfPlugin ==
  ASSUME HostInv, NEW p \in Plugins, pluginState[p] # "running", p = pluginOperation.plugin,
         NEW end \in {"failed", "unloaded"},
         pluginState' = [pluginState EXCEPT ![p] = end],
         capabilityOwner' = ReleasedOwners(p), pluginScope' = [pluginScope EXCEPT ![p] = EmptyScope],
         UNCHANGED <<pluginNeeds, pluginVisit, pluginOrder>>,
         pluginOperation' \in [name : OperationNames, step : OperationSteps, plugin : Plugins \cup {Nobody}, queue : Seq(Plugins)],
         \/ pluginOperation'.step \in {"none", "next"} /\ pluginOperation'.plugin = Nobody
         \/ pluginOperation'.step = "load" /\ pluginOperation'.plugin = p,
         pluginOperation'.name = "startAll" => pluginOperation.name = "startAll" /\ pluginOperation'.queue = pluginOperation.queue
                                               /\ pluginOperation'.plugin = Nobody
  PROVE  HostInv'
<1>1. /\ pluginState \in [Plugins -> PluginStates]
      /\ \A q \in Plugins : pluginState[q] = "stopping" => pluginOperation.step = "stop" /\ pluginOperation.plugin = q
  BY DEF HostInv, PluginTypeOK
<1>2. /\ pluginState' \in [Plugins -> PluginStates] /\ pluginState'[p] = end /\ \A q \in Plugins \ {p} : pluginState'[q] = pluginState[q]
  BY <1>1 DEF PluginStates
<1>3. \A q \in Plugins : pluginState'[q] # "stopping"
  BY <1>1, <1>2
<1>4. PluginTypeOK'
  <2>1. pluginVisit' \in [state : [Plugins -> 0..2], stack : Seq(Plugins), order : Seq(Plugins)] /\ pluginOrder' \in Seq(Plugins)
    BY DEF HostInv, PluginTypeOK
  <2> QED BY <1>2, <1>3, <2>1, ReleaseFacts DEF PluginTypeOK
<1>5. SearchInv' /\ OrderInv'
  BY OutsideSearch
<1>6. StartInv'
  <2>1. CASE pluginOperation'.name = "startAll"
    <3>1. /\ \A i \in 1..Len(pluginOperation.queue) : pluginState[pluginOperation.queue[i]] = "new" /\ pluginOperation.queue[i] # p
          /\ \A i, j \in 1..Len(pluginOperation.queue) : pluginOperation.queue[i] = pluginOperation.queue[j] => i = j
      BY <2>1 DEF HostInv, StartInv
    <3>2. \A i \in 1..Len(pluginOperation.queue) : pluginOperation.queue[i] \in Plugins
      BY OperationFacts, ElementOfSeq
    <3>3. \A i \in 1..Len(pluginOperation.queue) : pluginState'[pluginOperation.queue[i]] = "new"
      BY <1>2, <3>1, <3>2
    <3>4. pluginOperation'.queue = pluginOperation.queue /\ pluginOperation'.plugin \notin Plugins /\ pluginOperation'.step \notin {"order", "refused"}
      BY <2>1, PluginAssumption
    <3> QED BY <3>1, <3>2, <3>3, <3>4 DEF StartInv
  <2> QED BY <2>1 DEF StartInv
<1>7. PluginInHand'
  BY <1>2 DEF PluginInHand, Loading
<1>8. ScopeInv'
  <2>1. ASSUME NEW q \in Plugins
        PROVE  pluginState'[q] \in {"running", "stopping"} \/ pluginScope'[q] = EmptyScope
    BY <1>2, ReleaseFacts, ZenonT(30) DEF HostInv, ScopeInv
  <2> QED BY <2>1, ReleaseFacts DEF ScopeInv
<1>9. DependenciesRun'
  <2>1. ASSUME NEW q \in Plugins, pluginState'[q] = "running", NEW d \in pluginNeeds[q] PROVE d \in Plugins /\ pluginState'[d] = "running"
    <3>1. q # p /\ pluginState[q] = "running"
      BY <1>2, <2>1
    <3>2. d \in Plugins /\ pluginState[d] = "running"
      BY <2>1, <3>1 DEF HostInv, DependenciesRun
    <3>3. d # p
      BY <3>2
    <3> QED BY <1>2, <3>2, <3>3
  <2> QED BY <2>1 DEF DependenciesRun
<1>10. ToolsUnambiguous'
  <2>1. \A q \in Plugins : pluginState'[q] = "running" => pluginState[q] = "running" /\ pluginScope'[q] = pluginScope[q]
    BY <1>2, ReleaseFacts
  <2> QED BY <2>1 DEF HostInv, ToolsUnambiguous
<1> QED BY <1>4, <1>5, <1>6, <1>7, <1>8, <1>9, <1>10, ReleaseFacts DEF HostInv


LEMMA FailLoadStep ==
  ASSUME HostInv, pluginOperation.step \in {"load", "register", "validate"}, FailLoad,
         UNCHANGED <<pluginNeeds, pluginVisit, pluginOrder>>
  PROVE  HostInv'
<1>1. pluginOperation.plugin \in Plugins /\ pluginState[pluginOperation.plugin] # "running"
  BY DEF HostInv, PluginInHand
<1>2. /\ pluginState' = [pluginState EXCEPT ![pluginOperation.plugin] = "failed"]
      /\ capabilityOwner' = ReleasedOwners(pluginOperation.plugin)
      /\ pluginScope' = [pluginScope EXCEPT ![pluginOperation.plugin] = EmptyScope]
      /\ pluginOperation' = ContinueOperation
  BY DEF FailLoad
<1> QED BY <1>1, <1>2, ContinueTyped, EndOfPlugin

LEMMA FinishUnloadStep ==
  ASSUME HostInv, NEW clean \in BOOLEAN, FinishUnload(clean)
  PROVE  HostInv'
<1>1. PICK p, end : p = pluginOperation.plugin /\ end = IF clean THEN "unloaded" ELSE "failed"
  OBVIOUS
<1>2. /\ pluginOperation.step = "stop" /\ pluginState' = [pluginState EXCEPT ![p] = end]
      /\ capabilityOwner' = ReleasedOwners(p) /\ pluginScope' = [pluginScope EXCEPT ![p] = EmptyScope]
      /\ pluginOperation' = IF pluginOperation.name = "reload" /\ clean THEN [pluginOperation EXCEPT !.step = "load"] ELSE ContinueOperation
      /\ UNCHANGED <<pluginNeeds, pluginVisit, pluginOrder>>
  BY <1>1 DEF FinishUnload
<1>3. p \in Plugins /\ pluginState[p] # "running" /\ end \in {"failed", "unloaded"}
  BY <1>1, <1>2 DEF HostInv, PluginInHand
<1>4. CASE pluginOperation.name = "reload" /\ clean
  <2>1. /\ pluginOperation'.name = "reload" /\ pluginOperation'.step = "load" /\ pluginOperation'.plugin = p
        /\ pluginOperation' = [name |-> "reload", step |-> "load", plugin |-> p, queue |-> pluginOperation.queue]
    BY <1>1, <1>2, <1>4, OperationFacts
  <2>2. pluginOperation' \in [name : OperationNames, step : OperationSteps, plugin : Plugins \cup {Nobody}, queue : Seq(Plugins)]
    BY <1>3, <2>1, OperationFacts DEF OperationNames, OperationSteps
  <2> QED BY <1>1, <1>2, <1>3, <2>1, <2>2, EndOfPlugin
<1>5. CASE ~(pluginOperation.name = "reload" /\ clean)
  <2>1. pluginOperation' = ContinueOperation
    BY <1>2, <1>5
  <2> QED BY <1>1, <1>2, <1>3, <2>1, ContinueTyped, EndOfPlugin
<1> QED BY <1>4, <1>5

\* A step of the operation that changes neither states nor scopes.
LEMMA OperationMoves ==
  ASSUME HostInv, UNCHANGED <<pluginNeeds, pluginVisit, pluginOrder, pluginState, pluginScope, capabilityOwner>>,
         pluginOperation.step \notin Loading \cup {"stop"},
         pluginOperation' \in [name : OperationNames, step : OperationSteps, plugin : Plugins \cup {Nobody}, queue : Seq(Plugins)],
         StartInv', PluginInHand', pluginOperation'.step \notin {"order", "refused"}
  PROVE  HostInv'
<1>1. SearchInv' /\ OrderInv'
  BY OutsideSearch
<1>2. /\ pluginNeeds' = pluginNeeds /\ pluginVisit' = pluginVisit /\ pluginOrder' = pluginOrder /\ pluginState' = pluginState
      /\ pluginScope' = pluginScope /\ capabilityOwner' = capabilityOwner
  OBVIOUS
<1>3. PluginTypeOK'
  BY <1>2 DEF HostInv, PluginTypeOK, Loading
<1>4. ScopeInv'
  BY <1>2 DEF HostInv, ScopeInv
<1>5. DependenciesRun' /\ ToolsUnambiguous' /\ \A c \in CoreCapabilities : capabilityOwner'[c] = CoreOwner
  BY <1>2 DEF HostInv, DependenciesRun, ToolsUnambiguous
<1> QED BY <1>1, <1>3, <1>4, <1>5 DEF HostInv

LEMMA StartOperationStep ==
  ASSUME HostInv, NEW name \in {"unload", "reload", "close"}, NEW p \in Plugins \cup {Nobody}, NEW queue \in Seq(Plugins),
         NEW step \in {"unload", "next"}, step = "unload" => p \in Plugins, StartOperation(name, p, queue, step)
  PROVE  HostInv'
<1>1. /\ pluginOperation = NoOperation /\ pluginOperation' = [name |-> name, step |-> step, plugin |-> p, queue |-> queue]
      /\ UNCHANGED <<pluginNeeds, pluginVisit, pluginOrder, pluginState, pluginScope, capabilityOwner>>
  BY DEF StartOperation
<1>2. pluginOperation.step = "none"
  BY <1>1 DEF NoOperation
<1>3. pluginOperation' \in [name : OperationNames, step : OperationSteps, plugin : Plugins \cup {Nobody}, queue : Seq(Plugins)]
  BY <1>1 DEF OperationNames, OperationSteps
<1>4. StartInv' /\ PluginInHand' /\ pluginOperation'.step \notin {"order", "refused"}
  BY <1>1 DEF StartInv, PluginInHand, Loading
<1> QED BY <1>1, <1>2, <1>3, <1>4, OperationMoves DEF Loading

LEMMA ReverseTyped ==
  ASSUME NEW S, NEW s \in Seq(S)
  PROVE  Reverse(s) \in Seq(S)
<1>1. Len(s) \in Nat
  BY LenProperties
<1>2. ASSUME NEW i \in 1..Len(s) PROVE s[(Len(s) - i) + 1] \in S
  <2>1. (Len(s) - i) + 1 \in 1..Len(s)
    BY <1>1
  <2> QED BY <2>1, ElementOfSeq
<1>3. Reverse(s) \in [1..Len(s) -> S]
  BY <1>2 DEF Reverse
<1> QED BY <1>1, <1>3, IsASeq

LEMMA OtherStarts ==
  ASSUME HostInv, CloseHost \/ \E p \in Plugins : UnloadPlugin(p) \/ ReloadPlugin(p)
  PROVE  HostInv'
<1>1. CASE CloseHost
  <2>1. Reverse(pluginOrder) \in Seq(Plugins)
    BY ReverseTyped DEF HostInv, PluginTypeOK
  <2> QED BY <1>1, <2>1, StartOperationStep DEF CloseHost
<1>2. ASSUME NEW p \in Plugins, UnloadPlugin(p) PROVE HostInv'
  <2>1. StartOperation("unload", p, <<>>, "unload") /\ <<>> \in Seq(Plugins)
    BY <1>2 DEF UnloadPlugin
  <2>2. "unload" \in {"unload", "reload", "close"} /\ "unload" \in {"unload", "next"} /\ p \in Plugins \cup {Nobody}
    OBVIOUS
  <2> QED BY <2>1, <2>2, StartOperationStep, Zenon
<1>3. ASSUME NEW p \in Plugins, ReloadPlugin(p) PROVE HostInv'
  <2>1. StartOperation("reload", p, <<>>, "unload") /\ <<>> \in Seq(Plugins)
    BY <1>3 DEF ReloadPlugin
  <2>2. "reload" \in {"unload", "reload", "close"} /\ "unload" \in {"unload", "next"} /\ p \in Plugins \cup {Nobody}
    OBVIOUS
  <2> QED BY <2>1, <2>2, StartOperationStep, Zenon
<1> QED BY <1>1, <1>2, <1>3


LEMMA NextPluginStep ==
  ASSUME HostInv, NextPlugin
  PROVE  HostInv'
<1> USE OperationFacts
<1>1. PICK p, rest, queue : p = Head(queue) /\ rest = Tail(queue) /\ queue = pluginOperation.queue
  OBVIOUS
<1>2. pluginOperation.step = "next" /\ UNCHANGED <<pluginNeeds, pluginVisit, pluginOrder, pluginScope, capabilityOwner>>
  BY DEF NextPlugin
<1>3. CASE queue = <<>> /\ pluginOperation' = NoOperation /\ UNCHANGED pluginState
  <2>1. pluginOperation' = [name |-> "none", step |-> "none", plugin |-> Nobody, queue |-> <<>>]
    BY <1>3 DEF NoOperation
  <2>2. pluginOperation' \in [name : OperationNames, step : OperationSteps, plugin : Plugins \cup {Nobody}, queue : Seq(Plugins)]
    BY <2>1 DEF OperationNames, OperationSteps
  <2>3. StartInv' /\ PluginInHand' /\ pluginOperation'.step \notin {"order", "refused"}
    BY <2>1 DEF StartInv, PluginInHand, Loading
  <2> QED BY <1>2, <1>3, <2>2, <2>3, OperationMoves DEF Loading
<1>4. ASSUME queue # <<>>
      PROVE  /\ p \in Plugins /\ rest \in Seq(Plugins) /\ Len(queue) \in Nat /\ Len(rest) = Len(queue) - 1 /\ p = queue[1] /\ 1 \in 1..Len(queue)
             /\ \A i \in 1..Len(rest) : i + 1 \in 1..Len(queue) /\ i + 1 # 1 /\ rest[i] = queue[i + 1]
  <2>1. queue \in Seq(Plugins) /\ Len(queue) \in Nat /\ Len(queue) # 0
    BY <1>1, <1>4, LenProperties, EmptySeq
  <2>2. 1 \in 1..Len(queue) /\ p = queue[1]
    BY <1>1, <2>1
  <2>3. p \in Plugins
    BY <2>1, <2>2, ElementOfSeq
  <2>4. rest \in Seq(Plugins) /\ Len(rest) = Len(queue) - 1
    BY <1>1, <1>4, <2>1, HeadTailProperties
  <2>5. \A i \in 1..Len(rest) : i + 1 \in 1..Len(queue) /\ i + 1 # 1 /\ rest[i] = queue[i + 1]
    BY <1>1, <1>4, <2>1, <2>4, HeadTailProperties
  <2> QED BY <2>1, <2>2, <2>3, <2>4, <2>5
<1>5. ASSUME queue # <<>>, pluginOperation.name = "startAll"
      PROVE  /\ pluginState[p] = "new" /\ \A i \in 1..Len(rest) : pluginState[rest[i]] = "new" /\ rest[i] # p /\ rest[i] \in Plugins /\ rest[i] # pluginOperation.plugin
             /\ \A i, j \in 1..Len(rest) : rest[i] = rest[j] => i = j
  <2>1. /\ \A i \in 1..Len(queue) : pluginState[queue[i]] = "new" /\ queue[i] # pluginOperation.plugin
        /\ \A i, j \in 1..Len(queue) : queue[i] = queue[j] => i = j
    BY <1>1, <1>5 DEF HostInv, StartInv
  <2>2. pluginState[p] = "new"
    BY <1>4, <1>5, <2>1
  <2>3. \A i \in 1..Len(rest) : pluginState[rest[i]] = "new" /\ rest[i] # p /\ rest[i] # pluginOperation.plugin
    BY <1>4, <1>5, <2>1
  <2>4. \A i \in 1..Len(rest) : rest[i] \in Plugins
    BY <1>4, <1>5, ElementOfSeq
  <2>5. ASSUME NEW i \in 1..Len(rest), NEW j \in 1..Len(rest), rest[i] = rest[j] PROVE i = j
    <3>1. i + 1 = j + 1
      BY <1>4, <1>5, <2>1, <2>5
    <3> QED BY <3>1, <1>4, <1>5
  <2> QED BY <2>2, <2>3, <2>4, <2>5
<1>6. CASE /\ queue # <<>> /\ pluginOperation.name = "startAll" /\ UNCHANGED pluginState
           /\ pluginOperation' = [pluginOperation EXCEPT !.plugin = p, !.queue = rest, !.step = "load"]
  <2>1. pluginOperation' = [name |-> "startAll", step |-> "load", plugin |-> p, queue |-> rest]
    BY <1>6
  <2>2. pluginOperation' \in [name : OperationNames, step : OperationSteps, plugin : Plugins \cup {Nobody}, queue : Seq(Plugins)]
    BY <1>4, <1>6, <2>1 DEF OperationNames, OperationSteps
  <2>3. StartInv'
    BY <1>5, <1>6, <2>1 DEF StartInv
  <2>4. PluginInHand' /\ pluginOperation'.step \notin {"order", "refused"}
    BY <1>4, <1>5, <1>6, <2>1 DEF PluginInHand, Loading
  <2> QED BY <1>2, <1>6, <2>2, <2>3, <2>4, OperationMoves DEF Loading
<1>7. CASE /\ queue # <<>> /\ pluginOperation.name = "startAll"
           /\ pluginOperation' = [pluginOperation EXCEPT !.queue = rest] /\ pluginState' = [pluginState EXCEPT ![p] = "disabled"]
  <2>1. pluginOperation' = [name |-> "startAll", step |-> "next", plugin |-> pluginOperation.plugin, queue |-> rest]
    BY <1>2, <1>7
  <2>2. pluginOperation' \in [name : OperationNames, step : OperationSteps, plugin : Plugins \cup {Nobody}, queue : Seq(Plugins)]
    BY <1>4, <1>7, <2>1 DEF OperationNames, OperationSteps
  <2>3. /\ pluginState' \in [Plugins -> PluginStates] /\ pluginState'[p] = "disabled"
        /\ \A q \in Plugins \ {p} : pluginState'[q] = pluginState[q]
        /\ \A q \in Plugins : pluginState[q] # "stopping"
    <3>1. /\ pluginState \in [Plugins -> PluginStates]
          /\ \A q \in Plugins : pluginState[q] = "stopping" => pluginOperation.step = "stop" /\ pluginOperation.plugin = q
      BY DEF HostInv, PluginTypeOK
    <3> QED BY <1>2, <1>4, <1>7, <3>1 DEF PluginStates
  <2>4. StartInv'
    <3>1. \A i \in 1..Len(rest) : pluginState'[rest[i]] = "new"
      BY <1>5, <1>7, <2>3
    <3> QED BY <1>5, <1>7, <2>1, <3>1 DEF StartInv
  <2>5. PluginInHand'
    BY <2>1 DEF PluginInHand, Loading
  <2>6. SearchInv' /\ OrderInv'
    BY <1>2, <2>1, OutsideSearch
  <2>7. PluginTypeOK'
    BY <1>2, <2>2, <2>3 DEF HostInv, PluginTypeOK
  <2>8. pluginState[p] = "new"
    BY <1>5, <1>7
  <2>9. ScopeInv'
    <3>1. ASSUME NEW q \in Plugins PROVE pluginState'[q] \in {"running", "stopping"} \/ pluginScope'[q] = EmptyScope
      BY <1>2, <2>3, <2>8 DEF HostInv, ScopeInv, Loading
    <3> QED BY <1>2, <3>1 DEF HostInv, ScopeInv
  <2>10. \A q \in Plugins : pluginState'[q] = "running" <=> pluginState[q] = "running"
    BY <2>3, <2>8
  <2>11. DependenciesRun' /\ ToolsUnambiguous' /\ \A c \in CoreCapabilities : capabilityOwner'[c] = CoreOwner
    BY <1>2, <2>10 DEF HostInv, DependenciesRun, ToolsUnambiguous
  <2> QED BY <2>4, <2>5, <2>6, <2>7, <2>9, <2>11 DEF HostInv
<1>8. CASE /\ queue # <<>> /\ pluginOperation.name = "close" /\ UNCHANGED pluginState
           /\ pluginOperation' = [pluginOperation EXCEPT !.plugin = IF pluginState[p] = "running" THEN p ELSE Nobody, !.queue = rest,
                                                         !.step = IF pluginState[p] = "running" THEN "unload" ELSE "next"]
  <2>1. pluginOperation' = [name |-> "close", step |-> IF pluginState[p] = "running" THEN "unload" ELSE "next",
                            plugin |-> IF pluginState[p] = "running" THEN p ELSE Nobody, queue |-> rest]
    BY <1>8
  <2>2. pluginOperation' \in [name : OperationNames, step : OperationSteps, plugin : Plugins \cup {Nobody}, queue : Seq(Plugins)]
    BY <1>4, <1>8, <2>1 DEF OperationNames, OperationSteps
  <2>3. StartInv' /\ PluginInHand' /\ pluginOperation'.step \notin {"order", "refused"}
    BY <1>4, <1>8, <2>1 DEF StartInv, PluginInHand, Loading
  <2> QED BY <1>2, <1>8, <2>2, <2>3, OperationMoves DEF Loading
<1> QED BY <1>1, <1>3, <1>6, <1>7, <1>8 DEF NextPlugin


LEMMA BeginLoadStep ==
  ASSUME HostInv, BeginLoad
  PROVE  HostInv'
<1> USE OperationFacts
<1>1. pluginOperation.step = "load" /\ UNCHANGED <<pluginNeeds, pluginVisit, pluginOrder>>
  BY DEF BeginLoad
<1>2. CASE DependenciesMet(pluginOperation.plugin)
  <2>1. /\ pluginOperation' = [pluginOperation EXCEPT !.step = "register"]
        /\ UNCHANGED <<pluginState, pluginScope, capabilityOwner>>
    BY <1>2 DEF BeginLoad
  <2>2. pluginOperation' = [name |-> pluginOperation.name, step |-> "register", plugin |-> pluginOperation.plugin, queue |-> pluginOperation.queue]
    BY <2>1
  <2>3. pluginOperation' \in [name : OperationNames, step : OperationSteps, plugin : Plugins \cup {Nobody}, queue : Seq(Plugins)]
    BY <2>2 DEF OperationSteps
  <2>4. StartInv' /\ pluginOperation'.step \notin {"order", "refused"}
    BY <1>1, <2>1, <2>2 DEF HostInv, StartInv
  <2>5. PluginInHand'
    BY <1>1, <1>2, <2>1, <2>2 DEF HostInv, PluginInHand, Loading, DependenciesMet
  <2> QED BY <1>1, <2>1, <2>3, <2>4, <2>5, OperationMoves DEF Loading
<1>3. CASE ~DependenciesMet(pluginOperation.plugin)
  <2>1. FailLoad
    BY <1>3 DEF BeginLoad
  <2> QED BY <1>1, <2>1, FailLoadStep
<1> QED BY <1>2, <1>3

\* A step of Register or of the checks after it that changes only the scope of
\* the plugin in hand and who owns a capability.
LEMMA RegisterMoves ==
  ASSUME HostInv, pluginOperation.step = "register", UNCHANGED <<pluginNeeds, pluginVisit, pluginOrder, pluginState>>,
         NEW step \in Loading,
         pluginOperation' = [name |-> pluginOperation.name, step |-> step, plugin |-> pluginOperation.plugin, queue |-> pluginOperation.queue],
         pluginScope' \in [Plugins -> [capabilities : SUBSET AllCapabilities, tools : SUBSET ToolIds]],
         capabilityOwner' \in [AllCapabilities -> Plugins \cup {CoreOwner, Nobody}],
         \A q \in Plugins \ {pluginOperation.plugin} : pluginScope'[q] = pluginScope[q],
         \A c \in AllCapabilities : capabilityOwner'[c] \in Plugins => c \in pluginScope'[capabilityOwner'[c]].capabilities,
         \A c \in CoreCapabilities : capabilityOwner'[c] = CoreOwner
  PROVE  HostInv'
<1> USE OperationFacts
<1>1. step \in {"register", "validate"}
  BY DEF Loading
<1>2. pluginOperation' \in [name : OperationNames, step : OperationSteps, plugin : Plugins \cup {Nobody}, queue : Seq(Plugins)]
  BY <1>1 DEF OperationSteps
<1>3. /\ pluginOperation'.name = pluginOperation.name /\ pluginOperation'.step = step
      /\ pluginOperation'.plugin = pluginOperation.plugin /\ pluginOperation'.queue = pluginOperation.queue
  OBVIOUS
<1>4. pluginNeeds' = pluginNeeds /\ pluginVisit' = pluginVisit /\ pluginOrder' = pluginOrder /\ pluginState' = pluginState
  OBVIOUS
<1>5. pluginOperation.plugin \in Plugins /\ pluginState[pluginOperation.plugin] \notin {"running", "stopping"}
  BY DEF HostInv, PluginInHand
<1>6. SearchInv' /\ OrderInv'
  BY <1>1, <1>3, OutsideSearch
<1>7. PluginTypeOK'
  BY <1>2, <1>4 DEF HostInv, PluginTypeOK
<1>8. StartInv'
  BY <1>1, <1>3, <1>4 DEF HostInv, StartInv
<1>9. PluginInHand'
  BY <1>1, <1>3, <1>4 DEF HostInv, PluginInHand, Loading
<1>10. ScopeInv'
  <2>1. ASSUME NEW q \in Plugins
        PROVE  \/ pluginState'[q] \in {"running", "stopping"}
               \/ pluginOperation'.plugin = q /\ pluginOperation'.step \in Loading
               \/ pluginScope'[q] = EmptyScope
    BY <1>3, <1>4 DEF HostInv, ScopeInv
  <2> QED BY <2>1 DEF ScopeInv
<1>11. DependenciesRun'
  BY <1>4 DEF HostInv, DependenciesRun
<1>12. ToolsUnambiguous'
  <2>1. \A q \in Plugins : pluginState[q] = "running" => pluginScope'[q] = pluginScope[q]
    BY <1>5
  <2> QED BY <1>4, <2>1 DEF HostInv, ToolsUnambiguous
<1> QED BY <1>6, <1>7, <1>8, <1>9, <1>10, <1>11, <1>12 DEF HostInv

LEMMA HostTypes ==
  ASSUME HostInv
  PROVE  /\ pluginScope \in [Plugins -> [capabilities : SUBSET AllCapabilities, tools : SUBSET ToolIds]]
         /\ capabilityOwner \in [AllCapabilities -> Plugins \cup {CoreOwner, Nobody}]
         /\ pluginState \in [Plugins -> PluginStates]
         /\ \A c \in AllCapabilities : capabilityOwner[c] \in Plugins => c \in pluginScope[capabilityOwner[c]].capabilities
         /\ \A c \in CoreCapabilities : capabilityOwner[c] = CoreOwner
BY DEF HostInv, PluginTypeOK, ScopeInv

LEMMA ScopeWith ==
  ASSUME NEW C, NEW T, NEW scope \in [capabilities : C, tools : T], NEW caps
  PROVE  [capabilities |-> caps, tools |-> scope.tools] = [scope EXCEPT !.capabilities = caps]
OBVIOUS

LEMMA ProvideStep ==
  ASSUME HostInv, NEW c \in AllCapabilities, ProvideCapability(c)
  PROVE  HostInv'
<1> USE OperationFacts
<1>1. PICK p : p = pluginOperation.plugin
  OBVIOUS
<1>2. pluginOperation.step = "register" /\ UNCHANGED <<pluginNeeds, pluginVisit, pluginOrder>> /\ p \in Plugins
  BY <1>1 DEF ProvideCapability, HostInv, PluginInHand
<1>3. CASE MayProvide(p, c)
  <2>1. /\ capabilityOwner' = [capabilityOwner EXCEPT ![c] = p]
        /\ pluginScope' = [pluginScope EXCEPT ![p].capabilities = @ \cup {c}]
        /\ UNCHANGED <<pluginState, pluginOperation>>
    BY <1>1, <1>3 DEF ProvideCapability
  <2>2. PICK sc : sc = [capabilities |-> pluginScope[p].capabilities \cup {c}, tools |-> pluginScope[p].tools]
    OBVIOUS
  <2>3. sc \in [capabilities : SUBSET AllCapabilities, tools : SUBSET ToolIds]
    <3>1. pluginScope[p].capabilities \cup {c} \in SUBSET AllCapabilities /\ pluginScope[p].tools \in SUBSET ToolIds
      BY <1>2, HostTypes
    <3> QED BY <2>2, <3>1
  <2>4. pluginScope' = [pluginScope EXCEPT ![p] = sc]
    <3>1. pluginScope[p] \in [capabilities : SUBSET AllCapabilities, tools : SUBSET ToolIds]
      BY <1>2, HostTypes
    <3>2. sc = [pluginScope[p] EXCEPT !.capabilities = pluginScope[p].capabilities \cup {c}]
      <4>1. \A caps : [capabilities |-> caps, tools |-> pluginScope[p].tools] = [pluginScope[p] EXCEPT !.capabilities = caps]
        BY <3>1, ScopeWith
      <4>2. [capabilities |-> pluginScope[p].capabilities \cup {c}, tools |-> pluginScope[p].tools]
            = [pluginScope[p] EXCEPT !.capabilities = pluginScope[p].capabilities \cup {c}]
        BY ONLY <4>1, Zenon
      <4> QED BY ONLY <2>2, <4>2, Zenon
    <3> QED BY <2>1, <3>2
  <2>5. /\ pluginScope' \in [Plugins -> [capabilities : SUBSET AllCapabilities, tools : SUBSET ToolIds]]
        /\ pluginScope'[p] = sc /\ \A q \in Plugins \ {p} : pluginScope'[q] = pluginScope[q]
    BY <1>2, <2>3, <2>4, HostTypes
  <2>6. /\ capabilityOwner' \in [AllCapabilities -> Plugins \cup {CoreOwner, Nobody}]
        /\ capabilityOwner'[c] = p /\ \A k \in AllCapabilities \ {c} : capabilityOwner'[k] = capabilityOwner[k]
    BY <1>2, <2>1, HostTypes
  <2>7. ASSUME NEW k \in AllCapabilities, capabilityOwner'[k] \in Plugins PROVE k \in pluginScope'[capabilityOwner'[k]].capabilities
    <3>1. CASE k = c
      BY <2>2, <2>5, <2>6, <3>1
    <3>2. CASE k # c
      <4>1. capabilityOwner'[k] = capabilityOwner[k] /\ k \in pluginScope[capabilityOwner[k]].capabilities
        BY <2>6, <2>7, <3>2, HostTypes
      <4>2. CASE capabilityOwner[k] = p
        BY <2>2, <2>5, <4>1, <4>2
      <4>3. CASE capabilityOwner[k] # p
        BY <2>5, <2>7, <4>1, <4>3
      <4> QED BY <4>2, <4>3
    <3> QED BY <3>1, <3>2
  <2>8. ASSUME NEW k \in CoreCapabilities PROVE capabilityOwner'[k] = CoreOwner
    <3>1. k \in AllCapabilities /\ capabilityOwner[k] = CoreOwner
      BY HostTypes DEF AllCapabilities
    <3>2. k # c
      <4>1. CoreOwner # Nobody /\ CoreOwner # p
        BY <1>2, PluginAssumption DEF CoreOwner, Nobody
      <4> QED BY <1>3, <3>1, <4>1 DEF MayProvide
    <3> QED BY <2>6, <3>1, <3>2
  <2>9. "register" \in Loading
    BY DEF Loading
  <2>10. pluginOperation' = [name |-> pluginOperation.name, step |-> "register", plugin |-> pluginOperation.plugin, queue |-> pluginOperation.queue]
    BY <1>2, <2>1
  <2> QED BY <1>1, <1>2, <2>1, <2>5, <2>6, <2>7, <2>8, <2>9, <2>10, RegisterMoves
<1>4. CASE ~MayProvide(p, c)
  <2>1. FailLoad
    BY <1>1, <1>4 DEF ProvideCapability
  <2> QED BY <1>2, <2>1, FailLoadStep
<1> QED BY <1>3, <1>4

LEMMA FinishRegisterStep ==
  ASSUME HostInv, FinishRegister
  PROVE  HostInv'
<1> USE OperationFacts
<1>1. PICK p : p = pluginOperation.plugin
  OBVIOUS
<1>2. pluginOperation.step = "register" /\ UNCHANGED <<pluginNeeds, pluginVisit, pluginOrder>> /\ p \in Plugins
  BY <1>1 DEF FinishRegister, HostInv, PluginInHand
<1>3. CASE FailLoad
  BY <1>2, <1>3, FailLoadStep
<1>4. CASE /\ pluginScope' = [pluginScope EXCEPT ![p].tools = Contributes[p]]
           /\ pluginOperation' = [pluginOperation EXCEPT !.step = "validate"]
           /\ UNCHANGED <<pluginState, capabilityOwner>>
  <2>1. PICK sc : sc = [capabilities |-> pluginScope[p].capabilities, tools |-> Contributes[p]]
    OBVIOUS
  <2>2. sc \in [capabilities : SUBSET AllCapabilities, tools : SUBSET ToolIds]
    <3>1. pluginScope[p].capabilities \in SUBSET AllCapabilities /\ Contributes[p] \in SUBSET ToolIds
      BY <1>2, HostTypes DEF ToolIds
    <3> QED BY <2>1, <3>1
  <2>3. pluginScope' = [pluginScope EXCEPT ![p] = sc]
    <3>1. pluginScope[p] \in [capabilities : SUBSET AllCapabilities, tools : SUBSET ToolIds]
      BY <1>2, HostTypes
    <3>2. sc = [pluginScope[p] EXCEPT !.tools = Contributes[p]]
      BY <2>1, <3>1
    <3> QED BY <1>4, <3>2
  <2>4. /\ pluginScope' \in [Plugins -> [capabilities : SUBSET AllCapabilities, tools : SUBSET ToolIds]]
        /\ pluginScope'[p] = sc /\ \A q \in Plugins \ {p} : pluginScope'[q] = pluginScope[q]
    BY <1>2, <2>2, <2>3, HostTypes
  <2>5. ASSUME NEW k \in AllCapabilities, capabilityOwner'[k] \in Plugins PROVE k \in pluginScope'[capabilityOwner'[k]].capabilities
    <3>1. capabilityOwner'[k] = capabilityOwner[k] /\ k \in pluginScope[capabilityOwner[k]].capabilities
      BY <1>4, <2>5, HostTypes
    <3>2. CASE capabilityOwner[k] = p
      BY <2>1, <2>4, <3>1, <3>2
    <3>3. CASE capabilityOwner[k] # p
      BY <2>4, <2>5, <3>1, <3>3
    <3> QED BY <3>2, <3>3
  <2>6. "validate" \in Loading
    BY DEF Loading
  <2>7. pluginOperation' = [name |-> pluginOperation.name, step |-> "validate", plugin |-> pluginOperation.plugin, queue |-> pluginOperation.queue]
    BY <1>4
  <2> QED BY <1>1, <1>2, <1>4, <2>4, <2>5, <2>6, <2>7, HostTypes, RegisterMoves
<1> QED BY <1>1, <1>3, <1>4 DEF FinishRegister

LEMMA FinishLoadStep ==
  ASSUME HostInv, FinishLoad
  PROVE  HostInv'
<1> USE OperationFacts
<1>1. PICK p : p = pluginOperation.plugin
  OBVIOUS
<1>2. pluginOperation.step = "validate" /\ UNCHANGED <<pluginNeeds, pluginVisit, pluginOrder>> /\ p \in Plugins
  BY <1>1 DEF FinishLoad, HostInv, PluginInHand
<1>3. CASE ToolConflicts(p)
  <2>1. FailLoad
    BY <1>1, <1>3 DEF FinishLoad
  <2> QED BY <1>2, <2>1, FailLoadStep
<1>4. CASE ~ToolConflicts(p)
  <2>1. /\ pluginState' = [pluginState EXCEPT ![p] = "running"] /\ pluginOperation' = ContinueOperation
        /\ pluginScope' = pluginScope /\ capabilityOwner' = capabilityOwner
    BY <1>1, <1>4 DEF FinishLoad
  <2>2. /\ pluginState' \in [Plugins -> PluginStates] /\ pluginState'[p] = "running"
        /\ \A q \in Plugins \ {p} : pluginState'[q] = pluginState[q]
    BY <1>2, <2>1, HostTypes DEF PluginStates
  <2>3. /\ pluginOperation' \in [name : OperationNames, step : OperationSteps, plugin : Plugins \cup {Nobody}, queue : Seq(Plugins)]
        /\ pluginOperation'.step \in {"none", "next"} /\ pluginOperation'.plugin = Nobody
        /\ pluginOperation'.name = "startAll" => pluginOperation.name = "startAll" /\ pluginOperation'.queue = pluginOperation.queue
    BY <2>1, ContinueTyped
  <2>4. \A q \in Plugins : pluginState'[q] # "stopping"
    <3>1. \A q \in Plugins : pluginState[q] # "stopping"
      BY <1>2 DEF HostInv, PluginTypeOK
    <3> QED BY <2>2, <3>1
  <2>5. PluginTypeOK'
    BY <1>2, <2>1, <2>2, <2>3, <2>4 DEF HostInv, PluginTypeOK
  <2>6. SearchInv' /\ OrderInv'
    BY <1>2, <2>3, OutsideSearch
  <2>7. StartInv'
    <3>1. CASE pluginOperation'.name = "startAll"
      <4>1. /\ \A i \in 1..Len(pluginOperation.queue) : pluginState[pluginOperation.queue[i]] = "new" /\ pluginOperation.queue[i] # p
            /\ \A i, j \in 1..Len(pluginOperation.queue) : pluginOperation.queue[i] = pluginOperation.queue[j] => i = j
        BY <1>1, <2>3, <3>1 DEF HostInv, StartInv
      <4>2. \A i \in 1..Len(pluginOperation.queue) : pluginOperation.queue[i] \in Plugins
        BY ElementOfSeq
      <4>3. \A i \in 1..Len(pluginOperation.queue) : pluginState'[pluginOperation.queue[i]] = "new"
        BY <2>2, <4>1, <4>2
      <4>4. pluginOperation'.queue = pluginOperation.queue /\ pluginOperation'.plugin \notin Plugins /\ pluginOperation'.step \notin {"order", "refused"}
        BY <2>3, <3>1, PluginAssumption
      <4> QED BY <4>1, <4>2, <4>3, <4>4 DEF StartInv
    <3> QED BY <3>1 DEF StartInv
  <2>8. PluginInHand'
    BY <2>3 DEF PluginInHand, Loading
  <2>9. ScopeInv'
    <3>1. ASSUME NEW q \in Plugins PROVE pluginState'[q] \in {"running", "stopping"} \/ pluginScope'[q] = EmptyScope
      BY <1>1, <2>1, <2>2 DEF HostInv, ScopeInv
    <3> QED BY <2>1, <3>1, HostTypes DEF ScopeInv
  <2>10. DependenciesRun'
    <3>1. ASSUME NEW q \in Plugins, pluginState'[q] = "running", NEW d \in pluginNeeds[q] PROVE d \in Plugins /\ pluginState'[d] = "running"
      <4>1. d \in Plugins /\ pluginState[d] = "running"
        <5>1. CASE q = p
          BY <1>1, <1>2, <3>1, <5>1 DEF HostInv, PluginInHand, Loading
        <5>2. CASE q # p
          BY <2>2, <3>1, <5>2 DEF HostInv, DependenciesRun
        <5> QED BY <5>1, <5>2
      <4> QED BY <2>2, <4>1
    <3> QED BY <1>2, <3>1 DEF DependenciesRun
  <2>11. ToolsUnambiguous'
    <3>1. ASSUME NEW q \in Plugins, NEW r \in Plugins, q # r, pluginState'[q] = "running", pluginState'[r] = "running"
          PROVE  pluginScope[q].tools \cap pluginScope[r].tools = {}
      <4>1. CASE q = p
        <5>1. pluginState[r] = "running"
          BY <2>2, <3>1, <4>1
        <5> QED BY <1>4, <3>1, <4>1, <5>1 DEF ToolConflicts
      <4>2. CASE r = p
        <5>1. pluginState[q] = "running"
          BY <2>2, <3>1, <4>2
        <5> QED BY <1>4, <3>1, <4>2, <5>1 DEF ToolConflicts
      <4>3. CASE q # p /\ r # p
        BY <2>2, <3>1, <4>3 DEF HostInv, ToolsUnambiguous
      <4> QED BY <4>1, <4>2, <4>3
    <3> QED BY <2>1, <3>1 DEF ToolsUnambiguous
  <2>12. \A c \in CoreCapabilities : capabilityOwner'[c] = CoreOwner
    BY <2>1, HostTypes
  <2> QED BY <2>5, <2>6, <2>7, <2>8, <2>9, <2>10, <2>11, <2>12 DEF HostInv
<1> QED BY <1>3, <1>4

LEMMA BeginUnloadStep ==
  ASSUME HostInv, BeginUnload
  PROVE  HostInv'
<1> USE OperationFacts
<1>1. PICK p : p = pluginOperation.plugin
  OBVIOUS
<1>2. pluginOperation.step = "unload" /\ UNCHANGED <<pluginNeeds, pluginVisit, pluginOrder, pluginScope, capabilityOwner>> /\ p \in Plugins
  BY <1>1 DEF BeginUnload, HostInv, PluginInHand
<1>3. CASE pluginState[p] = "running" /\ ~NeededByOthers(p)
  <2>1. /\ pluginState' = [pluginState EXCEPT ![p] = "stopping"]
        /\ pluginOperation' = [pluginOperation EXCEPT !.step = "stop"]
    BY <1>1, <1>3 DEF BeginUnload
  <2>2. /\ pluginState' \in [Plugins -> PluginStates] /\ pluginState'[p] = "stopping"
        /\ \A q \in Plugins \ {p} : pluginState'[q] = pluginState[q]
    BY <1>2, <2>1, HostTypes DEF PluginStates
  <2>3. /\ pluginOperation' = [name |-> pluginOperation.name, step |-> "stop", plugin |-> p, queue |-> pluginOperation.queue]
        /\ pluginOperation'.name = pluginOperation.name /\ pluginOperation'.step = "stop"
        /\ pluginOperation'.plugin = p /\ pluginOperation'.queue = pluginOperation.queue
    BY <1>1, <2>1
  <2>4. pluginOperation' \in [name : OperationNames, step : OperationSteps, plugin : Plugins \cup {Nobody}, queue : Seq(Plugins)]
    BY <1>2, <2>3 DEF OperationSteps
  <2>5. \A q \in Plugins : pluginState'[q] = "stopping" => q = p
    <3>1. \A q \in Plugins : pluginState[q] # "stopping"
      BY <1>2 DEF HostInv, PluginTypeOK
    <3> QED BY <2>2, <3>1
  <2>6. PluginTypeOK'
    BY <1>2, <2>2, <2>3, <2>4, <2>5 DEF HostInv, PluginTypeOK
  <2>7. SearchInv' /\ OrderInv'
    BY <1>2, <2>3, OutsideSearch
  <2>8. StartInv'
    <3>1. CASE pluginOperation.name = "startAll"
      <4>1. /\ \A i \in 1..Len(pluginOperation.queue) : pluginState[pluginOperation.queue[i]] = "new" /\ pluginOperation.queue[i] # p
            /\ \A i, j \in 1..Len(pluginOperation.queue) : pluginOperation.queue[i] = pluginOperation.queue[j] => i = j
        BY <1>1, <3>1 DEF HostInv, StartInv
      <4>2. \A i \in 1..Len(pluginOperation.queue) : pluginOperation.queue[i] \in Plugins
        BY ElementOfSeq
      <4>3. \A i \in 1..Len(pluginOperation.queue) : pluginState'[pluginOperation.queue[i]] = "new"
        BY <2>2, <4>1, <4>2
      <4> QED BY <2>3, <4>1, <4>2, <4>3 DEF StartInv
    <3> QED BY <2>3, <3>1 DEF StartInv
  <2>9. PluginInHand'
    BY <1>2, <2>2, <2>3 DEF PluginInHand, Loading
  <2>10. ScopeInv'
    <3>1. ASSUME NEW q \in Plugins PROVE pluginState'[q] \in {"running", "stopping"} \/ pluginScope'[q] = EmptyScope
      BY <1>2, <2>2 DEF HostInv, ScopeInv, Loading
    <3> QED BY <1>2, <3>1, HostTypes DEF ScopeInv
  <2>11. DependenciesRun'
    <3>1. ASSUME NEW q \in Plugins, pluginState'[q] = "running", NEW d \in pluginNeeds[q] PROVE d \in Plugins /\ pluginState'[d] = "running"
      <4>1. q # p /\ pluginState[q] = "running"
        BY <2>2, <3>1
      <4>2. d \in Plugins /\ pluginState[d] = "running"
        BY <3>1, <4>1 DEF HostInv, DependenciesRun
      <4>3. d # p
        BY <1>3, <3>1, <4>1 DEF NeededByOthers
      <4> QED BY <2>2, <4>2, <4>3
    <3> QED BY <1>2, <3>1 DEF DependenciesRun
  <2>12. ToolsUnambiguous'
    <3>1. \A q \in Plugins : pluginState'[q] = "running" => pluginState[q] = "running"
      BY <2>2
    <3> QED BY <1>2, <3>1 DEF HostInv, ToolsUnambiguous
  <2>13. \A c \in CoreCapabilities : capabilityOwner'[c] = CoreOwner
    BY <1>2, HostTypes
  <2> QED BY <2>6, <2>7, <2>8, <2>9, <2>10, <2>11, <2>12, <2>13 DEF HostInv
<1>4. CASE ~(pluginState[p] = "running" /\ ~NeededByOthers(p))
  <2>1. pluginState' = pluginState /\ pluginOperation' = ContinueOperation
    BY <1>1, <1>4 DEF BeginUnload
  <2>2. /\ pluginOperation' \in [name : OperationNames, step : OperationSteps, plugin : Plugins \cup {Nobody}, queue : Seq(Plugins)]
        /\ pluginOperation'.step \in {"none", "next"} /\ pluginOperation'.plugin = Nobody
        /\ pluginOperation'.name = "startAll" => pluginOperation.name = "startAll" /\ pluginOperation'.queue = pluginOperation.queue
    BY <2>1, ContinueTyped
  <2>3. StartInv'
    <3>1. CASE pluginOperation'.name = "startAll"
      <4>1. /\ \A i \in 1..Len(pluginOperation.queue) : pluginState[pluginOperation.queue[i]] = "new"
            /\ \A i, j \in 1..Len(pluginOperation.queue) : pluginOperation.queue[i] = pluginOperation.queue[j] => i = j
        BY <2>2, <3>1 DEF HostInv, StartInv
      <4>2. \A i \in 1..Len(pluginOperation.queue) : pluginOperation.queue[i] \in Plugins
        BY ElementOfSeq
      <4>3. pluginOperation'.queue = pluginOperation.queue /\ pluginOperation'.plugin \notin Plugins /\ pluginOperation'.step \notin {"order", "refused"}
        BY <2>2, <3>1, PluginAssumption
      <4> QED BY <2>1, <4>1, <4>2, <4>3 DEF StartInv
    <3> QED BY <3>1 DEF StartInv
  <2>4. PluginInHand'
    BY <2>2 DEF PluginInHand, Loading
  <2> QED BY <1>2, <2>1, <2>2, <2>3, <2>4, OperationMoves DEF Loading
<1> QED BY <1>3, <1>4

LEMMA HostStep == HostInv /\ [PluginNext]_pluginVars => HostInv'
<1> SUFFICES ASSUME HostInv, [PluginNext]_pluginVars PROVE HostInv'
  OBVIOUS
<1>1. CASE UNCHANGED pluginVars
  <2>1. /\ pluginNeeds' = pluginNeeds /\ pluginVisit' = pluginVisit /\ pluginOrder' = pluginOrder /\ pluginState' = pluginState
        /\ pluginScope' = pluginScope /\ capabilityOwner' = capabilityOwner /\ pluginOperation' = pluginOperation
    BY <1>1 DEF pluginVars
  <2>2. PluginTypeOK'
    BY <2>1 DEF HostInv, PluginTypeOK
  <2>3. SearchInv'
    <3>1. SearchInv
      BY DEF HostInv
    <3> QED BY <2>1, <3>1 DEF SearchInv
  <2>4. OrderInv'
    BY <2>1 DEF HostInv, OrderInv, Sorted, AcyclicGraph, AllRegistered
  <2>5. StartInv' /\ PluginInHand'
    BY <2>1 DEF HostInv, StartInv, PluginInHand
  <2>6. ScopeInv' /\ DependenciesRun' /\ ToolsUnambiguous' /\ \A c \in CoreCapabilities : capabilityOwner'[c] = CoreOwner
    BY <2>1 DEF HostInv, ScopeInv, DependenciesRun, ToolsUnambiguous
  <2> QED BY <2>2, <2>3, <2>4, <2>5, <2>6 DEF HostInv
<1>2. ASSUME NEW id, VisitPlugin(id) PROVE HostInv'
  BY <1>2, VisitRefusedStep, VisitDeeperStep
<1>3. CASE PluginNext
  BY <1>2, <1>3, StartAllStep, LeaveStep, FinishOrderStep, NextPluginStep, BeginLoadStep, FinishRegisterStep, FinishLoadStep,
     BeginUnloadStep, OtherStarts, ProvideStep, FinishUnloadStep DEF PluginNext
<1> QED BY <1>1, <1>3

\* The parts of HostIsConsistent that HostInv states in another form.
LEMMA HostInvImplies == HostInv => HostIsConsistent
<1> SUFFICES ASSUME HostInv PROVE HostIsConsistent
  OBVIOUS
<1>1. PluginTypeOK /\ DependenciesRun /\ ToolsUnambiguous
  BY DEF HostInv
<1>2. OrderIsTopological
  <2>1. pluginOperation.step = "refused" => pluginOrder = <<>> /\ ~(AcyclicGraph /\ AllRegistered)
    BY DEF HostInv, OrderInv
  <2>2. pluginOrder # <<>> => AcyclicGraph /\ AllRegistered /\ IsTopological(pluginOrder)
    BY SortedIsAcyclic DEF HostInv, OrderInv, PluginTypeOK
  <2>3. PICK s, o, v : s = pluginVisit.stack /\ o = pluginVisit.order /\ v = s \o o
    OBVIOUS
  <2>4. s \in Seq(Plugins) /\ o \in Seq(Plugins) /\ Len(s) \in Nat /\ Len(o) \in Nat
    BY <2>3, VisitFacts
  <2>5. /\ Len(v) = Len(s) + Len(o)
        /\ \A i \in 1..Len(v) : v[i] = IF i <= Len(s) THEN s[i] ELSE o[i - Len(s)]
    <3>1. /\ Len(s \o o) = Len(s) + Len(o)
          /\ \A i \in 1 .. Len(s) + Len(o) : (s \o o)[i] = IF i <= Len(s) THEN s[i] ELSE o[i - Len(s)]
      BY <2>4, ConcatProperties
    <3> QED BY <2>3, <3>1
  <2>6. /\ \A i, j \in 1..Len(s) : s[i] = s[j] => i = j
        /\ \A i, j \in 1..Len(o) : o[i] = o[j] => i = j
        /\ \A i \in 1..Len(s) : \A j \in 1..Len(o) : s[i] # o[j]
    <3>1. \A i \in 1..Len(s) : s[i] \in Plugins /\ pluginVisit.state[s[i]] = 1
      BY <2>3, VisitFacts DEF HostInv, SearchInv, SearchOf
    <3>2. \A i \in 1..Len(o) : pluginVisit.state[o[i]] = 2
      BY <2>3, VisitFacts DEF HostInv, SearchInv, SearchOf
    <3>3. /\ \A i, j \in 1..Len(s) : s[i] = s[j] => i = j
          /\ \A i, j \in 1..Len(o) : o[i] = o[j] => i = j
      BY <2>3 DEF HostInv, SearchInv, SearchOf
    <3>4. ASSUME NEW i \in 1..Len(s), NEW j \in 1..Len(o), s[i] = o[j] PROVE FALSE
      <4>1. pluginVisit.state[s[i]] = 1 /\ pluginVisit.state[s[i]] = 2
        BY <3>1, <3>2, <3>4
      <4> QED BY <4>1
    <3> QED BY <3>3, <3>4
  <2>7. ASSUME NEW i \in 1..Len(v), NEW j \in 1..Len(v), v[i] = v[j] PROVE i = j
    <3>1. CASE i <= Len(s) /\ j <= Len(s)
      BY <2>4, <2>5, <2>6, <2>7, <3>1
    <3>2. CASE i <= Len(s) /\ j > Len(s)
      <4>1. i \in 1..Len(s) /\ j - Len(s) \in 1..Len(o)
        BY <2>4, <2>5, <3>2
      <4> QED BY <2>4, <2>5, <2>6, <2>7, <3>2, <4>1
    <3>3. CASE i > Len(s) /\ j <= Len(s)
      <4>1. j \in 1..Len(s) /\ i - Len(s) \in 1..Len(o)
        BY <2>4, <2>5, <3>3
      <4> QED BY <2>4, <2>5, <2>6, <2>7, <3>3, <4>1
    <3>4. CASE i > Len(s) /\ j > Len(s)
      <4>1. j - Len(s) \in 1..Len(o) /\ i - Len(s) \in 1..Len(o)
        BY <2>4, <2>5, <3>4
      <4>2. ~(i <= Len(s)) /\ ~(j <= Len(s))
        BY <2>4, <2>5, <3>4
      <4>3. o[i - Len(s)] = o[j - Len(s)]
        BY <2>5, <2>7, <4>2
      <4>4. i - Len(s) = j - Len(s)
        BY <2>6, <4>1, <4>3
      <4> QED BY <2>4, <2>5, <4>4
    <3> QED BY <2>4, <2>5, <3>1, <3>2, <3>3, <3>4
  <2> QED BY <2>1, <2>2, <2>3, <2>7 DEF OrderIsTopological
<1>3. CapabilitiesOwned
  <2>1. ASSUME NEW c \in AllCapabilities, NEW p \in Plugins, capabilityOwner[c] = p
        PROVE  \/ pluginState[p] \in {"running", "stopping"}
               \/ pluginOperation.plugin = p /\ pluginOperation.step \in {"register", "validate"}
    <3>1. c \in pluginScope[p].capabilities
      BY <2>1, HostTypes
    <3>2. pluginScope[p] # EmptyScope
      BY <3>1 DEF EmptyScope
    <3> QED BY <3>2 DEF HostInv, ScopeInv, Loading
  <2> QED BY <2>1, HostTypes DEF CapabilitiesOwned
<1> QED BY <1>1, <1>2, <1>3 DEF HostIsConsistent

\* plugin_runtime.go: whatever the manifests declare and wherever Register,
\* Start and Stop fail, dependencyOrder returns an order only if the
\* dependencies have one and refuses only if they have none, a plugin that
\* runs finds its dependencies running, a capability belongs to the core or to
\* a plugin that is there, and no two plugins that run answer for one tool.
THEOREM HostConsistent == PluginSpec => []HostIsConsistent
<1>1. PluginInit => HostInv
  BY HostInitInv
<1>2. HostInv /\ [PluginNext]_pluginVars => HostInv'
  BY HostStep
<1>3. HostInv => HostIsConsistent
  BY HostInvImplies
<1> QED BY <1>1, <1>2, <1>3, PTL DEF PluginSpec

=============================================================================
