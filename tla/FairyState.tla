----------------------------- MODULE FairyState -----------------------------
(***************************************************************************)
(* Fairy's state file (server/internal/fairy/state.go): the management     *)
(* switches of groups and conversations and the counters of the daily      *)
(* model quota, kept in memory under one mutex and written to a file that  *)
(* is replaced as a whole.  Every call that changes the state assigns      *)
(* first, saves, and takes its assignments back if the save fails.         *)
(*                                                                         *)
(* The day a turn counts a model call for is read from the clock before    *)
(* the mutex is taken, so another turn may come in between.                *)
(***************************************************************************)
EXTENDS Naturals, FiniteSets

CONSTANTS
    Askers,        \* goroutines that ask for model calls
    ModelTasks,    \* planner, replyer, ...
    Chats,         \* groups, conversations and scopes of facts
    ModelLimit,    \* ModelDailyLimit
    TaskLimit,     \* DailyLimit of every task
    GroupDefault,  \* whether a group is enabled that nobody has set
    MaxDay         \* bound on the days that pass

ASSUME StateAssumption ==
    /\ ModelTasks # {}
    /\ ModelLimit \in Nat /\ TaskLimit \in Nat /\ MaxDay \in Nat \ {0}
    /\ GroupDefault \in BOOLEAN

VARIABLES
    memory,       \* s.state
    file,         \* what a restart would read; a missing file reads as Fresh
    softDefault,  \* s.softDefault
    today,        \* the UTC date
    asker,        \* the date and the task of a call on its way to the mutex
    granted,      \* history: calls allowed for a date, in all and of each task
    skewed        \* history: some call came with a date before the stored one

stateVars == <<memory, file, softDefault, today, asker, granted, skewed>>

\* GroupSoftMode; "" is a group whose mode nobody has set.
SoftModes == {"off", "shadow", "on"}
\* What a caller may ask for; validGroupSoftMode refuses the last.
AskedModes == SoftModes \cup {"loud"}
Days == 0..MaxDay

\* An entry of Groups, or Absent.
GroupStates == [known : BOOLEAN, enabled : BOOLEAN, mode : SoftModes \cup {""}]
Absent == [known |-> FALSE, enabled |-> FALSE, mode |-> ""]

\* Day 0 stands for no date.
persistedState ==
    [groups : [Chats -> GroupStates], contextDisabled : SUBSET Chats, facts : SUBSET Chats,
     quotaDate : Days, quotaCalls : Nat,
     taskDate : [ModelTasks -> Days], taskCalls : [ModelTasks -> Nat]]

Fresh ==
    [groups |-> [g \in Chats |-> Absent], contextDisabled |-> {}, facts |-> {},
     quotaDate |-> 0, quotaCalls |-> 0,
     taskDate |-> [t \in ModelTasks |-> 0], taskCalls |-> [t \in ModelTasks |-> 0]]

IdleAsker == [pc |-> "idle", date |-> 0, task |-> CHOOSE t \in ModelTasks : TRUE]

StateInit ==
    /\ memory = Fresh
    /\ file = Fresh
    /\ softDefault \in SoftModes
    /\ today = 1
    /\ asker = [a \in Askers |-> IdleAsker]
    /\ granted = [d \in Days |-> [all |-> 0, of |-> [t \in ModelTasks |-> 0]]]
    /\ skewed = FALSE

-----------------------------------------------------------------------------
(* The switches *)

GroupEnabled(g) == IF memory.groups[g].known THEN memory.groups[g].enabled ELSE GroupDefault
GroupSoftMode(g) ==
    IF memory.groups[g].known /\ memory.groups[g].mode # "" THEN memory.groups[g].mode ELSE softDefault

\* saveLocked: the file is written aside and renamed, so that it holds the new
\* state or the old one.  next is the state with the assignments of the caller,
\* back the state with what it takes back.
SaveLocked(next, back) ==
    \/ file' = next /\ memory' = next
    \/ file' = file /\ memory' = back

SetGroup(g, entry) ==
    LET next == [memory EXCEPT !.groups[g] = entry]
        back == IF memory.groups[g].known
                THEN [next EXCEPT !.groups[g] = memory.groups[g]]
                ELSE [next EXCEPT !.groups[g] = Absent]
    IN  /\ SaveLocked(next, back)
        /\ UNCHANGED <<softDefault, today, asker, granted, skewed>>

SetGroupEnabled(g, enabled) ==
    SetGroup(g, [memory.groups[g] EXCEPT !.known = TRUE, !.enabled = enabled])

SetGroupSoftMode(g, mode) ==
    /\ mode \in SoftModes
    /\ SetGroup(g, [known |-> TRUE, enabled |-> GroupEnabled(g), mode |-> mode])

SetSoftDefault(mode) ==
    /\ mode \in SoftModes
    /\ softDefault' = mode
    /\ UNCHANGED <<memory, file, today, asker, granted, skewed>>

SetContextEnabled(c, enabled) ==
    LET next == [memory EXCEPT !.contextDisabled = IF enabled THEN @ \ {c} ELSE @ \cup {c}]
        back == [next EXCEPT !.contextDisabled = IF c \in memory.contextDisabled
                                                 THEN @ \cup {c} ELSE @ \ {c}]
    IN  /\ SaveLocked(next, back)
        /\ UNCHANGED <<softDefault, today, asker, granted, skewed>>

SetFactMemoryEnabled(c, enabled) ==
    LET next == [memory EXCEPT !.facts = IF enabled THEN @ \cup {c} ELSE @ \ {c}]
        back == [next EXCEPT !.facts = IF c \in memory.facts THEN @ \cup {c} ELSE @ \ {c}]
    IN  /\ SaveLocked(next, back)
        /\ UNCHANGED <<softDefault, today, asker, granted, skewed>>

-----------------------------------------------------------------------------
(* The quota *)

\* takeModelQuota evaluates e.now() before it calls the store.
AskModelCall(a, t) ==
    /\ asker[a].pc = "idle"
    /\ asker' = [asker EXCEPT ![a] = [pc |-> "ask", date |-> today, task |-> t]]
    /\ UNCHANGED <<memory, file, softDefault, today, granted, skewed>>

UsedOn(date) == IF memory.quotaDate = date THEN memory.quotaCalls ELSE 0
TaskUsedOn(date, t) == IF memory.taskDate[t] = date THEN memory.taskCalls[t] ELSE 0

\* One more call is allowed for a date and a task.
OneMoreGranted(date, t) ==
    LET day == granted[date]
    IN  [granted EXCEPT ![date] = [all |-> day.all + 1, of |-> [day.of EXCEPT ![t] = @ + 1]]]

\* Variant: the call is allowed whether or not it could be counted.
TakeTaskModelCallUncounted(a) ==
    LET date == asker[a].date
        t == asker[a].task
        next == [memory EXCEPT !.quotaDate = date, !.quotaCalls = UsedOn(date) + 1,
                               !.taskDate[t] = date, !.taskCalls[t] = TaskUsedOn(date, t) + 1]
    IN  /\ asker[a].pc = "ask"
        /\ UsedOn(date) < ModelLimit /\ TaskUsedOn(date, t) < TaskLimit
        /\ SaveLocked(next, memory)
        /\ granted' = OneMoreGranted(date, t)
        /\ skewed' = (skewed \/ date < memory.quotaDate)
        /\ asker' = [asker EXCEPT ![a] = IdleAsker]
        /\ UNCHANGED <<softDefault, today>>

\* A call is refused when a quota is used up, and when it cannot be saved; a
\* date that is not the stored one starts both counters again.
TakeTaskModelCall(a) ==
    LET date == asker[a].date
        t == asker[a].task
        next == [memory EXCEPT !.quotaDate = date, !.quotaCalls = UsedOn(date) + 1,
                               !.taskDate[t] = date, !.taskCalls[t] = TaskUsedOn(date, t) + 1]
        back == [next EXCEPT !.quotaDate = memory.quotaDate, !.quotaCalls = memory.quotaCalls,
                             !.taskDate[t] = memory.taskDate[t], !.taskCalls[t] = memory.taskCalls[t]]
        allowed == UsedOn(date) < ModelLimit /\ TaskUsedOn(date, t) < TaskLimit
    IN  /\ asker[a].pc = "ask"
        /\ IF allowed
           THEN /\ SaveLocked(next, back)
                /\ granted' = IF memory' = next THEN OneMoreGranted(date, t) ELSE granted
                /\ skewed' = (skewed \/ date < memory.quotaDate)
           ELSE UNCHANGED <<memory, file, granted, skewed>>
        /\ asker' = [asker EXCEPT ![a] = IdleAsker]
        /\ UNCHANGED <<softDefault, today>>

-----------------------------------------------------------------------------
NextDay ==
    /\ today < MaxDay
    /\ today' = today + 1
    /\ UNCHANGED <<memory, file, softDefault, asker, granted, skewed>>

\* OpenStateStoreWithDefaults: a new process reads the file; softDefault comes
\* from the configuration.
StateRestart ==
    /\ memory' = file
    /\ softDefault' \in SoftModes
    /\ asker' = [a \in Askers |-> IdleAsker]
    /\ UNCHANGED <<file, today, granted, skewed>>

StateNext ==
    \/ \E g \in Chats, enabled \in BOOLEAN :
          SetGroupEnabled(g, enabled) \/ SetContextEnabled(g, enabled) \/ SetFactMemoryEnabled(g, enabled)
    \/ \E g \in Chats, mode \in AskedModes : SetGroupSoftMode(g, mode)
    \/ \E mode \in AskedModes : SetSoftDefault(mode)
    \/ \E a \in Askers, t \in ModelTasks : AskModelCall(a, t)
    \/ \E a \in Askers : TakeTaskModelCall(a)
    \/ NextDay
    \/ StateRestart

StateSpec == StateInit /\ [][StateNext]_stateVars

-----------------------------------------------------------------------------
(* Properties *)

\* The state and the quota counters hold values of their Go types.
StateTypeOK ==
    /\ memory \in persistedState /\ file \in persistedState
    /\ softDefault \in SoftModes
    /\ today \in Days
    /\ asker \in [Askers -> [pc : {"idle", "ask"}, date : Days, task : ModelTasks]]
    /\ granted \in [Days -> [all : Nat, of : [ModelTasks -> Nat]]]
    /\ skewed \in BOOLEAN

\* TakeTaskModelCall: no date allows more calls than the global limit, nor more
\* of a task than its own, across failed saves and restarts, as long as no turn
\* comes with yesterday's date after another came with today's.
QuotaRespected ==
    ~skewed => \A d \in Days : /\ granted[d].all <= ModelLimit
                               /\ \A t \in ModelTasks : granted[d].of[t] <= TaskLimit

\* saveLocked: a switch or a counter is in effect exactly if a restart would
\* bring it back; what could not be saved was taken back completely.
EffectiveIsDurable == memory = file

\* SetGroupEnabled and SetGroupSoftMode share a record: no step changes both
\* whether a group is enabled and which mode it has, unless the process restarts.
SwitchesAreIndependent ==
    [][\A g \in Chats : GroupEnabled(g)' = GroupEnabled(g) \/ GroupSoftMode(g)' = GroupSoftMode(g)]_stateVars

\* state.go: the quota holds, what is in force is what a restart reads, and a
\* switch is changed by the call that is meant to change it.
StateIsSafe == [](StateTypeOK /\ QuotaRespected /\ EffectiveIsDurable) /\ SwitchesAreIndependent
=============================================================================
