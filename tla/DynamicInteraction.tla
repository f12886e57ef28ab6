-------------------------- MODULE DynamicInteraction -------------------------
(***************************************************************************)
(* What a stored interaction event makes of a dynamic card: the policy that *)
(* admits the event, the reducers that fold all events of the card into    *)
(* the state shown to everybody, and the small projection of cards without *)
(* a reducer (internal/gateway/dynamic_interaction.go, handleDynamicEvent  *)
(* in internal/gateway/gateway.go).                                        *)
(*                                                                         *)
(* handleDynamicEvent holds the lock of the message, so an event is one    *)
(* step; DynamicMessage.tla is about the lock. Events are ordered by their *)
(* time and, when it is the same, by their identifier: a new event is not  *)
(* always the last one. At most EventLimit events are loaded, the oldest.  *)
(*                                                                         *)
(* Refused events change nothing and are no actions. Progress is counted   *)
(* in units of 1/10000, rounded down where the code has a float.           *)
(***************************************************************************)
EXTENDS Integers, Sequences, FiniteSets, SequencesExt

CONSTANTS
    Cards,          \* cards as they are sent: the fields of metadata.interaction and a button
    CardActors,     \* who sends events; "fairy" is an agent
    CardAuthor,     \* the sender of the card
    CardRoles,      \* the role of each actor in the group
    CardInputs,     \* what an event carries: option, value, action, item, completed
    CardEventIds,   \* numbers, in the order of the identifiers
    GroupSizes,     \* what dynamicInteractionTotal may find
    EventLimit,     \* maxDynamicInteractionEvents
    MaxCardEvents,  \* bound: stored events
    MaxCardTime     \* bound: clock

ASSUME CardAssumption ==
    /\ CardEventIds \subseteq Nat /\ GroupSizes \subseteq Nat \ {0} /\ EventLimit \in Nat /\ MaxCardTime \in Nat
    /\ IsFiniteSet(CardActors)
    /\ \A c \in Cards : c.quorum \in Int /\ c.button.parts \in Nat

VARIABLES
    card,        \* the card as sent
    stored,      \* rows of dynamic_interaction_events, in their order
    shown,       \* interaction_state of the stored card
    progress,    \* value of its progress node, for a card without a reducer
    groupSize,   \* members of the group
    cardTime,
    sizeSeen,    \* history: the size at the last event
    forFairy     \* history: events delivered to Fairy

cardVars == <<card, stored, shown, progress, groupSize, cardTime, sizeSeen, forFairy>>

----------------------------------------------------------------------------
(* parseDynamicInteractionConfig: what an absent field means *)

LegacyReducer(kind) ==
    CASE kind \in {"vote", "read", "ack"} -> "set_by_actor"
      [] kind = "approval" -> "approval_quorum"
      [] OTHER -> "none"

Reducer(c) == IF c.reducer = "" THEN LegacyReducer(c.kind) ELSE c.reducer
Response(c) ==
    IF c.response # "" THEN c.response
    ELSE IF Reducer(c) \in {"append", "counter", "state_machine", "none"} THEN "many" ELSE "once"
Visibility(c) == IF c.visibility = "" THEN "public_aggregate" ELSE c.visibility
Configured(c) == c.kind # "" \/ c.reducer # ""
ConfigAccepted(c) ==
    /\ Reducer(c) \in {"set_by_actor", "append", "counter", "checklist", "form", "approval_quorum",
                       "state_machine", "none"}
    /\ Response(c) \in {"once", "many"}
    /\ Visibility(c) \in {"public_aggregate", "public_detail", "admin_detail", "actor_only", "anonymous_aggregate"}
    /\ c.route \in {"", "manual", "on_close", "on_threshold", "each_event"}

----------------------------------------------------------------------------
(* Events *)

ActorKind(a) == IF a = "fairy" THEN "agent" ELSE "user"

\* The option, else the value, else the action of an event.
InteractionValue(e) ==
    IF e.option # "" THEN e.option ELSE IF e.value # "" THEN e.value ELSE e.action

IsPositive(v) == v \in {"approve", "yes", "checked", "true"}
IsNegative(v) == v \in {"reject", "no", "cancel", "false"}

EventBefore(e, f) == e.at < f.at \/ (e.at = f.at /\ e.id < f.id)

\* A stable sort of the loaded events with the new one behind them.
SortedWith(events, e) ==
    InsertAt(events, 1 + Cardinality({i \in DOMAIN events : ~ EventBefore(e, events[i])}), e)

LoadedEvents == SubSeq(stored, 1, IF Len(stored) < EventLimit THEN Len(stored) ELSE EventLimit)

\* Variant: the new event is put last without sorting.
EventsWithCandidateLast(e) == Append(LoadedEvents, e)

EventsWithCandidate(e) == SortedWith(LoadedEvents, e)

\* Variant: the first answer of an actor counts.
LatestByActorFirst(events) ==
    {i \in DOMAIN events : \A j \in DOMAIN events : events[j].actor = events[i].actor => j >= i}

LatestByActor(events) ==
    {i \in DOMAIN events : \A j \in DOMAIN events : events[j].actor = events[i].actor => j <= i}

CountOf(events, chosen, v) == Cardinality({i \in chosen : InteractionValue(events[i]) = v})
CountsOf(events, chosen) ==
    [v \in {InteractionValue(events[i]) : i \in chosen} |-> CountOf(events, chosen, v)]

NormalizedTotal(configured, observed) ==
    LET most == IF configured < observed THEN observed ELSE configured
    IN IF most < 1 THEN 1 ELSE most

----------------------------------------------------------------------------
(* The reducers *)

NoCounts == [v \in {} |-> 0]
Reduction(responded, total, status, closed, counts, current) ==
    [responded |-> responded, total |-> NormalizedTotal(total, responded), status |-> status,
     closed |-> closed, counts |-> counts, current |-> current]

ReduceSetByActor(events, total) ==
    LET latest == LatestByActor(events)
    IN Reduction(Cardinality(latest), total, "active", FALSE, CountsOf(events, latest), "")

ReduceAppend(events, total) == Reduction(Len(events), total, "active", FALSE, NoCounts, "")

ReduceCounter(c, events, total) ==
    LET chosen == IF Response(c) = "once" THEN LatestByActor(events) ELSE DOMAIN events
    IN Reduction(Cardinality(chosen), total, "active", FALSE, CountsOf(events, chosen), "")

\* The last event of an actor for an item says whether it is done.
ChecklistItem(e) == IF e.item # "" THEN e.item ELSE InteractionValue(e)
ItemDone(e) == IF e.completed # "" THEN e.completed = "true" ELSE IsPositive(e.action)
ReduceChecklist(events, total) ==
    LET latest == {i \in DOMAIN events : \A j \in DOMAIN events :
                     events[j].actor = events[i].actor /\ ChecklistItem(events[j]) = ChecklistItem(events[i]) => j <= i}
        done == {i \in latest : ItemDone(events[i])}
        items == [v \in {ChecklistItem(events[i]) : i \in done} |->
                    Cardinality({i \in done : ChecklistItem(events[i]) = v})]
    IN Reduction(Cardinality({events[i].actor : i \in latest}), total, "active", FALSE, items, "")

ReduceForm(events, total) ==
    Reduction(Cardinality(LatestByActor(events)), total, "active", FALSE, NoCounts, "")

\* A single response closes an old card; otherwise one refusal, where it is a
\* veto, or enough approvals. Nothing looks at whether it was closed before.
ReduceApprovalQuorum(c, events, total) ==
    LET latest == LatestByActor(events)
        approved == Cardinality({i \in latest : IsPositive(InteractionValue(events[i]))})
        rejected == Cardinality({i \in latest : IsNegative(InteractionValue(events[i]))})
        most == NormalizedTotal(total, Cardinality(latest))
        quorum == IF c.quorum <= 0 THEN most ELSE c.quorum
        final == InteractionValue(events[Len(events)])
        status == IF c.closeOnResponse /\ latest # {}
                    THEN IF final = "modify" THEN "pending"
                         ELSE IF IsNegative(final) THEN "rejected" ELSE "approved"
                  ELSE IF c.veto /\ rejected > 0 THEN "rejected"
                  ELSE IF approved >= quorum THEN "approved" ELSE "pending"
    IN Reduction(Cardinality(latest), total, status, status # "pending", CountsOf(events, latest), "")

\* Where the events lead from the initial state: "" when one is not allowed.
StepState(c, state, v) ==
    IF state = "" \/ v = "" THEN state
    ELSE IF c.transitions # {} /\ <<state, v>> \notin c.transitions THEN "" ELSE v
InitialState(c) == IF c.initial = "" THEN "open" ELSE c.initial
StatesAlong(c, events) ==
    LET state[n \in 0 .. Len(events)] ==
          IF n = 0 THEN InitialState(c) ELSE StepState(c, state[n - 1], InteractionValue(events[n]))
    IN state
StateReached(c, events) == StatesAlong(c, events)[Len(events)]
ReduceStateMachine(c, events, total) ==
    LET current == StateReached(c, events)
    IN Reduction(Len(events), total, current, current \in {"closed", "completed", "cancelled"}, NoCounts, current)

Unreduced == Reduction(0, 1, "", FALSE, NoCounts, "")
Reduce(c, events, size) ==
    LET total == IF c.total > 0 THEN c.total ELSE size
    IN CASE Reducer(c) = "set_by_actor" -> ReduceSetByActor(events, total)
         [] Reducer(c) = "append" -> ReduceAppend(events, total)
         [] Reducer(c) = "counter" -> ReduceCounter(c, events, total)
         [] Reducer(c) = "checklist" -> ReduceChecklist(events, total)
         [] Reducer(c) = "form" -> ReduceForm(events, total)
         [] Reducer(c) = "approval_quorum" -> ReduceApprovalQuorum(c, events, total)
         [] Reducer(c) = "state_machine" -> ReduceStateMachine(c, events, total)
         [] OTHER -> Unreduced

\* Only a state machine can refuse its events.
ReductionFails(c, events) == Reducer(c) = "state_machine" /\ StateReached(c, events) = ""

----------------------------------------------------------------------------
(* The policy *)

ChangeAllowed(c, mine) == ~ (Response(c) = "once" /\ mine > 0 /\ ~ c.allowChange)

AudienceAllows(c, a) ==
    \/ c.audience = {}
    \/ "all" \in c.audience
    \/ "users" \in c.audience /\ ActorKind(a) = "user"
    \/ "agents" \in c.audience /\ ActorKind(a) = "agent"
    \/ "admins" \in c.audience /\ CardRoles[a] \in {"owner", "admin"}
    \/ "owner" \in c.audience /\ (CardRoles[a] = "owner" \/ a = CardAuthor)

PolicyAdmits(c, events, a) ==
    LET mine == Cardinality({i \in DOMAIN events : events[i].actor = a})
    IN ~ Configured(c) \/ /\ c.expiresAt = 0 \/ cardTime < c.expiresAt
                          /\ ActorKind(a) = "agent" => c.allowAgent
                          /\ AudienceAllows(c, a)
                          /\ c.maxPerActor = 0 \/ mine < c.maxPerActor
                          /\ ChangeAllowed(c, mine)

RoutesToFairy(c, r) ==
    \/ ~ Configured(c)
    \/ c.route = "each_event"
    \/ c.route = "on_close" /\ r.closed
    \/ c.route = "on_threshold" /\ c.threshold > 0 /\ r.responded >= c.threshold

----------------------------------------------------------------------------
(* Cards without a reducer: the button says what happens to the progress *)

Whole == 10000
Tenth == 1000
NoNumber == -1

\* A number above one is taken for a percentage.
InPercent(n) ==
    LET m == IF n > Whole THEN n \div 100 ELSE n
    IN IF m < 0 THEN 0 ELSE IF m > Whole THEN Whole ELSE m

Projected(b) == b.absolute # NoNumber \/ b.delta # NoNumber \/ b.parts # 0
StatusAction(b) == b.action = "set_status" \/ IsPositive(b.action) \/ IsNegative(b.action)

Verdicts == {"approve", "yes", "reject", "no", "cancel"}

\* The node the button acts on, when it names none.
ButtonTarget(b) ==
    IF b.action \in {"set_progress", "increment_progress"} THEN "progress"
    ELSE IF b.action \in {"set_status"} \cup Verdicts
         THEN IF b.statusNode THEN "status" ELSE "progress"
    ELSE IF Projected(b) THEN "progress" ELSE "none"

OneStep(b) == IF b.parts > 0 THEN Whole \div b.parts ELSE Tenth

\* What the action itself writes into the progress node ...
ActedProgress(b, current) ==
    CASE b.action = "set_progress" -> InPercent(b.value)
      [] b.action = "increment_progress" -> InPercent(current + b.value)
      [] b.action = "set_status" /\ ButtonTarget(b) = "progress" ->
            InPercent(IF b.value = NoNumber THEN current + Tenth ELSE b.value)
      [] OTHER -> current

\* ... and what then follows in the progress node beside it.
FollowingProgress(b, current) ==
    IF b.absolute # NoNumber THEN b.absolute
    ELSE IF b.delta # NoNumber THEN current + b.delta
    ELSE IF b.action = "set_progress" THEN b.value
    ELSE IF b.action = "increment_progress" THEN current + b.value
    ELSE IF b.action = "set_status" /\ b.value # NoNumber THEN b.value
    ELSE current + OneStep(b)

ProgressAfter(b, current) ==
    LET acted == ActedProgress(b, current)
        refused == b.action \in {"set_progress", "increment_progress"} /\ b.value = NoNumber
    IN IF ButtonTarget(b) = "none" \/ refused THEN current
       ELSE IF Projected(b) \/ (StatusAction(b) /\ ButtonTarget(b) # "progress")
            THEN InPercent(FollowingProgress(b, acted))
       ELSE acted

----------------------------------------------------------------------------
(* The specification *)

CardInit ==
    /\ card \in {c \in Cards : ConfigAccepted(c)}
    /\ stored = <<>>
    /\ shown = Unreduced
    /\ progress = 0
    /\ groupSize \in GroupSizes
    /\ cardTime = 1
    /\ sizeSeen = groupSize
    /\ forFairy = 0

\* An event that is new and admitted is stored with what it makes of the card.
HandleDynamicEvent(a, id, input) ==
    LET e == [id |-> id, actor |-> a, option |-> input.option, value |-> input.value,
              action |-> input.action, item |-> input.item, completed |-> input.completed, at |-> cardTime]
        events == EventsWithCandidate(e)
    IN /\ Len(stored) < MaxCardEvents
       /\ \A i \in DOMAIN stored : stored[i].actor # a \/ stored[i].id # id
       /\ PolicyAdmits(card, LoadedEvents, a)
       /\ ~ ReductionFails(card, events)
       /\ stored' = SortedWith(stored, e)
       /\ shown' = IF Reducer(card) = "none" THEN shown ELSE Reduce(card, events, groupSize)
       /\ progress' = IF Reducer(card) = "none" THEN ProgressAfter(card.button, progress) ELSE progress
       /\ sizeSeen' = groupSize
       /\ forFairy' = IF RoutesToFairy(card, shown') THEN forFairy + 1 ELSE forFairy
       /\ UNCHANGED <<card, groupSize, cardTime>>

GroupSizeChanges(n) ==
    /\ groupSize' = n
    /\ UNCHANGED <<card, stored, shown, progress, cardTime, sizeSeen, forFairy>>

CardTimePasses ==
    /\ cardTime < MaxCardTime
    /\ cardTime' = cardTime + 1
    /\ UNCHANGED <<card, stored, shown, progress, groupSize, sizeSeen, forFairy>>

CardNext ==
    \/ \E a \in CardActors, id \in CardEventIds, input \in CardInputs : HandleDynamicEvent(a, id, input)
    \/ \E n \in GroupSizes : GroupSizeChanges(n)
    \/ CardTimePasses

CardSpec == CardInit /\ [][CardNext]_cardVars

\* What get_dynamic_interactions shows a viewer of the events of others.
DetailAllowed(viewer) ==
    \/ Visibility(card) = "public_detail"
    \/ Visibility(card) = "admin_detail" /\ (CardRoles[viewer] \in {"owner", "admin"} \/ viewer = CardAuthor)

VisibleEvents(viewer) ==
    {i \in DOMAIN stored :
        /\ Visibility(card) \notin {"public_aggregate", "anonymous_aggregate"}
        /\ Visibility(card) = "actor_only" => stored[i].actor = viewer
        /\ Visibility(card) = "admin_detail" => DetailAllowed(viewer)}

----------------------------------------------------------------------------
(* Properties *)

WithinLimit == Len(stored) <= EventLimit

\* The state on the card is what its stored events come to, in their order,
\* with the size the group had at the last event; also for events of the same
\* time that arrived in the other order of their identifiers.
ShownFollowsEvents ==
    WithinLimit /\ stored # <<>> /\ Reducer(card) # "none" => shown = Reduce(card, stored, sizeSeen)

\* The events of a state machine can always be replayed: an event that breaks
\* the path, at whatever place it sorts in, was not stored. Each value follows
\* by a transition from the value before it, the first one from the
\* initial state; events without a value between them do not count.
HistoryReplays ==
    LET Value(i) == IF i = 0 THEN InitialState(card) ELSE InteractionValue(stored[i])
    IN WithinLimit /\ Reducer(card) = "state_machine" /\ card.transitions # {}
         => \A j \in 1 .. Len(stored) : \A i \in 0 .. j - 1 :
               Value(i) # "" /\ Value(j) # "" /\ (\A k \in i + 1 .. j - 1 : Value(k) = "")
                 => <<Value(i), Value(j)>> \in card.transitions

\* A card is approved by a quorum of people whose last word is a yes, and by
\* nobody's second vote; where a refusal is a veto, nobody's last word is no.
ApprovalIsEarned ==
    LET LastWord(a) == {InteractionValue(stored[i]) : i \in {j \in DOMAIN stored :
                          stored[j].actor = a /\ \A k \in DOMAIN stored : stored[k].actor = a => k <= j}}
        Yes == {a \in CardActors : \E v \in LastWord(a) : IsPositive(v)}
    IN WithinLimit /\ Reducer(card) = "approval_quorum" /\ ~ card.closeOnResponse /\ shown.status = "approved"
         => /\ card.quorum > 0 => Cardinality(Yes) >= card.quorum
            /\ card.veto => \A a \in CardActors : \A v \in LastWord(a) : ~ IsNegative(v)

\* Where an answer cannot be changed, nobody has two, as long as all events
\* of the card are loaded.
AnswersAreFinal ==
    WithinLimit /\ Configured(card) /\ Response(card) = "once" /\ ~ card.allowChange =>
        \A i, j \in DOMAIN stored : stored[i].actor = stored[j].actor => i = j

\* The names behind the answers are for those the card says.
DetailsStayPrivate ==
    \A viewer \in CardActors : \A i \in VisibleEvents(viewer) :
        stored[i].actor = viewer \/ DetailAllowed(viewer)

\* A button that counts steps of a whole adds them up exactly, until the whole
\* is passed: the sum is then taken for a percentage and the bar falls back.
StepsAddUp ==
    LET b == card.button IN
    Reducer(card) = "none" /\ b.parts > 0 /\ b.absolute = NoNumber /\ b.delta = NoNumber
      /\ (StatusAction(b) /\ b.statusNode /\ b.value = NoNumber) /\ Len(stored) <= b.parts
        => progress = Len(stored) * OneStep(b)

\* The reducers: the card shows what its events come to.
CardFollowsEvents == ShownFollowsEvents /\ HistoryReplays /\ StepsAddUp

\* The policy: whose answer counts, how often, and who may see it.
AnswersCount == ApprovalIsEarned /\ AnswersAreFinal /\ DetailsStayPrivate

=============================================================================
