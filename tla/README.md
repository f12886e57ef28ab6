# Verification of the ZZZ IM server and the Fairy agent

TLA+ models of the Go server of ZZZ IM (`src/server`) and of Fairy, the agent
that is connected to it as an ordinary account. Each module is translated from
the source; `PROJECT.json` maps every definition to the lines it stands for.

```
tlc -workers 2 -config SchedulerSafety.cfg MCConversationScheduler
tlapm ConversationSchedulerProofs.tla
```

## 1. The system

```
 devices ── WebSocket ──┐                      ┌── admin console (HTTP)
                        v                      v
                  gateway (one readPump goroutine per connection)
                        │  g.mu: connection registry, locks of dynamic messages
                        v
                  store (memory, SQLite or PostgreSQL)    push, media
                        ^
 Fairy: Runner ── Client ┘  events -> ConversationScheduler -> Engine/Agent
                              ^                                   │
                              └── reliableMessenger <── replies ──┘
```

### Inventory

| Component | State | Operations | What is hard | Module |
|---|---|---|---|---|
| Fairy scheduler (`fairy/scheduler.go`) | queues per conversation, pending count, slots, accepting flag, ingress claims | Submit, Cancel, the actor loop, Shutdown | actor exit racing Submit, `/fairy stop` bypassing limits, drain timeout, restart | `ConversationScheduler` |
| Fairy outbound delivery (`fairy/outbound.go`, `client.go`) | attached client, pending map | SendSegments with retries, Request, attach/detach | late answers, lost frames, client replaced during a send | `MessageDelivery`, `OnceOnlyLog` |
| Fairy session (`fairy/runner.go`, `client.go`) | connection, bounded channel of events, its own request | runSession, readLoop, heartbeat, dispatch | reader and session waiting for each other | `FairySession` |
| Gateway: send_message | messages with client_message_id | idempotent store, respond, broadcast | duplicates over two connections, crash between commit and broadcast | `MessageDelivery` |
| Gateway: dynamic messages | segments, idempotency rows, reference-counted lock map | mutation, event, recall, delete | lock reclaimed while others wait for it, whole-row write back | `DynamicMessage` |
| Gateway: interactions with cards (`gateway/dynamic_interaction.go`) | stored events, the state shown | policy, eight reducers, projection, routing, visibility | events of one instant, limit of loaded events, rounding | `DynamicInteraction` |
| Gateway and admin: accounts, presence | users rows, g.clients | auth, register, update_profile, addClient, removeClient, admin edits | whole-row writes of stale copies, two devices coming and going | `Accounts` |
| Gateway: groups | groups, group_members, conversations | eleven handlers | no lock between read, write and projection; undo after a failed step | `GroupGovernance` |
| Gateway: announcements | board, the old column, read marks | create, edit, delete, sync, restart | the text that outlives its announcement, whole-row write back | `GroupBoard` |
| Gateway: friendships and blocks | friendships, friend_requests, blocks | request, accept, reject, remove, block | two devices answer one request, undo of an accept | `Friendship` |
| Gateway: read state, preferences, reactions, push | conversation_reads, preferences, reactions, subscriptions | mark read, count unread, react, push goroutine | two-statement mark, checks before store calls, goroutine per message | `ConversationInbox` |
| Store (`store/memory.go`, `sqlite.go`, `postgres.go`) | three implementations of one interface | all methods, migrations | answers that depend on the database chosen | `MemoryBackend`, `SqlBackends`, `StoreConformance`, `DirectoryStores` |
| Fairy state file (`fairy/state.go`) | switches, daily quota counters | Take…Call, Set…, save | failing save on the first call of a day, date read before the mutex | `FairyState` |
| Fairy managed configuration | revision, audit trail, file, applied runtime, qualifications | PATCH, evaluation, restart | overlapping PATCHes, evaluation of a model that changed meanwhile | `ManagedConfig` |
| Fairy plugins (`fairy/plugin_runtime.go`) | states, capabilities, tools, dependency order | load, unload, reload, close | failure half-way through any of them | `PluginHost` |
| Fairy external tools (`fairy/mcp_provider.go`) | child processes, circuit breaker | start, call, close | calls that expire while they queue | `ExternalTools` |
| Fairy agent (`fairy/agent.go`, `tool.go`, `engine.go`) | transcript, budgets, slot of the exclusive tools | planner, tools, reply, outcome | stop, time limits, hooks and plugin changes between steps | `AgentTurn` |
| Model router, terminal bridge, feedback, traces, evaluation, media, admin console, protocol types, Flutter client, scripts | — | — | — | not modelled, section 5 |

`PROJECT.json` lists the same parts with their files and says of each one left
out why, and lists the hazards line by line.

## 2. What is modelled

### ConversationScheduler

`queues`, `pending`, `slots`, `accepting` and `lifecycle` are the fields of the
struct, `actors` the goroutines of `runConversation`, `claimed` the durable rows
`ClaimIngress` inserts, `reserved` the runner's map of friend requests under way.
`Submit` is the whole critical section with the claim inside it. The actor's
steps are `AcquireSlot`, `NextTurn`, `TurnReturns`, `Finish`, `LeaveQueue`,
`DiscardQueue`, `ReleaseSlot`: everything between two of them happens under
`s.mu` or touches nothing shared. `TurnTimeout`, `Cancel` and `DrainTimeout` end
a context; the turn's function returns later. `Restart` loses everything except
`claimed`. What a turn does is opaque here: `AgentTurn` is that function, and its
property `TurnsEnd` is what the scheduler's fairness assumes.

Not in the model: an ingress claim is purged after 30 days, so at-most-once
holds for events that come again within that time.

### DynamicMessage

A connection's goroutine takes a reference to the message's lock object, waits
for its mutex, looks up the idempotency key, reads the message, commits,
broadcasts, unlocks and drops the reference; each is one action and other
goroutines run in between. Recalls and deletions take no lock. Content is the
sequence of updates applied; what an event does to a card is `DynamicInteraction`.

### MessageDelivery and OnceOnlyLog

`OnceOnlyLog` is the promise: a log in which a reply may be stored, announced
after it was stored, and deleted, at most one announcement for each time it was
stored. `MessageDelivery` is the implementation: the sender's attempts, the
client's pending map and reader, a connection that loses any suffix of either
direction when it breaks, the gateway's handler with the select / insert /
reselect of `StoreMessageIdempotent`, deletion and crash of the server.
`OnceOnly` is the refinement `OnceOnlyLog!Spec` under the mapping stated in the
module.

### Accounts

A row of `users` is read and written whole. Connections authenticate, register,
edit their profile and end; the admin server edits a nickname and resets a
password, undoing the reset when the sessions cannot be revoked. `foreign`
remembers accounts whose row somebody other than one of its devices wrote since
the registry last wrote it; the online column promises nothing for those.

### GroupGovernance

One group, eleven handlers, a bounded number of requests served by a few
goroutines. Each store call is a step and may fail; a handler that fails after
its write takes the undo path of the code. `ReadMembership` and
`SaveConversation` are the two halves of `syncGroupConversationParticipants`.

### Friendship

Friend requests, answers from several devices, removals and blocks, one action
per store call. The two rows of a friendship are written in one transaction and
are a set of two accounts here. The checks of `friend_request` ignore store
errors, so with `StoreErrors` a check may refuse nothing. `kept`, `parted` and
`ended` are history: friendships whose undo failed, and requests whose accounts
were separated after they were sent or accepted.

### FairySession

`Runner.runSession` and the `readLoop` of its client, from `Dial` until both have
ended. Responses go to the request that waits for them, everything else into
the channel of events, of capacity `EventLimit`, which only the session loop
empties. The session's own requests (login, profile, friend requests,
heartbeat) keep it from reading events, so both goroutines may wait for each
other; the time limit of the request resolves it. A response that comes after
that limit is an event nobody knows, and takes room in the channel. Server and
network are external: they may push, answer late or not at all, and break.

### DynamicInteraction

One card and its stored events. `handleDynamicEvent` holds the lock of the
message, so an event is one step: the policy admits or refuses it, it takes its
place among the events (by time, then by identifier), the reducer folds all
events that are loaded, at most `EventLimit`, into the state that is shown, and
the route decides whether Fairy hears of it. The reducers are eight operators
over the sequence of events. Cards without a reducer have a progress projected
from buttons, counted in units of 1/10000.

### GroupBoard

A board of announcements beside the column it replaced. Every change is followed
by `syncLegacyGroupAnnouncement`: read the row, read the board, write the whole
row; `update_group` and `group_mute_all` also write a row they read. The
restart runs the migration of `initSchema`, which copies a text back onto an
empty board. `aligned`, `mixed` and `wanted` are history: whether requests have
overlapped, and what was confirmed last.

### ConversationInbox

The members of a group conversation, its messages, marks, levels, reactions and
subscriptions. `MarkReadSelect` and `MarkReadUpsert` are the two statements of
`MarkConversationRead`; `ReactCheck` and `ReactStore` the check of the gateway and
the call of the store; the push goroutine of a message takes its recipients one
by one while levels and subscriptions change.

### The stores

`MemoryBackend` has the methods of the in-memory store over Go-like maps and
slices, `SqlBackends` those of SQLite and PostgreSQL over sets of rows, each as
an operator from a store and arguments to a store and an answer. A PostgreSQL
method whose statements are those of SQLite is defined by it. `StoreConformance`
and `DirectoryStores` call the same method with the same arguments on the three
stores and compare the answers and everything that can be read afterwards:
conversations, messages, reactions, events, groups and announcements in the
first, accounts, friends, sessions, vaults, terminal sessions, subscriptions,
media and forwards with the migrations of a reopened database in the second. A
SQL method is one step also where it is several statements without a
transaction (`DeleteConversation`, `CreateGroup`).

### FairyState

The date, both counters and the switches, in memory and in the file. A call
assigns, saves and takes its assignments back if the save fails. The turn reads
the date before the mutex (`AskModelCall`), so another day may begin in between;
`skewed` remembers that it did.

### ManagedConfig

`ConfigManager` with its file, the PATCH handlers with their steps (update, apply
the behaviour, apply the default mode, mark as applied), the evaluation job, the
slot it shares with the diagnostics, and restarts. `earned` is history: the
settings with which a model has passed an evaluation.

### PluginHost

One lifecycle operation at a time, in the steps between which a plugin's own
code runs: begin to load, provide capabilities, register, start, fail at any of
them, stop, release. `dependencyOrder` is its depth-first search step by step:
`pluginVisit` has the three colours, the call stack and the order so far (`VisitPlugin`,
`LeavePlugin`, `FinishOrder`), over all graphs of three plugins.

### ExternalTools

A provider is a record of session, failures and circuit; callers queue for
`callMu` and may run out of time while they do. Children are numbered, so that
one that was forgotten but not ended is visible.

### AgentTurn

Planner steps with the single repair, tool calls with the checks of `tool.go` in
their order, the slot of the exclusive tools, hooks, the reply with its repair,
and what `HandleMessage` does with the outcome, for an agent turn and the turn of
a command that overlap. Model and tools answer what they like, or fail, or run
into a time limit; a turn may be stopped between any two steps and plugins may
be unloaded under it.

## 3. Runs

Components that share no state are checked side by side: the MC module extends
them, `Init` picks the one that is `active`, and the others keep one initial
state. The states of such a run are the disjoint union of the states of its
components, and a property of one holds of it alone.

| Run | Question | Bounds | Result |
|---|---|---|---|
| scheduler_safety | Are the queue's counts, order, bypass, at-most-once and shutdown right? | one chat with three messages and two stops, a resubmitted friend request, one slot, queue limits reached, restarts | holds |
| fairy_turns | Does every admitted turn leave its queue, does Shutdown return, and does the turn itself end? | two chats and one slot; an agent turn and a command that need the exclusive tool | holds |
| dynamic_updates | Do updates exclude each other, is a key applied once and announced in commit order, does every request end? | two connections, two messages, two lock objects, a mutation key and an event key (three or more connections: by proof) | holds |
| dynamic_recall | Is a recalled message frozen? | two connections, one message | **violated** |
| delivery | Is a reply stored and announced once, do sends end? Do the session and its reader get on? | two attempts, two connections, a deletion, a crash; a channel of one event, two events, one heartbeat | holds |
| delivery_rejected | Is a reply that was reported as rejected not stored? | three attempts, one connection | **violated** |
| accounts_reset | Does a password reset stay? | two connections, one edit, one reset | **violated** |
| groups | Is there one owner, is ownership only handed over, does an undisturbed request align the conversation? | three users, two requests at a time, four in all, failing store calls | holds |
| groups_projection | Is the conversation aligned with the members when all requests are done? | two requests overlap | **violated** |
| friendship_lost | Are the accounts of an accepted request friends? | one request, two connections, no failures | **violated** |
| fairy_services | State file, configuration, plugins, external tools, agent turns: see the table below | two turns at midnight; two PATCHes, three revisions; all graphs of three plugins beside two others; two callers, three failures; two turns of two planner steps | holds |
| gateway_services | Friendships, presence, stores, announcements, inbox, cards: see the table below | two accounts and two requests; three connections of one account; four calls on three stores; three board requests and a restart; two messages and four requests; four events on one of 21 cards | holds |

The properties of the last two runs and of `delivery`'s session are conjunctions
of parts that are named in the modules and commented there:

| Property | Parts |
|---|---|
| StateIsSafe | no day grants more calls than its limits (`QuotaRespected`); what is in force is what a restart reads (`EffectiveIsDurable`); a switch is changed by its own call (`SwitchesAreIndependent`) |
| ConfigIsInForce | a restart accepts the file and comes back with the same configuration (`FileReloads`); what is shown as active is what the engine runs (`ActiveIsApplied`) |
| ModelsAreQualified | production models passed an evaluation with the settings they have (`ProductionIsQualified`, `QualificationsAreEarned`) |
| HostIsConsistent | the order is topological or an error; what runs has its dependencies; capabilities and tools belong to plugins that run |
| ProvidersAreSound | a provider's children are its session; the circuit follows the failures; an open circuit starts nothing |
| TurnsAreAccounted | requests are paid for, calls have results, the exclusive slot is held by its tool |
| AnswersReachTheUser | results of tools are not lost, a turn nobody stopped answers |
| StoppedTurnsAreSilent | nothing is sent for a stopped turn |
| FriendsConsented, AnsweredOnce | no friends without consent, one answer per request (both proved) |
| PresenceIsExact | registry, notices and online column agree |
| StoresAgree, DirectoriesAgree | equal answers and contents of the three stores; no stray records; vault revisions advance; a restart does not show |
| BoardIsKept | the old column follows the board, settings are kept, a restart brings nothing back, as long as requests do not overlap |
| InboxIsFaithful | unread counts grow by mail only, read stays read, no reaction to a recalled message, no unwanted push |
| CardFollowsEvents | the card shows what its events come to, state machines replay, steps add up |
| AnswersCount | approvals are earned, final answers are final, names stay private |
| LimitsKept, ClaimsHold | the scheduler's counts and limits, shut down to zero; at most one turn per event, reservations released |
| SessionProgresses | the session's requests return, events are dispatched, a lost connection ends both goroutines |

The bounds are the smallest at which each hazard occurs: the mutants in
`PROJECT.json` (a dropped guard, a missing reset, an off-by-one) are found under
the same configurations. Constants named `Max…` that are commented as bounds are
bounds of the models; the other constants are limits of the program or sets of
names. Deadlock is checked where requests can always arrive; the models with a
bounded number of requests may stop when they are used up. Symmetry is used only
in runs without liveness.

### Fairness

- scheduler: goroutines run (weak fairness of each actor's step and of
  Shutdown's goroutine), and a turn's function returns once its context has
  ended; nobody is obliged to submit, cancel or shut down. A turn always has a
  timeout (`WithTimeoutCause`). A slot is taken under weak fairness only: `slots`
  is a Go channel, served first come first served. An actor keeps its slot
  until its queue is empty, so a conversation that is fed for ever keeps the
  others waiting; the run has finitely many events and does not exclude that.
- agent turns: the goroutine of a turn runs, and model calls and tools have time
  limits (`TurnFairness`). Under it `TurnsEnd` holds, which is the assumption of
  the scheduler about its turns.
- dynamic messages: weak fairness of handler steps and strong fairness of the
  mutex. `sync.Mutex` hands over to a waiter after a millisecond (starvation
  mode), so a waiter is not passed over for ever.
- delivery: the sender, the reader and the handlers run and timeouts expire.
  Nothing is assumed of the network, of restarts or of reconnecting.
- session: both goroutines run and requests have time limits
  (`requestTimeout`). `select` chooses at random among the cases that are ready,
  so the arrival of an event and the end of the client are not passed over for
  ever (strong fairness of `DispatchEvent` and `LeaveLoop`). The server need not
  answer.

### Findings

- `dynamic_recall`: a recall that commits between the recalled check and the
  write of an update does not stop the update; the recalled message is written
  and broadcast (`gateway.go:1419`).
- `delivery_rejected`: an API error on a retry counts as a definite failure
  although an earlier attempt of unknown outcome stored the reply
  (`outbound.go:160`, `docs/FAIRY_AGENT_ARCHITECTURE.md:666`).
- `accounts_reset`: a profile edit that overlaps a password reset writes the old
  password back (`gateway.go:763`).
- `groups_projection`: two overlapping membership changes leave the conversation
  with the members the slower one read (`gateway.go:983`, `1023`).
- `friendship_lost`: two devices accept one request; the one that inserted the
  friendship loses the update of the request, and its rollback removes the
  friendship the other one has confirmed (`gateway.go:3475`).

### Exceptions the properties make

Where the code does not give the plain statement, the property says up to where
it holds, and the model reaches the states beyond:

- `QuotaRespected`: a turn that read yesterday's date before midnight and takes
  the mutex after another turn took it with today's sets the counters back.
- `ActiveIsApplied`: of two overlapping PATCHes the older may store its behaviour
  in the engine last, while the status names the newer (`admin_api.go:297`).
  A PATCH during which more models are qualified than the audit trail has entries
  stays unconfirmed, because `onlyModelValidationAfter` no longer finds its own
  entry (`managed_config.go:396`); the bounds of the run do not reach this one.
- `UnreadGrowsByMail`: two devices that mark a conversation at once; the write
  that comes last wins, also with the older message (`read_state.go:105`).
- `TextFollowsBoard`, `SettingsKept`: overlapping requests write back rows they
  read (`gateway.go:3179`), and a text that stays behind becomes an announcement
  again at the next start (`sqlite.go:357`).
- `OnlyReactionsKeepAGroup`: PostgreSQL rolls the deletion of a group back while
  a reaction refers to one of its messages; no backend deletes the preferences,
  reactions, events and update keys of a deleted group.
- `TurnsAreAnswered`: a time limit of the model is treated like a stop, and the
  turn ends without a reply (`engine.go:1408`). `ResultsAreNotLost`: a failing
  before-hook drops the results of earlier tools (`agent.go:178`).
- `ChildrenAreSessions` and the circuit: a call that expired in the queue ends the
  session of a provider that works (`mcp_provider.go:243`).
- `AnswersAreFinal`: beyond 10000 events the policy sees the oldest only
  (the in-memory store keeps the newest).
  `StepsAddUp`: a progress past one is divided by a hundred
  (`dynamic_interaction.go:553`).
- `SessionProgresses`: a heartbeat can expire because its own channel of events
  is full; the session then ends although the server is healthy.

Races that no property covers, because the code gives nothing to hold: two
registrations of one user_id that overlap the bcrypt computation
(`gateway.go:610`), the member limit that invitations check before they add and
joins not at all (`gateway.go:2885`), an owner who becomes one while leaving
(`gateway.go:2988`), and a crash between the insert of a message and its
broadcast, after which devices see it in the history only (`gateway.go:1353`).

Differences between the backends outside `StoresAgree`, by its exceptions or
because no call of the model has these arguments: an unknown anchor or a limit
of zero in `GetMessagesBefore`; which events `GetDynamicInteractionEvents` cuts
off (memory the oldest, SQL the newest); a member added to a group that does not
exist; a media row stored twice; `TouchTerminalSession` after the session ended,
which marks it connected in SQL only; unread counts after the last read message
was deleted.

## 4. Proofs

`ConversationSchedulerProofs` — for all conversations, events, goroutines and
limits, from `EventAssumption`, `LimitAssumption` and `ActorAssumption`:

- `TypeCorrect`: `Spec => []TypeOK`.
- `SchedulerSafe`: `OneActorPerQueue`, `StopIsNext` and `QueuesBounded` together
  are inductive over `TypeOK`. They need one another: that a stop may bypass a
  full queue by one turn only follows because a waiting stop is at the head of
  the queue and flagged (`StopIsNext`), and the flag is reset by the actor that
  takes it, which is the only one (`OneActorPerQueue`).
- `StopsComeNext`: `[]StopIsNext`, the part of it that a run checks.
- `ClaimsAreKept`: `[]ClaimsHold`. `ClaimInv` says where an event is: it waits once,
  in the queue of its own conversation, does not wait while its turn runs, and an
  event with a durable claim waits only before its one turn.
- `TurnsBeginInOrder`: `[]FIFO`, position by position: the i-th turn that began is the
  i-th that was admitted, and the turn at a place of the queue was admitted as many
  places after the last one that began as there are ordinary turns up to it. That
  count is a cardinality (`NormalUpTo`); `Submit` adds one at the end or a stop, which
  counts for nothing, in front, and `Dequeue` shifts it by one.
- `LimitsAreKept`: `[]LimitsKept`. The counts of `CountInv` are cardinalities of
  sets that each step changes by one element: the goroutines that hold a slot, the
  pairs of conversation and place that wait, the turns under way.

`GroupGovernanceProofs` — for all users, goroutines, limits and store failures,
from `GroupAssumption`:

- `GroupHasOneOwner`: `Spec => [](TypeOK /\ OneOwner)`. `OneOwner` alone is not
  inductive. `OwnershipInvariant` adds `CreationIsExclusive` (until the rows of
  the group and of its owner are written no other request on it is under way,
  so that the second insert makes no second owner) and `TransferTarget` (a
  transfer keeps the one target it was asked for until it is done or undone).
- `OwnershipNeverTaken`: `Spec => OwnershipIsHandedOver`, an action property from
  the same invariant.
- `ConversationStaysAligned`: `[]UndisturbedSyncAligns`. `SyncInv` adds `AloneInv` (a
  request that is alone has the tables to itself, so what its sync read is still
  there when it writes) and `SettledInv` (since the conversation was settled it is
  aligned, or exactly one request is on its way from there). `UnderWay` is the heart:
  for each operation and program counter the difference between the members, the
  owner and the name of the group and those of the conversation that the request
  has made and its rollback takes back. One lemma per handler step shows that the
  request goes on with such a difference or ends aligned.

`DynamicMessageProofs` — for all connections, messages, lock objects and keys:

- `TypeCorrect`: the type invariant, with `Targeted` (a request that is under way
  names a message).
- `UpdatesExclude`: `MutualExclusion` and `LocksReclaimed`. The inductive
  `LockInv` says that whoever has a reference refers to the object its message is
  mapped to, that the map has an entry exactly while somebody refers to it, that
  `refs` counts those goroutines, and that a mutex has one holder. The count is
  what keeps the last holder from removing a lock somebody waits for.
- `UpdatesInOrder`: `BroadcastInCommitOrder`, with `ContentInv`: the copy a
  goroutine is about to write is still what is stored, because others are
  excluded, and the devices have seen everything that is not about to be
  broadcast.
- `UpdatesAppliedOnce`: `EveryUpdateAppliedOnce` and `DeletionIsComplete`.

`MessageDeliveryProofs` — for all replies, limits, connections, crashes and
deletions, from `DeliveryAssumption`:

- `TypeCorrect`: `TypeOK` with the shape of a send (it has attempts left while it
  waits, and a client once it has begun one).
- `SessionStaysAttached`: `[]RunningSessionIsAttached`; `PendingMapIsExact`:
  `[]PendingIsExact`, with `MailIsOwed`: a result in a channel has taken its entry out
  of the map.
- `ImplementsOnceOnlyLog`: `Spec => OnceOnly`, the refinement step by step. It rests on
  `LogInv`: the handlers that are about to announce a reply, together with the
  announcements made, are no more than its insertions, and a success anywhere on
  the way back (row, handler, network, channel) is about a reply that was stored.
- `SessionStaysTyped` and `DeliveryStaysTyped`, from `SessionAssumption` too:
  `[](SessionTypeOK /\ dispatched <= pushed)` of `FairySession` and `[]DeliveryTypeOK` of the
  two together. `EventsAreAccounted` says that an event is on the wire, in the hands of
  `readLoop`, in the channel or dispatched, and in one place only; the events of a
  sequence are counted by the set of their places, so that no induction is needed.

`GatewayServicesProofs` — services of the gateway, from `AccountsAssumption`,
`InboxAssumption`, `BoardAssumption`, `CardAssumption` and `FriendshipAssumption`, which
say that the bounds are numbers, that there are finitely many members and actors, and
what the letters and cards look like:

- `PresenceStaysExact`: `[]PresenceIsExact`, for all accounts, connections and admins.
  `AccountsInv` adds that an edit carries a row that says online, which is why its
  write-back does not disturb the column.
- `InboxStaysFaithful`: `InboxSpec => InboxIsFaithful`, an invariant and three action
  properties at once. `InboxInv` adds that a mark names a stored message, that a
  member who never marked from two devices at once has at most one mark under way
  and that one no older than the stored one, and that a courier that is about to
  push carries a level that admitted the message.
- `BoardStaysKept`: `BoardSpec => BoardIsKept`. `BoardInv` adds that a request that is
  alone stays alone until it ends or another one starts, that the text it is about to
  write is that of the board, and, by the place of the request in its handler,
  which of row and copy already has what was asked. The first announcement exists
  because a finite set of numbers has a least one (well-foundedness, not induction).
- `AnswersStayCounted`: `[]AnswersCount`. It rests on what `InsertAt` does to a sequence of
  events, on a bijection between the last words and their actors, and on n steps of a
  whole cut in p parts being no more than the whole for n up to p.
- `CardShowsItsEvents`: `[]CardFollowsEvents`. The state of a state machine is a recursive
  function of the place in its events (`StatesAlong`). That such a function exists and is
  the only one is shown by the least place at which two of them would differ
  (`LeastNumber`, from well-foundedness); an event that comes in between is accepted
  only if what follows it is still a path, which is what the lemmas about `Run` say.
- `FriendshipNeedsConsent`, `RequestAnsweredOnce`, `TypeCorrect`, for all accounts,
  connections, requests and store failures. `ConsentInv` adds that a handler that answers
  works on a request between its own two accounts, that only an accept adds friends, and
  that a request that was accepted stays so: the answer that wins the update turns the
  friendship its accept inserted, which it would have taken back, into one that was
  agreed to.

`StoreProofs` — the three stores, for all contents and requests and however many calls,
from `DirectoryAssumption` and `StoreAssumption`: the two users and the two conversations
are different, requests are about them, and a nil pointer is no row and no answer:

- `DirectoriesStayEqual`: `DirectorySpec => DirectoriesAgree`. `DirectoryInv` says that the
  tables hold the same rows, that the migration has run, and which keys hold:
  friendships have both directions, requests, terminals and files are named by one
  instant of the past, an account has one vault. One lemma per table says what a write
  of the same rows to the three stores keeps, one per call that its statement and the
  map operation write the same rows. The keys are what makes them the same: an INSERT
  is an UPSERT because the name is new, an UPDATE hits the one row that was found.
- `StoresStayEqual`: `StoreSpec => []StoresAgree`. `StoreInv` says, while the group is there,
  that PostgreSQL holds the rows of SQLite and that the maps of the in-memory store are a
  view of them: a history is the rows of its conversation in the order of their
  instants, the idempotency keys are those of the rows that have one, the members are the
  rows of the group, which has one owner, a mark on the newest message carries its time,
  and what is kept about a message is about one that is there. Once the group is deleted
  the last clause goes, and the rest holds unless PostgreSQL has kept the group. One lemma
  per method shows that the map operation and the statements give the same answer and
  keep the view. What clients read then follows from the view: a page because rows with
  different instants have one order with the latest first (`OneOrder`, by counting the
  rows above a row), an unread count because the messages past the marked place and the
  rows later than the mark are in bijection.

`AgentTurnProofs` — for any number of turns, steps and tools, from
`AgentAssumption`:

- `TurnsStayAccounted`, `TurnsReachTheUser`, `StoppedTurnsStaySilent`. `AgentInv` gives the
  budget of requests by the place of a turn in its loop (two for each step, a
  repair is the second), the unanswered calls as the length of its queue, and the
  outcome that each place may still have.

`FairyServicesProofs` — from `StateAssumption`, `ManagedConfigAssumption`,
`ExternalAssumption` and `PluginAssumption`:

- `StateStaysSafe`: `StateSpec => StateIsSafe`. The counters of the state file are the
  calls granted on their date (`DayQuota`, `TaskQuota`) while no turn came with an
  earlier date than another.
- `ConfigStaysInForce`, `ModelsStayQualified`: `ConfigInv` says that the file is the
  configuration with a trail the loader accepts, that a job that passed has earned
  the settings it started with, and that, without overlapping PATCHes, either
  everything is applied or one PATCH is under way and what came after its update
  are qualifications.
- `HostConsistent`: `[]HostIsConsistent`. Of the search: the plugins on the stack each need
  the one above, those in the order come after what they need, and the three colours
  say which is which; a plugin met again on the stack closes a cycle, and a finished
  order of a cyclic graph would have a least place among the plugins of the cycle. Of
  the host: what runs was started in that order and is stopped against it.
- `ProvidersStaySound`: the children of a provider are its session, a caller past the
  mutex holds it, and the circuit stays open as long as its failures demand.

Only model-checked, and why:

- liveness (`AdmittedTurnsLeave`, `ShutdownTerminates`, `TurnsEnd`, `RequestsComplete`,
  `SendsFinish`, `StoredIsShown`, `SessionProgresses`): fairness and ENABLED are out of
  the prover's reach.

No proof uses the library's induction theorems and no proved module declares a
recursive operator. Where a claim is about all places of a sequence or all steps of a
recursive function, the proof takes the least place at which it fails, which exists
by well-foundedness. The type invariants of `DynamicMessage`, `GroupGovernance` and
`Friendship`, and `LocksReclaimed` and `DeletionIsComplete` of `DynamicMessage`, are proved
and not repeated in a run.

The proofs found some things about the models. With more qualifications within
one PATCH than the audit trail keeps, `MarkApplied` cannot tell that nothing else
happened and what is active stays unconfirmed: `ActiveIsApplied` now makes that
exception (`FinishUpdate` sets `overlapped`), which the bounds of the run do not
reach. The history of granted calls
had to be a table by date and task, not a sequence, to be counted without
induction. `ConfigAccepted` did not refuse a card with an unknown visibility, as
`parseDynamicInteractionConfig` does; `DetailsStayPrivate` needs it. And the arms of
some CASE expressions overlapped (`ButtonTarget`, `ProgressAfter`, `RoutesToFairy`,
`EffectiveLevel`, `SessionAfter`, `AfterFailedSync`): TLC takes the first that holds, which is
what the code does, but the language leaves the choice open; they are now written
so that one arm holds. For the proofs three definitions got another form with the
same meaning: the search of `dependencyOrder` is a sequence of steps with its stack in a
variable, `FIFO` and `HistoryReplays` compare place by place, and the machine of a card starts
in its own initial state (`reduceStateMachine` reads `initial_state`; the model had only
the default). The methods of the stores write their maps with `Put`, `Changed` and `Without`
and take the latest rows by the one order they have (`LatestFirst`), so that the lemmas
about them are stated once.

## 5. Plan and what is not modelled

Every invariant and action property of the passing runs is stated by a theorem; what is
left to TLC is liveness.

Not modelled:

- Model router and providers: HTTP calls with retry and fallback, sequential
  within a call; `AgentTurn` takes the outcome as a free choice.
- Terminal bridge: one map of channels; the tool that waits is covered by the
  time limit in `AgentTurn`. A result that finds its channel full is dropped.
- Feedback, facts, experience: single transactions. Reactions that come before
  their output is registered are applied by goroutines in no defined order, and
  no document states a relation that survives this.
- Media storage and input, admin console pages, client performance, traces,
  evaluation, profile cards, titles, reports: file and network I/O, queries or
  single inserts.
- Validation of content trees, prompts, schemas and texts: pure functions over
  grammars the models abstract to accepted or refused.
- Flutter client, web shell, deployment scripts: the models see a device as its
  connections and requests.
- The Redis cache is opened by `cmd/server` and used by nobody.
