---------------------------- MODULE MemoryBackend ----------------------------
(***************************************************************************)
(* The in-memory store of the IM server (internal/store/memory.go), the    *)
(* part that keeps conversations, messages and groups: every method of the *)
(* Store interface is an operator from the store's maps and the method's   *)
(* arguments to the new maps and the answer. The mutex makes every method  *)
(* atomic. A message is named by the value of the clock when it was        *)
(* stored; its segments are one value.                                     *)
(***************************************************************************)
EXTENDS Integers, Sequences, FiniteSets, SequencesExt

\* The result of a method: the maps it leaves and what it returns.
Reply(store, answer) == [store |-> store, answer |-> answer]

CONSTANTS
    Nothing,    \* no such row: the methods return nil
    Conflict,   \* the identifier was used for another request
    Refused,    \* an error
    Accepted,   \* no error
    Duplicate   \* an event that is already recorded

\* The empty string: a client identifier or an announcement that is not there.
Empty == ""

\* A message as the methods return it, its reaction counts included.
Loaded(message, reactions) ==
    [id |-> message.id, sender |-> message.sender, segments |-> message.segments,
     recalled |-> message.recalled,
     counts |-> [e \in {r.emoji : r \in reactions} |->
                    Cardinality({r \in reactions : r.emoji = e})]]

\* What NormalizeNotificationLevel makes of a level and the old mute flag.
NormalizeNotificationLevel(level, legacyMuted) ==
    IF level \in {"normal", "mentions_only", "muted"} THEN level
    ELSE IF legacyMuted THEN "muted" ELSE "normal"

\* The assignment of an entry of a map.
Put(map, key, value) == [k \in DOMAIN map \cup {key} |-> IF k = key THEN value ELSE map[k]]

\* The rows with the latest first, and the identifiers of the limit latest: a
\* row is named by the instant that it was stored.
LatestFirst(rows) ==
    CHOOSE f \in [1 .. Cardinality(rows) -> rows] : \A i, j \in DOMAIN f : i < j => f[i].id > f[j].id
LatestIds(rows, limit) ==
    LET ids == {r.id : r \in rows} IN {i \in ids : Cardinality({j \in ids : j > i}) < limit}

\* The fingerprints that tell a retried request from another one.
MessageFingerprint(conversation, segments) == <<conversation, segments>>
EventFingerprint(e) == <<e.conversation, e.message, e.payload>>

----------------------------------------------------------------------------
(* Conversations and preferences *)

MemoryGetOrCreateConversation(s, c, kind) ==
    IF c \in DOMAIN s.conversations THEN Reply(s, s.conversations[c])
    ELSE LET new == [kind |-> kind, people |-> {}]
         IN Reply([s EXCEPT !.conversations = Put(@, c, new)], new)

MemorySaveConversation(s, c, kind, people) ==
    Reply([s EXCEPT !.conversations = Put(@, c, [kind |-> kind, people |-> people])], Accepted)

MemoryIsGroupMember(s, g, u) ==
    g \in DOMAIN s.groups /\ \E m \in s.groups[g].members : m.user = u

MemoryGetUserConversations(s, u) ==
    {c \in DOMAIN s.conversations :
        IF s.conversations[c].kind = "private" THEN u \in s.conversations[c].people
        ELSE MemoryIsGroupMember(s, c, u)}

MemoryGetConversationPreference(s, c, u) ==
    LET rows == {p \in s.preferences : p.conversation = c /\ p.user = u}
    IN IF rows = {} THEN Nothing ELSE CHOOSE p \in rows : TRUE

MemorySetConversationPreference(s, c, u, level, muted) ==
    LET normal == NormalizeNotificationLevel(level, muted)
        row == [conversation |-> c, user |-> u, level |-> normal, muted |-> normal = "muted"]
    IN Reply([s EXCEPT !.preferences =
                 {p \in @ : p.conversation # c \/ p.user # u} \cup {row}], Accepted)

----------------------------------------------------------------------------
(* Messages *)

MemoryHistory(s, c) == IF c \in DOMAIN s.messages THEN s.messages[c] ELSE <<>>

FindMessageIn(s, id) ==
    LET found == UNION {{m \in ToSet(s.messages[c]) : m.id = id} : c \in DOMAIN s.messages}
    IN IF found = {} THEN Nothing ELSE CHOOSE m \in found : TRUE

ReactionsTo(s, id) == {r \in s.reactions : r.message = id}

MemoryGetMessage(s, id) ==
    LET m == FindMessageIn(s, id)
    IN IF m = Nothing THEN Nothing ELSE Loaded(m, ReactionsTo(s, id))

\* The message id has changed, in whichever conversation it is.
Changed(s, id, message) ==
    [s EXCEPT !.messages = [c \in DOMAIN s.messages |->
        [i \in DOMAIN s.messages[c] |-> IF s.messages[c][i].id = id THEN message ELSE s.messages[c][i]]]]

\* Variant: a reused identifier is a retry whatever it carries.
MemoryStoreMessageIdempotentAnyPrint(s, c, u, k, segments, now) ==
    LET known == {r \in s.sent : r.sender = u /\ r.client = k}
        message == [id |-> now, sender |-> u, segments |-> segments, recalled |-> FALSE]
        stored == [s EXCEPT !.messages = Put(@, c, Append(MemoryHistory(s, c), message))]
    IN IF k # Empty /\ known # {}
         THEN Reply(s, [duplicate |-> TRUE, message |-> (CHOOSE r \in known : TRUE).message])
       ELSE Reply(IF k = Empty THEN stored
                  ELSE [stored EXCEPT !.sent = @ \cup
                          {[sender |-> u, client |-> k, print |-> MessageFingerprint(c, segments),
                            message |-> now]}],
                  [duplicate |-> FALSE, message |-> now])

MemoryStoreMessageIdempotent(s, c, u, k, segments, now) ==
    LET print == MessageFingerprint(c, segments)
        known == {r \in s.sent : r.sender = u /\ r.client = k}
        message == [id |-> now, sender |-> u, segments |-> segments, recalled |-> FALSE]
        stored == [s EXCEPT !.messages = Put(@, c, Append(MemoryHistory(s, c), message))]
    IN IF k # Empty /\ known # {}
         THEN LET r == CHOOSE r \in known : TRUE
              IN Reply(s, IF r.print # print THEN Conflict
                          ELSE [duplicate |-> TRUE, message |-> r.message])
       ELSE Reply(IF k = Empty THEN stored
                  ELSE [stored EXCEPT !.sent = @ \cup
                          {[sender |-> u, client |-> k, print |-> print, message |-> now]}],
                  [duplicate |-> FALSE, message |-> now])

MemoryUpdateMessageSegments(s, id, segments) ==
    IF FindMessageIn(s, id) = Nothing THEN Reply(s, Nothing)
    ELSE LET new == Changed(s, id, [FindMessageIn(s, id) EXCEPT !.segments = segments])
         IN Reply(new, MemoryGetMessage(new, id))

\* An event enters both the list of its message and the index by identity.
MemoryAppendDynamicInteractionEvent(s, e) ==
    LET known == {x \in s.events : x.actor = e.actor /\ x.event = e.event}
    IN IF known # {}
         THEN Reply(s, IF \E x \in known : EventFingerprint(x) = EventFingerprint(e)
                         THEN Duplicate ELSE Conflict)
       ELSE Reply([s EXCEPT !.events = @ \cup {e}], Accepted)

MemoryCommitDynamicInteractionEvent(s, e, segments) ==
    LET known == {x \in s.events : x.actor = e.actor /\ x.event = e.event}
    IN IF known # {} THEN MemoryAppendDynamicInteractionEvent(s, e)
       ELSE IF FindMessageIn(s, e.message) = Nothing THEN Reply(s, Refused)
       ELSE Reply([MemoryUpdateMessageSegments(s, e.message, segments).store
                     EXCEPT !.events = @ \cup {e}], Accepted)

MemoryGetDynamicInteractionEvents(s, c, id) ==
    {e \in s.events : e.message = id /\ e.conversation = c}

MemoryLookupDynamicUpdate(s, u, k, print) ==
    LET known == {r \in s.updated : r.sender = u /\ r.client = k}
    IN IF k = Empty \/ known = {} THEN Nothing
       ELSE LET r == CHOOSE r \in known : TRUE
            IN IF r.print # print THEN Conflict
               ELSE [duplicate |-> TRUE, message |-> MemoryGetMessage(s, r.message)]

MemoryStoreDynamicUpdateIdempotent(s, u, k, print, id, segments) ==
    LET known == MemoryLookupDynamicUpdate(s, u, k, print)
        done == MemoryUpdateMessageSegments(s, id, segments)
    IN IF known # Nothing THEN Reply(s, known)
       ELSE IF done.answer = Nothing THEN Reply(s, Nothing)
       ELSE Reply(IF k = Empty THEN done.store
                  ELSE [done.store EXCEPT !.updated = @ \cup
                          {[sender |-> u, client |-> k, print |-> print, message |-> id]}],
                  [duplicate |-> FALSE, message |-> done.answer])

\* The records kept about a message elsewhere: idempotency keys and events.
ForgottenMessage(s, ids) ==
    [s EXCEPT !.reactions = {r \in @ : r.message \notin ids},
              !.sent = {r \in @ : r.message \notin ids},
              !.updated = {r \in @ : r.message \notin ids},
              !.events = {e \in @ : e.message \notin ids}]

Without(history, id) ==
    LET at == {i \in DOMAIN history : history[i].id = id}
    IN IF at = {} THEN history ELSE RemoveAt(history, CHOOSE i \in at : TRUE)

MemoryDeleteMessage(s, id) ==
    IF FindMessageIn(s, id) = Nothing THEN Reply(s, FALSE)
    ELSE Reply([ForgottenMessage(s, {id}) EXCEPT !.messages =
                   [c \in DOMAIN s.messages |-> Without(s.messages[c], id)]], TRUE)

MemoryDeleteConversation(s, c) ==
    LET ids == {m.id : m \in ToSet(MemoryHistory(s, c))}
    IN Reply([ForgottenMessage(s, ids) EXCEPT
                 !.conversations = Restrict(@, DOMAIN @ \ {c}),
                 !.preferences = {p \in @ : p.conversation # c},
                 !.messages = Restrict(@, DOMAIN @ \ {c}),
                 !.reads = {r \in @ : r.conversation # c}], Accepted)

MemoryReactToMessage(s, id, u, emoji, remove) ==
    LET m == FindMessageIn(s, id)
        row == [message |-> id, emoji |-> emoji, user |-> u]
        new == [s EXCEPT !.reactions = IF remove THEN @ \ {row} ELSE @ \cup {row}]
    IN IF m = Nothing \/ m.recalled THEN Reply(s, Nothing)
       ELSE Reply(new, MemoryGetMessage(new, id))

MemoryGetMessageReactionIDs(s, id, u) == {r.emoji : r \in {r \in ReactionsTo(s, id) : r.user = u}}

MemoryRecallMessage(s, id) ==
    IF FindMessageIn(s, id) = Nothing THEN Reply(s, FALSE)
    ELSE Reply(Changed(s, id, [FindMessageIn(s, id) EXCEPT !.recalled = TRUE]), TRUE)

\* The limit newest messages older than the given one; all of them when the
\* given one is not in the conversation.
MemoryGetMessagesBefore(s, c, before, limit) ==
    LET all == MemoryHistory(s, c)
        at == {i \in DOMAIN all : all[i].id = before}
        end == IF at = {} THEN Len(all) ELSE (CHOOSE i \in at : TRUE) - 1
        first == IF limit <= 0 \/ limit > end THEN 1 ELSE end - limit + 1
    IN [i \in 1 .. (end - first + 1) |->
          Loaded(all[first + i - 1], ReactionsTo(s, all[first + i - 1].id))]

MemoryGetRecentMessages(s, limit) ==
    LET all == UNION {ToSet(s.messages[c]) : c \in DOMAIN s.messages}
    IN IF limit <= 0 THEN {m.id : m \in all} ELSE LatestIds(all, limit)

----------------------------------------------------------------------------
(* Read marks (internal/store/read_state.go) *)

MemoryMarkConversationRead(s, c, u, now) ==
    LET all == MemoryHistory(s, c)
        row == [conversation |-> c, user |-> u,
                last |-> IF all = <<>> THEN 0 ELSE Last(all).id,
                at |-> IF all = <<>> THEN now ELSE Last(all).id]
    IN Reply([s EXCEPT !.reads = {r \in @ : r.conversation # c \/ r.user # u} \cup {row}], row)

MemoryGetConversationReadStates(s, c) == {r \in s.reads : r.conversation = c}

MemoryCountUnreadMessages(s, c, u) ==
    LET all == MemoryHistory(s, c)
        rows == {r \in MemoryGetConversationReadStates(s, c) : r.user = u}
        past(r) == IF r.last # 0 THEN {i \in DOMAIN all : all[i].id = r.last}
                   ELSE {i \in 0 .. Len(all) : i + 1 \in DOMAIN all /\ all[i + 1].id > r.at}
        start == IF rows = {} THEN 0
                 ELSE LET p == past(CHOOSE r \in rows : TRUE)
                      IN IF p = {} THEN Len(all) ELSE CHOOSE i \in p : \A j \in p : i <= j
    IN Cardinality({i \in DOMAIN all : i > start /\ all[i].sender # u})

----------------------------------------------------------------------------
(* Groups *)

MemoryCreateGroup(s, g, u) ==
    Reply([s EXCEPT !.groups =
        Put(@, g, [owner |-> u, muteAll |-> FALSE, announcement |-> Empty,
                   members |-> {[user |-> u, role |-> "owner", muted |-> FALSE]}])], Accepted)

MemoryGetGroup(s, g) == IF g \in DOMAIN s.groups THEN s.groups[g] ELSE Nothing

MemoryGetUserGroups(s, u) ==
    {g \in DOMAIN s.groups : \E m \in s.groups[g].members : m.user = u}

MemoryUpdateGroup(s, g, announcement, muteAll) ==
    IF g \notin DOMAIN s.groups THEN Reply(s, Refused)
    ELSE Reply([s EXCEPT !.groups[g] = [@ EXCEPT !.announcement = announcement, !.muteAll = muteAll]], Accepted)

\* The answer about a member that is not there is an error.
MemorySetGroupMemberRole(s, g, u, role) ==
    IF ~ MemoryIsGroupMember(s, g, u) THEN Reply(s, Refused)
    ELSE Reply([s EXCEPT !.groups[g].members =
                   {IF m.user = u THEN [m EXCEPT !.role = role] ELSE m : m \in @}], Accepted)

MemorySetGroupMemberMute(s, g, u, muted) ==
    IF ~ MemoryIsGroupMember(s, g, u) THEN Reply(s, Refused)
    ELSE Reply([s EXCEPT !.groups[g].members =
                   {IF m.user = u THEN [m EXCEPT !.muted = muted] ELSE m : m \in @}], Accepted)

HandedOver(group, from, to) ==
    [group EXCEPT !.owner = to,
        !.members = {CASE m.user = from -> [m EXCEPT !.role = "member"]
                       [] m.user = to -> [m EXCEPT !.role = "owner", !.muted = FALSE]
                       [] OTHER -> m : m \in @}]

MemoryTransferGroupOwnership(s, g, from, to) ==
    IF \/ g \notin DOMAIN s.groups
       \/ s.groups[g].owner # from
       \/ from = to
       \/ ~ MemoryIsGroupMember(s, g, from)
       \/ ~ \E m \in s.groups[g].members : m.user = to /\ m.role # "owner"
    THEN Reply(s, Refused)
    ELSE Reply([s EXCEPT !.groups[g] = HandedOver(@, from, to)], Accepted)

\* The messages go, and with them neither their reactions nor the records of
\* retried requests nor the events, nor the members' preferences.
MemoryDeleteGroup(s, g) ==
    IF g \notin DOMAIN s.groups THEN Reply(s, Refused)
    ELSE LET ids == {a.id : a \in {a \in s.announcements : a.group = g}}
         IN Reply([s EXCEPT !.groups = Restrict(@, DOMAIN @ \ {g}),
                     !.conversations = Restrict(@, DOMAIN @ \ {g}),
                     !.messages = Restrict(@, DOMAIN @ \ {g}),
                     !.reads = {r \in @ : r.conversation # g},
                     !.announcementReads = {r \in @ : r.announcement \notin ids},
                     !.announcements = {a \in @ : a.group # g}], Accepted)

MemoryAddGroupMember(s, g, u) ==
    IF g \notin DOMAIN s.groups \/ MemoryIsGroupMember(s, g, u) THEN Reply(s, FALSE)
    ELSE Reply([s EXCEPT !.groups[g].members =
                   @ \cup {[user |-> u, role |-> "member", muted |-> FALSE]}], TRUE)

MemoryRemoveGroupMember(s, g, u) ==
    IF ~ MemoryIsGroupMember(s, g, u) THEN Reply(s, FALSE)
    ELSE Reply([s EXCEPT !.groups[g].members = {m \in @ : m.user # u}], TRUE)

----------------------------------------------------------------------------
(* Group announcements (internal/store/announcements.go) *)

MemoryCreateGroupAnnouncement(s, g, content, pinned, now) ==
    IF g \notin DOMAIN s.groups THEN Reply(s, Refused)
    ELSE Reply([s EXCEPT !.announcements = @ \cup
                  {[id |-> now, group |-> g, content |-> content, pinned |-> pinned, at |-> now]}], now)

MemoryUpdateGroupAnnouncement(s, id, content, pinned, now) ==
    IF ~ \E a \in s.announcements : a.id = id THEN Reply(s, Nothing)
    ELSE Reply([s EXCEPT !.announcements =
                  {IF a.id = id THEN [a EXCEPT !.content = content, !.pinned = pinned, !.at = now]
                   ELSE a : a \in @}], id)

MemoryDeleteGroupAnnouncement(s, id) ==
    IF ~ \E a \in s.announcements : a.id = id THEN Reply(s, FALSE)
    ELSE Reply([s EXCEPT !.announcements = {a \in @ : a.id # id},
                         !.announcementReads = {r \in @ : r.announcement # id}], TRUE)

MemoryMarkGroupAnnouncementRead(s, id, u) ==
    IF ~ \E a \in s.announcements : a.id = id THEN Reply(s, Refused)
    ELSE Reply([s EXCEPT !.announcementReads = @ \cup {[announcement |-> id, user |-> u]}], Accepted)

\* Pinned announcements first, the latest change first among equals.
AnnouncedBefore(a, b) == IF a.pinned # b.pinned THEN a.pinned ELSE a.at > b.at
AnnouncementList(announcements, g) ==
    SetToSortSeq({a \in announcements : a.group = g}, AnnouncedBefore)

MemoryGetGroupAnnouncements(s, g, u) ==
    LET listed == AnnouncementList(s.announcements, g)
    IN [i \in DOMAIN listed |->
          [announcement |-> listed[i],
           read |-> [announcement |-> listed[i].id, user |-> u] \in s.announcementReads]]

\* An empty store (NewMemoryStore).
EmptyMemoryStore ==
    [conversations |-> <<>>, preferences |-> {}, messages |-> <<>>, sent |-> {}, updated |-> {},
     events |-> {}, reactions |-> {}, reads |-> {}, groups |-> <<>>, announcements |-> {},
     announcementReads |-> {}]

=============================================================================
