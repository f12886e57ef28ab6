----------------------------- MODULE SqlBackends -----------------------------
(***************************************************************************)
(* The SQLite and PostgreSQL stores of the IM server (internal/store/      *)
(* sqlite.go, postgres.go, read_state.go, announcements.go): the methods   *)
(* MemoryBackend models, as operators on the tables they query. A table is *)
(* a set of rows; a statement of a method is a set expression, and the     *)
(* keys the schemas declare decide what an INSERT does. Where PostgreSQL   *)
(* runs the statements of SQLite with other placeholders its operator is   *)
(* the one of SQLite; where it does not, it is written out: SQLite checks  *)
(* no foreign key (the driver leaves them off), PostgreSQL has one, from   *)
(* message_reactions to messages.                                          *)
(***************************************************************************)
EXTENDS MemoryBackend

\* The tables after initSchema on an empty database.
EmptyTables ==
    [conversations |-> {}, preferences |-> {}, messages |-> {}, updated |-> {}, events |-> {},
     reactions |-> {}, reads |-> {}, groups |-> {}, members |-> {}, announcements |-> {},
     announcementReads |-> {}]
PostgresEmptyTables == EmptyTables

TheRow(rows) == IF rows = {} THEN Nothing ELSE CHOOSE r \in rows : TRUE

----------------------------------------------------------------------------
(* Conversations and preferences *)

ConversationRow(d, c) == TheRow({r \in d.conversations : r.id = c})

SQLiteGetConversation(d, c) ==
    LET r == ConversationRow(d, c)
    IN IF r = Nothing THEN Nothing ELSE [kind |-> r.kind, people |-> r.people]

PostgresGetConversation(d, c) == SQLiteGetConversation(d, c)

SQLiteGetOrCreateConversation(d, c, kind) ==
    IF ConversationRow(d, c) # Nothing THEN Reply(d, SQLiteGetConversation(d, c))
    ELSE LET new == [d EXCEPT !.conversations = @ \cup {[id |-> c, kind |-> kind, people |-> {}]}]
         IN Reply(new, SQLiteGetConversation(new, c))

PostgresGetOrCreateConversation(d, c, kind) == SQLiteGetOrCreateConversation(d, c, kind)

SQLiteSaveConversation(d, c, kind, people) ==
    Reply([d EXCEPT !.conversations = {r \in @ : r.id # c} \cup
              {[id |-> c, kind |-> kind, people |-> people]}], Accepted)

PostgresSaveConversation(d, c, kind, people) == SQLiteSaveConversation(d, c, kind, people)

\* participants LIKE '%user%': a participant whose name holds the user's
\* name matches too. contains has the pairs of names where that is so.
SQLitePrivateConversations(d, u, contains) ==
    {r.id : r \in {r \in d.conversations : r.kind = "private" /\ \E x \in r.people : x = u \/ <<x, u>> \in contains}}

SQLiteGroupConversations(d, u) ==
    {r.id : r \in {r \in d.conversations : \E m \in d.members : m.group = r.id /\ m.user = u}}

SQLiteGetUserConversations(d, u, contains) ==
    SQLitePrivateConversations(d, u, contains) \cup SQLiteGroupConversations(d, u)

PostgresGetUserConversations(d, u) ==
    {r.id : r \in {r \in d.conversations : r.kind = "private" /\ u \in r.people}}
    \cup {r.id : r \in {r \in d.conversations : \E m \in d.members : m.group = r.id /\ m.user = u}}

SQLiteGetConversationPreference(d, c, u) ==
    LET r == TheRow({p \in d.preferences : p.conversation = c /\ p.user = u})
    IN IF r = Nothing THEN Nothing
       ELSE LET level == NormalizeNotificationLevel(r.level, r.muted)
            IN [r EXCEPT !.level = level, !.muted = level = "muted"]

PostgresGetConversationPreference(d, c, u) == SQLiteGetConversationPreference(d, c, u)

SQLiteSetConversationPreference(d, c, u, level, muted) ==
    LET normal == NormalizeNotificationLevel(level, muted)
    IN Reply([d EXCEPT !.preferences = {p \in @ : p.conversation # c \/ p.user # u} \cup
                 {[conversation |-> c, user |-> u, level |-> normal, muted |-> normal = "muted"]}], Accepted)

PostgresSetConversationPreference(d, c, u, level, muted) ==
    SQLiteSetConversationPreference(d, c, u, level, muted)

----------------------------------------------------------------------------
(* Messages *)

RowReactions(d, id) == {r \in d.reactions : r.message = id}

MessageRow(d, id) == TheRow({m \in d.messages : m.id = id})

SQLiteGetMessage(d, id) ==
    LET m == MessageRow(d, id) IN IF m = Nothing THEN Nothing ELSE Loaded(m, RowReactions(d, id))

PostgresGetMessage(d, id) == SQLiteGetMessage(d, id)

\* The message an earlier request with the same client identifier stored.
SQLiteIdempotentMessage(d, u, k, print) ==
    LET m == TheRow({m \in d.messages : m.sender = u /\ m.client = k})
    IN CASE m = Nothing -> Nothing
         [] m # Nothing /\ m.print # print -> Conflict
         [] OTHER -> [duplicate |-> TRUE, message |-> m.id]

PostgresIdempotentMessage(d, u, k, print) == SQLiteIdempotentMessage(d, u, k, print)

\* An empty client identifier is stored as NULL, which conflicts with nothing.
SQLiteStoreMessageIdempotent(d, c, u, k, segments, now) ==
    LET print == MessageFingerprint(c, segments)
        known == SQLiteIdempotentMessage(d, u, k, print)
        row == [id |-> now, conversation |-> c, sender |-> u, segments |-> segments, client |-> k,
                print |-> IF k = Empty THEN <<>> ELSE print, recalled |-> FALSE]
    IN IF k # Empty /\ known # Nothing THEN Reply(d, known)
       ELSE Reply([d EXCEPT !.messages = @ \cup {row}], [duplicate |-> FALSE, message |-> now])

PostgresStoreMessageIdempotent(d, c, u, k, segments, now) ==
    LET print == MessageFingerprint(c, segments)
        known == PostgresIdempotentMessage(d, u, k, print)
        row == [id |-> now, conversation |-> c, sender |-> u, segments |-> segments, client |-> k,
                print |-> IF k = Empty THEN <<>> ELSE print, recalled |-> FALSE]
    IN IF k # Empty /\ known # Nothing THEN Reply(d, known)
       ELSE Reply([d EXCEPT !.messages = @ \cup {row}], [duplicate |-> FALSE, message |-> now])

SQLiteUpdateMessageSegments(d, id, segments) ==
    LET new == [d EXCEPT !.messages = {IF m.id = id THEN [m EXCEPT !.segments = segments] ELSE m : m \in @}]
    IN Reply(new, SQLiteGetMessage(new, id))

PostgresUpdateMessageSegments(d, id, segments) == SQLiteUpdateMessageSegments(d, id, segments)

\* INSERT OR IGNORE on the key (actor, event), then the fingerprint of the
\* row that was already there.
SQLiteAppendDynamicInteractionEvent(d, e) ==
    LET known == TheRow({x \in d.events : x.actor = e.actor /\ x.event = e.event})
    IN IF known = Nothing THEN Reply([d EXCEPT !.events = @ \cup {e}], Accepted)
       ELSE Reply(d, IF EventFingerprint(known) = EventFingerprint(e) THEN Duplicate ELSE Conflict)

PostgresAppendDynamicInteractionEvent(d, e) == SQLiteAppendDynamicInteractionEvent(d, e)

\* One transaction: the segments and the event, or neither.
SQLiteCommitDynamicInteractionEvent(d, e, segments) ==
    LET known == TheRow({x \in d.events : x.actor = e.actor /\ x.event = e.event})
        new == SQLiteUpdateMessageSegments(d, e.message, segments).store
    IN CASE known # Nothing -> SQLiteAppendDynamicInteractionEvent(d, e)
         [] known = Nothing /\ MessageRow(d, e.message) = Nothing -> Reply(d, Refused)
         [] OTHER -> Reply([new EXCEPT !.events = @ \cup {e}], Accepted)

PostgresCommitDynamicInteractionEvent(d, e, segments) ==
    SQLiteCommitDynamicInteractionEvent(d, e, segments)

SQLiteGetDynamicInteractionEvents(d, c, id) ==
    {e \in d.events : e.conversation = c /\ e.message = id}

PostgresGetDynamicInteractionEvents(d, c, id) == SQLiteGetDynamicInteractionEvents(d, c, id)

SQLiteLookupDynamicUpdate(d, u, k, print) ==
    LET r == TheRow({r \in d.updated : r.sender = u /\ r.client = k})
    IN CASE k = Empty \/ r = Nothing -> Nothing
         [] k # Empty /\ r # Nothing /\ r.print # print -> Conflict
         [] OTHER -> [duplicate |-> TRUE, message |-> SQLiteGetMessage(d, r.message)]

PostgresLookupDynamicUpdate(d, u, k, print) == SQLiteLookupDynamicUpdate(d, u, k, print)

SQLiteStoreDynamicUpdateIdempotent(d, u, k, print, id, segments) ==
    LET known == SQLiteLookupDynamicUpdate(d, u, k, print)
        done == SQLiteUpdateMessageSegments(d, id, segments)
        key == [sender |-> u, client |-> k, print |-> print, message |-> id]
    IN CASE known # Nothing -> Reply(d, known)
         [] known = Nothing /\ done.answer = Nothing -> Reply(d, Nothing)
         [] OTHER -> Reply(IF k = Empty THEN done.store ELSE [done.store EXCEPT !.updated = @ \cup {key}],
                           [duplicate |-> FALSE, message |-> done.answer])

PostgresStoreDynamicUpdateIdempotent(d, u, k, print, id, segments) ==
    SQLiteStoreDynamicUpdateIdempotent(d, u, k, print, id, segments)

\* The rows about messages that the delete methods remove before them.
WithoutRecordsOf(d, ids) ==
    [d EXCEPT !.reactions = {r \in @ : r.message \notin ids},
              !.updated = {r \in @ : r.message \notin ids}]

SQLiteDeleteMessage(d, id) ==
    Reply([WithoutRecordsOf(d, {id}) EXCEPT !.events = {e \in @ : e.message # id},
                                            !.messages = {m \in @ : m.id # id}],
          MessageRow(d, id) # Nothing)

\* PostgreSQL refuses to delete a message that a reaction still refers to.
DeletionRefused(d, ids) == \E r \in d.reactions : r.message \in ids

PostgresDeleteMessage(d, id) ==
    LET cleared == [WithoutRecordsOf(d, {id}) EXCEPT !.events = {e \in @ : e.message # id}]
    IN IF DeletionRefused(cleared, {id}) THEN Reply(d, Refused)
       ELSE Reply([cleared EXCEPT !.messages = {m \in @ : m.id # id}], MessageRow(d, id) # Nothing)

IdsIn(d, c) == {m.id : m \in {m \in d.messages : m.conversation = c}}

SQLiteDeleteConversation(d, c) ==
    Reply([WithoutRecordsOf(d, IdsIn(d, c)) EXCEPT
              !.preferences = {p \in @ : p.conversation # c},
              !.reads = {r \in @ : r.conversation # c},
              !.events = {e \in @ : e.conversation # c},
              !.messages = {m \in @ : m.conversation # c},
              !.conversations = {r \in @ : r.id # c}], Accepted)

PostgresDeleteConversation(d, c) ==
    LET cleared == [WithoutRecordsOf(d, IdsIn(d, c)) EXCEPT
                       !.preferences = {p \in @ : p.conversation # c},
                       !.reads = {r \in @ : r.conversation # c},
                       !.events = {e \in @ : e.conversation # c}]
    IN IF DeletionRefused(cleared, IdsIn(d, c)) THEN Reply(cleared, Refused)
       ELSE Reply([cleared EXCEPT !.messages = {m \in @ : m.conversation # c},
                                  !.conversations = {r \in @ : r.id # c}], Accepted)

SQLiteReactToMessage(d, id, u, emoji, remove) ==
    LET row == [message |-> id, emoji |-> emoji, user |-> u]
        new == [d EXCEPT !.reactions = IF remove THEN @ \ {row} ELSE @ \cup {row}]
    IN IF ~ \E m \in d.messages : m.id = id /\ ~ m.recalled THEN Reply(d, Nothing)
       ELSE Reply(new, SQLiteGetMessage(new, id))

PostgresReactToMessage(d, id, u, emoji, remove) == SQLiteReactToMessage(d, id, u, emoji, remove)

SQLiteGetMessageReactionIDs(d, id, u) == {r.emoji : r \in {r \in RowReactions(d, id) : r.user = u}}

PostgresGetMessageReactionIDs(d, id, u) == SQLiteGetMessageReactionIDs(d, id, u)

SQLiteRecallMessage(d, id) ==
    Reply([d EXCEPT !.messages = {IF m.id = id THEN [m EXCEPT !.recalled = TRUE] ELSE m : m \in @}],
          MessageRow(d, id) # Nothing)

PostgresRecallMessage(d, id) == SQLiteRecallMessage(d, id)

\* The limit newest rows older than the given one, oldest first. A message
\* that is not in the conversation makes the comparison NULL: no rows.
SQLiteGetMessagesBefore(d, c, before, limit) ==
    LET anchored == \E m \in d.messages : m.conversation = c /\ m.id = before
        rows == {m \in d.messages : m.conversation = c /\ (before = 0 \/ (anchored /\ m.id < before))}
        newest == LatestFirst(rows)
        page == Reverse(SubSeq(newest, 1, IF limit < Len(newest) THEN limit ELSE Len(newest)))
    IN [i \in DOMAIN page |-> Loaded(page[i], RowReactions(d, page[i].id))]

PostgresGetMessagesBefore(d, c, before, limit) == SQLiteGetMessagesBefore(d, c, before, limit)

SQLiteGetRecentMessages(d, limit) == LatestIds(d.messages, limit)

PostgresGetRecentMessages(d, limit) == SQLiteGetRecentMessages(d, limit)

----------------------------------------------------------------------------
(* Read marks *)

\* The newest message is read by one statement, the mark written by another.
SQLiteNewestMessage(d, c, now) ==
    LET ids == IdsIn(d, c)
        newest == CHOOSE i \in ids : \A j \in ids : i >= j
    IN IF ids = {} THEN [last |-> 0, at |-> now] ELSE [last |-> newest, at |-> newest]

SQLiteMarkConversationRead(d, c, u, now) ==
    LET mark == SQLiteNewestMessage(d, c, now)
        row == [conversation |-> c, user |-> u, last |-> mark.last, at |-> mark.at]
    IN Reply([d EXCEPT !.reads = {r \in @ : r.conversation # c \/ r.user # u} \cup {row}], row)

PostgresMarkConversationRead(d, c, u, now) == SQLiteMarkConversationRead(d, c, u, now)

SQLiteGetConversationReadStates(d, c) == {r \in d.reads : r.conversation = c}

PostgresGetConversationReadStates(d, c) == SQLiteGetConversationReadStates(d, c)

SQLiteCountUnreadMessages(d, c, u) ==
    LET mark == TheRow({r \in SQLiteGetConversationReadStates(d, c) : r.user = u})
    IN Cardinality({m \in d.messages : m.conversation = c /\ m.sender # u
                                       /\ (mark = Nothing \/ m.id > mark.at)})

PostgresCountUnreadMessages(d, c, u) == SQLiteCountUnreadMessages(d, c, u)

----------------------------------------------------------------------------
(* Groups *)

GroupRow(d, g) == TheRow({r \in d.groups : r.id = g})

SQLiteGetGroupMembers(d, g) ==
    {[user |-> m.user, role |-> m.role, muted |-> m.muted] : m \in {m \in d.members : m.group = g}}

PostgresGetGroupMembers(d, g) == SQLiteGetGroupMembers(d, g)

SQLiteGetGroup(d, g) ==
    LET r == GroupRow(d, g)
    IN IF r = Nothing THEN Nothing
       ELSE [owner |-> r.owner, muteAll |-> r.muteAll, announcement |-> r.announcement,
             members |-> SQLiteGetGroupMembers(d, g)]

PostgresGetGroup(d, g) == SQLiteGetGroup(d, g)

SQLiteCreateGroup(d, g, u) ==
    IF GroupRow(d, g) # Nothing THEN Reply(d, Refused)
    ELSE Reply([d EXCEPT
        !.groups = @ \cup {[id |-> g, owner |-> u, muteAll |-> FALSE, announcement |-> Empty]},
        !.members = @ \cup {[group |-> g, user |-> u, role |-> "owner", muted |-> FALSE]}], Accepted)

PostgresCreateGroup(d, g, u) == SQLiteCreateGroup(d, g, u)

SQLiteIsGroupMember(d, g, u) == \E m \in d.members : m.group = g /\ m.user = u

PostgresIsGroupMember(d, g, u) == SQLiteIsGroupMember(d, g, u)

SQLiteGetUserGroups(d, u) ==
    {r.id : r \in {r \in d.groups : \E m \in d.members : m.group = r.id /\ m.user = u}}

PostgresGetUserGroups(d, u) == SQLiteGetUserGroups(d, u)

SQLiteUpdateGroup(d, g, announcement, muteAll) ==
    IF GroupRow(d, g) = Nothing THEN Reply(d, Refused)
    ELSE Reply([d EXCEPT !.groups =
            {IF r.id = g THEN [r EXCEPT !.announcement = announcement, !.muteAll = muteAll] ELSE r : r \in @}], Accepted)

PostgresUpdateGroup(d, g, announcement, muteAll) == SQLiteUpdateGroup(d, g, announcement, muteAll)

\* UPDATE group_members SET ... WHERE group_id = g AND user_id = u
RoleUpdated(members, g, u, role) ==
    {IF m.group = g /\ m.user = u THEN [m EXCEPT !.role = role] ELSE m : m \in members}
MuteUpdated(members, g, u, muted) ==
    {IF m.group = g /\ m.user = u THEN [m EXCEPT !.muted = muted] ELSE m : m \in members}

SQLiteSetGroupMemberRole(d, g, u, role) ==
    IF ~ SQLiteIsGroupMember(d, g, u) THEN Reply(d, Refused)
    ELSE Reply([d EXCEPT !.members = RoleUpdated(@, g, u, role)], Accepted)

PostgresSetGroupMemberRole(d, g, u, role) == SQLiteSetGroupMemberRole(d, g, u, role)

SQLiteSetGroupMemberMute(d, g, u, muted) ==
    IF ~ SQLiteIsGroupMember(d, g, u) THEN Reply(d, Refused)
    ELSE Reply([d EXCEPT !.members = MuteUpdated(@, g, u, muted)], Accepted)

PostgresSetGroupMemberMute(d, g, u, muted) == SQLiteSetGroupMemberMute(d, g, u, muted)

\* The target must be a member or an admin, and the row of the group must
\* still name the current owner; a refusal rolls the transaction back.
SQLiteTransferGroupOwnership(d, g, from, to) ==
    LET target == TheRow({m \in d.members : m.group = g /\ m.user = to})
        moved == {IF r.id = g THEN [r EXCEPT !.owner = to] ELSE r : r \in d.groups}
        demoted == RoleUpdated(d.members, g, from, "member")
        promoted == MuteUpdated(RoleUpdated(demoted, g, to, "owner"), g, to, FALSE)
    IN IF \/ target = Nothing
          \/ target # Nothing /\ target.role \notin {"member", "admin"}
          \/ ~ \E r \in d.groups : r.id = g /\ r.owner = from
       THEN Reply(d, Refused) ELSE Reply([d EXCEPT !.groups = moved, !.members = promoted], Accepted)

PostgresTransferGroupOwnership(d, g, from, to) == SQLiteTransferGroupOwnership(d, g, from, to)

\* The rows of the group, but not the preferences, the reactions, the events
\* and the update keys of its messages.
GroupRowsDeleted(d, g) ==
    LET ids == {a.id : a \in {a \in d.announcements : a.group = g}}
    IN [d EXCEPT !.announcementReads = {r \in @ : r.announcement \notin ids},
                 !.announcements = {a \in @ : a.group # g},
                 !.reads = {r \in @ : r.conversation # g},
                 !.messages = {m \in @ : m.conversation # g},
                 !.members = {m \in @ : m.group # g},
                 !.conversations = {r \in @ : r.id # g},
                 !.groups = {r \in @ : r.id # g}]

SQLiteDeleteGroup(d, g) ==
    IF GroupRow(d, g) = Nothing THEN Reply(d, Refused) ELSE Reply(GroupRowsDeleted(d, g), Accepted)

PostgresDeleteGroup(d, g) ==
    IF DeletionRefused(d, IdsIn(d, g)) \/ GroupRow(d, g) = Nothing THEN Reply(d, Refused)
    ELSE Reply(GroupRowsDeleted(d, g), Accepted)

SQLiteAddGroupMember(d, g, u) ==
    IF SQLiteIsGroupMember(d, g, u) THEN Reply(d, FALSE)
    ELSE Reply([d EXCEPT !.members = @ \cup {[group |-> g, user |-> u, role |-> "member", muted |-> FALSE]}], TRUE)

PostgresAddGroupMember(d, g, u) == SQLiteAddGroupMember(d, g, u)

SQLiteRemoveGroupMember(d, g, u) ==
    Reply([d EXCEPT !.members = {m \in @ : m.group # g \/ m.user # u}], SQLiteIsGroupMember(d, g, u))

PostgresRemoveGroupMember(d, g, u) == SQLiteRemoveGroupMember(d, g, u)

----------------------------------------------------------------------------
(* Group announcements *)

SQLiteCreateGroupAnnouncement(d, g, content, pinned, now) ==
    Reply([d EXCEPT !.announcements = @ \cup
              {[id |-> now, group |-> g, content |-> content, pinned |-> pinned, at |-> now]}], now)

PostgresCreateGroupAnnouncement(d, g, content, pinned, now) ==
    SQLiteCreateGroupAnnouncement(d, g, content, pinned, now)

SQLiteUpdateGroupAnnouncement(d, id, content, pinned, now) ==
    IF ~ \E a \in d.announcements : a.id = id THEN Reply(d, Nothing)
    ELSE Reply([d EXCEPT !.announcements =
                  {IF a.id = id THEN [a EXCEPT !.content = content, !.pinned = pinned, !.at = now]
                   ELSE a : a \in @}], id)

PostgresUpdateGroupAnnouncement(d, id, content, pinned, now) ==
    SQLiteUpdateGroupAnnouncement(d, id, content, pinned, now)

SQLiteDeleteGroupAnnouncement(d, id) ==
    Reply([d EXCEPT !.announcementReads = {r \in @ : r.announcement # id},
                    !.announcements = {a \in @ : a.id # id}],
          \E a \in d.announcements : a.id = id)

PostgresDeleteGroupAnnouncement(d, id) == SQLiteDeleteGroupAnnouncement(d, id)

SQLiteMarkGroupAnnouncementRead(d, id, u) ==
    Reply([d EXCEPT !.announcementReads = @ \cup {[announcement |-> id, user |-> u]}], Accepted)

PostgresMarkGroupAnnouncementRead(d, id, u) == SQLiteMarkGroupAnnouncementRead(d, id, u)

SQLiteGetGroupAnnouncements(d, g, u) ==
    LET listed == AnnouncementList(d.announcements, g)
    IN [i \in DOMAIN listed |->
          [announcement |-> listed[i],
           read |-> [announcement |-> listed[i].id, user |-> u] \in d.announcementReads]]

PostgresGetGroupAnnouncements(d, g, u) == SQLiteGetGroupAnnouncements(d, g, u)

=============================================================================
