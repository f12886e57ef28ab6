-------------------------- MODULE StoreConformance ---------------------------
(***************************************************************************)
(* The three implementations of the Store interface side by side: every    *)
(* step calls one method with the same arguments on an in-memory, an       *)
(* SQLite and a PostgreSQL store that have seen the same calls, and the    *)
(* properties compare what they answer and what they then hold. The tests  *)
(* of the repository run against the first two only.                       *)
(*                                                                         *)
(* The calls are the ones the gateway and the admin console make: they     *)
(* look a group, a member or a conversation up first, so a guard stands    *)
(* where a handler returns early. Comparing ends with the deletion of the  *)
(* group, which leaves different records of its messages behind.           *)
(***************************************************************************)
EXTENDS SqlBackends

CONSTANTS
    Owner, Guest,        \* two users
    NameContains,        \* pairs <<x, y>>: the name of x contains the name of y
    PrivateChat,         \* the private conversation of the two
    TheGroup,            \* a group conversation, created by Owner
    SendRequests,        \* requests to store a message
    EventRequests,       \* interaction events, each with the message they are about
    PreferenceRequests,  \* notification levels with the old mute flag
    MaxClock, MaxCalls   \* bounds: message identifiers, calls

VARIABLES memory, sqlite, postgres, replies, clock, calls

storeVars == <<memory, sqlite, postgres, replies, clock, calls>>

People == {Owner, Guest}
Places == {PrivateChat, TheGroup}

\* The values a message can carry, and the rows of the tables that hold them.
StoredSegments == {r.segments : r \in SendRequests} \cup {e.payload : e \in EventRequests}
ClientKeys == {r.client : r \in SendRequests}
StorePrints == {<<>>} \cup ((Places \cup Nat) \X StoredSegments)
StoredMessages == [id : Nat, sender : People, segments : StoredSegments, recalled : BOOLEAN]
LoadedMessages ==
    [id : Nat, sender : People, segments : StoredSegments, recalled : BOOLEAN,
     counts : UNION {[S -> Nat] : S \in SUBSET {"like"}}]
MessageRows ==
    [id : Nat, conversation : Places, sender : People, segments : StoredSegments,
     client : ClientKeys, print : StorePrints, recalled : BOOLEAN]
KeyRows == [sender : People, client : ClientKeys, print : StorePrints, message : Nat]
InteractionRows ==
    [actor : {e.actor : e \in EventRequests}, event : {e.event : e \in EventRequests},
     payload : StoredSegments, message : Nat, conversation : Places]
ConversationRows == [id : Places, kind : {"private", "group"}, people : SUBSET People]
PreferenceRows ==
    [conversation : Places, user : People, level : {"normal", "mentions_only", "muted"}, muted : BOOLEAN]
ReadRows == [conversation : Places, user : People, last : Nat, at : Nat]
MemberRows ==
    [group : {TheGroup}, user : People, role : {"owner", "admin", "member"}, muted : BOOLEAN]
ChatGroupRows == [id : {TheGroup}, owner : People, muteAll : BOOLEAN, announcement : {Empty, "news"}]
StoredGroups ==
    [owner : People, muteAll : BOOLEAN, announcement : {Empty, "news"},
     members : SUBSET [user : People, role : {"owner", "admin", "member"}, muted : BOOLEAN]]

\* Two users, two conversations between them, and a nil pointer is no row and
\* no answer.
ASSUME StoreAssumption ==
    /\ Owner # Guest
    /\ PrivateChat # TheGroup
    /\ \A r \in SendRequests : r.conversation \in Places /\ r.sender \in People
    /\ Nothing # Conflict
    /\ Nothing \notin StoredMessages /\ Nothing \notin LoadedMessages /\ Nothing \notin MessageRows
    /\ Nothing \notin KeyRows /\ Nothing \notin InteractionRows /\ Nothing \notin ConversationRows
    /\ Nothing \notin PreferenceRows /\ Nothing \notin ReadRows /\ Nothing \notin MemberRows
    /\ Nothing \notin ChatGroupRows /\ Nothing \notin StoredGroups
    /\ Nothing \notin [duplicate : BOOLEAN, message : Nat \cup {Nothing} \cup LoadedMessages]

\* The store after the two became friends and Owner created the group with
\* Guest in it.
SeededMemory ==
    LET private == MemorySaveConversation(EmptyMemoryStore, PrivateChat, "private", People).store
        group == MemoryCreateGroup(private, TheGroup, Owner).store
        both == MemoryAddGroupMember(group, TheGroup, Guest).store
    IN MemorySaveConversation(both, TheGroup, "group", {}).store

SeededTables(empty) ==
    LET private == SQLiteSaveConversation(empty, PrivateChat, "private", People).store
        group == SQLiteCreateGroup(private, TheGroup, Owner).store
        both == SQLiteAddGroupMember(group, TheGroup, Guest).store
    IN SQLiteSaveConversation(both, TheGroup, "group", {}).store

StoreInit ==
    /\ memory = SeededMemory
    /\ sqlite = SeededTables(EmptyTables)
    /\ postgres = SeededTables(PostgresEmptyTables)
    /\ replies = <<Accepted, Accepted, Accepted>>
    /\ clock = 0
    /\ calls = 0

\* The groups PostgreSQL still has and SQLite does not.
KeptGroups == {r.id : r \in postgres.groups} \ {r.id : r \in sqlite.groups}

GroupExists == MemoryGetGroup(memory, TheGroup) # Nothing

\* One call of the same method on the three stores.
StoreCall(m, l, p) ==
    /\ calls < MaxCalls
    /\ GroupExists
    /\ memory' = m.store
    /\ sqlite' = l.store
    /\ postgres' = p.store
    /\ replies' = <<m.answer, l.answer, p.answer>>
    /\ calls' = calls + 1

\* A call that names what it creates by the time of day.
Stamped == clock < MaxClock /\ clock' = clock + 1
Unstamped == UNCHANGED clock

\* What a client can name: the messages and announcements stored so far.
Stamps == 1 .. clock

InGroup(u) == MemoryIsGroupMember(memory, TheGroup, u)
PrivateExists == PrivateChat \in DOMAIN memory.conversations

\* canAccessConversation, with the two users friends that block nobody.
CanAccess(u, c) == IF c = TheGroup THEN InGroup(u) ELSE PrivateExists

----------------------------------------------------------------------------
(* Conversations: opened for friends, found or created by a send, deleted  *)
(* by the admin console (private ones only).                               *)

SaveConversation ==
    /\ StoreCall(MemorySaveConversation(memory, PrivateChat, "private", People),
                 SQLiteSaveConversation(sqlite, PrivateChat, "private", People),
                 PostgresSaveConversation(postgres, PrivateChat, "private", People))
    /\ Unstamped

GetOrCreateConversation(c) ==
    LET kind == IF c = TheGroup THEN "group" ELSE "private"
    IN /\ \E u \in People : CanAccess(u, c)
       /\ StoreCall(MemoryGetOrCreateConversation(memory, c, kind),
                    SQLiteGetOrCreateConversation(sqlite, c, kind),
                    PostgresGetOrCreateConversation(postgres, c, kind))
       /\ Unstamped

SetConversationPreference(c, u, request) ==
    /\ CanAccess(u, c)
    /\ StoreCall(MemorySetConversationPreference(memory, c, u, request.level, request.muted),
                 SQLiteSetConversationPreference(sqlite, c, u, request.level, request.muted),
                 PostgresSetConversationPreference(postgres, c, u, request.level, request.muted))
    /\ Unstamped

DeleteConversation ==
    /\ PrivateExists
    /\ StoreCall(MemoryDeleteConversation(memory, PrivateChat),
                 SQLiteDeleteConversation(sqlite, PrivateChat),
                 PostgresDeleteConversation(postgres, PrivateChat))
    /\ Unstamped

----------------------------------------------------------------------------
(* Messages *)

StoreMessageIdempotent(r) ==
    /\ CanAccess(r.sender, r.conversation)
    /\ Stamped
    /\ StoreCall(
         MemoryStoreMessageIdempotent(memory, r.conversation, r.sender, r.client, r.segments, clock + 1),
         SQLiteStoreMessageIdempotent(sqlite, r.conversation, r.sender, r.client, r.segments, clock + 1),
         PostgresStoreMessageIdempotent(postgres, r.conversation, r.sender, r.client, r.segments, clock + 1))

StoreDynamicUpdateIdempotent(id, r) ==
    LET print == MessageFingerprint(id, r.segments)
    IN /\ StoreCall(
            MemoryStoreDynamicUpdateIdempotent(memory, r.sender, r.client, print, id, r.segments),
            SQLiteStoreDynamicUpdateIdempotent(sqlite, r.sender, r.client, print, id, r.segments),
            PostgresStoreDynamicUpdateIdempotent(postgres, r.sender, r.client, print, id, r.segments))
       /\ Unstamped

EventOf(id, e) ==
    [actor |-> e.actor, event |-> e.event, payload |-> e.payload, message |-> id,
     conversation |-> IF id \in {m.id : m \in ToSet(MemoryHistory(memory, TheGroup))}
                        THEN TheGroup ELSE PrivateChat]

AppendDynamicInteractionEvent(id, e) ==
    /\ MemoryGetMessage(memory, id) # Nothing
    /\ StoreCall(MemoryAppendDynamicInteractionEvent(memory, EventOf(id, e)),
                 SQLiteAppendDynamicInteractionEvent(sqlite, EventOf(id, e)),
                 PostgresAppendDynamicInteractionEvent(postgres, EventOf(id, e)))
    /\ Unstamped

CommitDynamicInteractionEvent(id, e) ==
    /\ StoreCall(MemoryCommitDynamicInteractionEvent(memory, EventOf(id, e), e.payload),
                 SQLiteCommitDynamicInteractionEvent(sqlite, EventOf(id, e), e.payload),
                 PostgresCommitDynamicInteractionEvent(postgres, EventOf(id, e), e.payload))
    /\ Unstamped

DeleteMessage(id) ==
    /\ StoreCall(MemoryDeleteMessage(memory, id), SQLiteDeleteMessage(sqlite, id),
                 PostgresDeleteMessage(postgres, id))
    /\ Unstamped

ReactToMessage(id, u, remove) ==
    /\ StoreCall(MemoryReactToMessage(memory, id, u, "like", remove),
                 SQLiteReactToMessage(sqlite, id, u, "like", remove),
                 PostgresReactToMessage(postgres, id, u, "like", remove))
    /\ Unstamped

RecallMessage(id) ==
    /\ StoreCall(MemoryRecallMessage(memory, id), SQLiteRecallMessage(sqlite, id),
                 PostgresRecallMessage(postgres, id))
    /\ Unstamped

MarkConversationRead(c, u) ==
    /\ CanAccess(u, c)
    /\ StoreCall(MemoryMarkConversationRead(memory, c, u, clock),
                 SQLiteMarkConversationRead(sqlite, c, u, clock),
                 PostgresMarkConversationRead(postgres, c, u, clock))
    /\ Unstamped

----------------------------------------------------------------------------
(* Groups: the owner is never removed and never given another role *)

UpdateGroup(announcement, muteAll) ==
    /\ StoreCall(MemoryUpdateGroup(memory, TheGroup, announcement, muteAll),
                 SQLiteUpdateGroup(sqlite, TheGroup, announcement, muteAll),
                 PostgresUpdateGroup(postgres, TheGroup, announcement, muteAll))
    /\ Unstamped

SetGroupMemberRole(u, role) ==
    /\ ~ \E m \in sqlite.members : m.user = u /\ m.role = "owner"
    /\ StoreCall(MemorySetGroupMemberRole(memory, TheGroup, u, role),
                 SQLiteSetGroupMemberRole(sqlite, TheGroup, u, role),
                 PostgresSetGroupMemberRole(postgres, TheGroup, u, role))
    /\ Unstamped

SetGroupMemberMute(u, muted) ==
    /\ StoreCall(MemorySetGroupMemberMute(memory, TheGroup, u, muted),
                 SQLiteSetGroupMemberMute(sqlite, TheGroup, u, muted),
                 PostgresSetGroupMemberMute(postgres, TheGroup, u, muted))
    /\ Unstamped

TransferGroupOwnership(from, to) ==
    /\ StoreCall(MemoryTransferGroupOwnership(memory, TheGroup, from, to),
                 SQLiteTransferGroupOwnership(sqlite, TheGroup, from, to),
                 PostgresTransferGroupOwnership(postgres, TheGroup, from, to))
    /\ Unstamped

DeleteGroup ==
    /\ StoreCall(MemoryDeleteGroup(memory, TheGroup), SQLiteDeleteGroup(sqlite, TheGroup),
                 PostgresDeleteGroup(postgres, TheGroup))
    /\ Unstamped

AddGroupMember(u) ==
    /\ StoreCall(MemoryAddGroupMember(memory, TheGroup, u), SQLiteAddGroupMember(sqlite, TheGroup, u),
                 PostgresAddGroupMember(postgres, TheGroup, u))
    /\ Unstamped

RemoveGroupMember(u) ==
    /\ ~ \E m \in sqlite.members : m.user = u /\ m.role = "owner"
    /\ StoreCall(MemoryRemoveGroupMember(memory, TheGroup, u),
                 SQLiteRemoveGroupMember(sqlite, TheGroup, u),
                 PostgresRemoveGroupMember(postgres, TheGroup, u))
    /\ Unstamped

CreateGroupAnnouncement(content, pinned) ==
    /\ Stamped
    /\ StoreCall(MemoryCreateGroupAnnouncement(memory, TheGroup, content, pinned, clock + 1),
                 SQLiteCreateGroupAnnouncement(sqlite, TheGroup, content, pinned, clock + 1),
                 PostgresCreateGroupAnnouncement(postgres, TheGroup, content, pinned, clock + 1))

UpdateGroupAnnouncement(id, content, pinned) ==
    /\ \E a \in memory.announcements : a.id = id
    /\ Stamped
    /\ StoreCall(MemoryUpdateGroupAnnouncement(memory, id, content, pinned, clock + 1),
                 SQLiteUpdateGroupAnnouncement(sqlite, id, content, pinned, clock + 1),
                 PostgresUpdateGroupAnnouncement(postgres, id, content, pinned, clock + 1))

DeleteGroupAnnouncement(id) ==
    /\ StoreCall(MemoryDeleteGroupAnnouncement(memory, id), SQLiteDeleteGroupAnnouncement(sqlite, id),
                 PostgresDeleteGroupAnnouncement(postgres, id))
    /\ Unstamped

MarkGroupAnnouncementRead(id, u) ==
    /\ \E a \in memory.announcements : a.id = id
    /\ StoreCall(MemoryMarkGroupAnnouncementRead(memory, id, u),
                 SQLiteMarkGroupAnnouncementRead(sqlite, id, u),
                 PostgresMarkGroupAnnouncementRead(postgres, id, u))
    /\ Unstamped

MessageCalls ==
    \/ \E r \in SendRequests : StoreMessageIdempotent(r)
    \/ \E id \in Stamps :
        \/ DeleteMessage(id) \/ RecallMessage(id)
        \/ \E u \in People, remove \in BOOLEAN : ReactToMessage(id, u, remove)
        \/ \E r \in SendRequests : StoreDynamicUpdateIdempotent(id, r)
        \/ \E e \in EventRequests :
             AppendDynamicInteractionEvent(id, e) \/ CommitDynamicInteractionEvent(id, e)
    \/ \E c \in Places, u \in People : MarkConversationRead(c, u)

PlaceCalls ==
    \/ SaveConversation \/ DeleteConversation
    \/ \E c \in Places : GetOrCreateConversation(c)
    \/ \E c \in Places, r \in PreferenceRequests : SetConversationPreference(c, Guest, r)

GroupCalls ==
    \/ \E muteAll \in BOOLEAN : UpdateGroup("news", muteAll)
    \/ \E u \in People, role \in {"admin", "member"} : SetGroupMemberRole(u, role)
    \/ \E muted \in BOOLEAN : SetGroupMemberMute(Guest, muted)
    \/ \E from, to \in People : TransferGroupOwnership(from, to)
    \/ DeleteGroup
    \/ \E u \in People : AddGroupMember(u) \/ RemoveGroupMember(u)
    \/ \E pinned \in BOOLEAN : CreateGroupAnnouncement("news", pinned)
    \/ \E id \in Stamps :
        \/ \E pinned \in BOOLEAN : UpdateGroupAnnouncement(id, "update", pinned)
        \/ DeleteGroupAnnouncement(id) \/ MarkGroupAnnouncementRead(id, Guest)

StoreNext == MessageCalls \/ PlaceCalls \/ GroupCalls

StoreSpec == StoreInit /\ [][StoreNext]_storeVars

----------------------------------------------------------------------------
(* Properties *)

\* Every call gets the same answer from the three stores: the same message,
\* the same duplicate, the same refusal.
SameAnswers == KeptGroups = {} => replies[1] = replies[2] /\ replies[2] = replies[3]

\* A page of the history is the same on the three stores, whichever message
\* of the conversation the client pages back from.
SamePages ==
    \A c \in Places, limit \in 1 .. 2 :
        \A before \in {0} \cup {m.id : m \in ToSet(MemoryHistory(memory, c))} :
            LET page == MemoryGetMessagesBefore(memory, c, before, limit)
            IN /\ SQLiteGetMessagesBefore(sqlite, c, before, limit) = page
               /\ PostgresGetMessagesBefore(postgres, c, before, limit) = page

\* So is every other thing the gateway reads: groups and members, the
\* conversation list (after canAccessConversation has dropped what SQLite
\* finds by a part of a name), preferences, reactions, events, announcements.
SameLookups ==
    /\ MemoryGetGroup(memory, TheGroup) = SQLiteGetGroup(sqlite, TheGroup)
    /\ MemoryGetGroup(memory, TheGroup) = PostgresGetGroup(postgres, TheGroup)
    /\ MemoryGetRecentMessages(memory, 2) = SQLiteGetRecentMessages(sqlite, 2)
    /\ MemoryGetRecentMessages(memory, 2) = PostgresGetRecentMessages(postgres, 2)
    /\ \A u \in People :
        LET list(found) == {c \in found : CanAccess(u, c)}
        IN /\ list(MemoryGetUserConversations(memory, u)) = list(SQLiteGetUserConversations(sqlite, u, NameContains))
           /\ list(MemoryGetUserConversations(memory, u)) = list(PostgresGetUserConversations(postgres, u))
           /\ MemoryGetUserGroups(memory, u) = SQLiteGetUserGroups(sqlite, u)
           /\ MemoryGetUserGroups(memory, u) = PostgresGetUserGroups(postgres, u)
           /\ MemoryGetGroupAnnouncements(memory, TheGroup, u) = SQLiteGetGroupAnnouncements(sqlite, TheGroup, u)
           /\ MemoryGetGroupAnnouncements(memory, TheGroup, u) = PostgresGetGroupAnnouncements(postgres, TheGroup, u)
           /\ \A c \in Places :
               /\ MemoryGetConversationPreference(memory, c, u) = SQLiteGetConversationPreference(sqlite, c, u)
               /\ MemoryGetConversationPreference(memory, c, u) = PostgresGetConversationPreference(postgres, c, u)
           /\ \A id \in Stamps :
               /\ MemoryGetMessageReactionIDs(memory, id, u) = SQLiteGetMessageReactionIDs(sqlite, id, u)
               /\ MemoryGetMessageReactionIDs(memory, id, u) = PostgresGetMessageReactionIDs(postgres, id, u)
    /\ \A c \in Places, id \in Stamps :
        /\ MemoryGetDynamicInteractionEvents(memory, c, id) = SQLiteGetDynamicInteractionEvents(sqlite, c, id)
        /\ MemoryGetDynamicInteractionEvents(memory, c, id) = PostgresGetDynamicInteractionEvents(postgres, c, id)

\* After every call the three stores show the same.
SameContents == calls > 0 /\ KeptGroups = {} => SamePages /\ SameLookups

\* The unread counts agree as long as the message a read mark names is there.
\* Once it is deleted the in-memory store counts nothing as unread while the
\* databases go by the time of the mark.
MarkedMessageIsThere(c, u) ==
    \A r \in sqlite.reads :
        r.conversation = c /\ r.user = u /\ r.last # 0 =>
            \E m \in sqlite.messages : m.conversation = c /\ m.id = r.last
SameUnreadCounts ==
    KeptGroups = {} => \A c \in Places, u \in People :
        MarkedMessageIsThere(c, u) =>
            /\ MemoryCountUnreadMessages(memory, c, u) = SQLiteCountUnreadMessages(sqlite, c, u)
            /\ MemoryCountUnreadMessages(memory, c, u) = PostgresCountUnreadMessages(postgres, c, u)

\* PostgreSQL keeps a group the other stores delete only because a reaction
\* refers to one of its messages: DeleteGroup removes no reactions, and the
\* foreign key then rolls the whole deletion back.
OnlyReactionsKeepAGroup ==
    \A g \in KeptGroups : \E r \in postgres.reactions : r.message \in IdsIn(postgres, g)

\* No key or reaction outlives its message, except for messages of the group
\* once it was deleted: an identifier can be used again only after that.
NoStrayRecords ==
    LET about(d) == {r.message : r \in d.reactions} \cup {r.message : r \in d.updated}
    IN GroupExists =>
        /\ about(sqlite) \subseteq {m.id : m \in sqlite.messages}
        /\ about(postgres) \subseteq {m.id : m \in postgres.messages}
        /\ \A id \in about(memory) \cup {r.message : r \in memory.sent} :
               MemoryGetMessage(memory, id) # Nothing

\* The gateway cannot tell which of the three stores it runs on, except by the
\* deletion of a group.
StoresAgree == SameAnswers /\ SameContents /\ SameUnreadCounts /\ OnlyReactionsKeepAGroup /\ NoStrayRecords

=============================================================================
