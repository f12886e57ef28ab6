----------------------------- MODULE GroupBoard ------------------------------
(***************************************************************************)
(* The announcements of a group (internal/gateway/group_announcements.go)  *)
(* beside the announcement column they replaced. Every change of the board *)
(* is followed by syncLegacyGroupAnnouncement, which reads the row of the  *)
(* group, then the board, and writes the whole row back with the text of   *)
(* the first announcement; update_group and group_mute_all also write back *)
(* the row they read. No lock is held between the store calls.             *)
(*                                                                         *)
(* Opening the database copies a text back onto an empty board             *)
(* (initSchema in internal/store/sqlite.go), so a text that stays behind   *)
(* brings a deleted announcement back at the next start.                   *)
(*                                                                         *)
(* One group. Requests that are refused change nothing and are no actions. *)
(***************************************************************************)
EXTENDS Integers, FiniteSets

CONSTANTS
    BoardPumps,         \* readPump goroutines of managers
    BoardReaders,       \* members that mark announcements as read
    BoardTexts,         \* texts, the empty one excluded
    NoText,             \* the empty text
    GroupNames,
    MaxPosts,           \* bound: announcements created
    MaxStarts,          \* bound: restarts of the server
    MaxBoardRequests    \* bound: requests

ASSUME BoardAssumption ==
    /\ NoText \notin BoardTexts /\ GroupNames # {}
    /\ MaxPosts \in Nat /\ MaxStarts \in Nat /\ MaxBoardRequests \in Nat

VARIABLES
    row,        \* the row of groups: name, text, muteAll
    board,      \* rows of group_announcements
    seen,       \* rows of group_announcement_reads
    manager,    \* what each goroutine is doing
    posts, starts, boardRequests,
    wanted,     \* history: the name and the mute state that were confirmed last
    mixed,      \* history: requests have overlapped, or a restart cut one off
    aligned     \* history: an undisturbed request has written the text, and
                \* since then no requests overlapped, none was cut off, no
                \* synchronisation failed, and update_group did not set the text

boardVars == <<row, board, seen, manager, posts, starts, boardRequests, wanted, mixed, aligned>>

\* The legacy announcement has the number 0.
Notices == [id : 0 .. MaxPosts, content : BoardTexts, pinned : BOOLEAN, at : 0 .. MaxPosts + MaxBoardRequests]
BoardSteps == {"idle", "read_own", "sync_group", "sync_board", "sync_write", "publish", "update", "project", "mute"}
Unread == [name |-> CHOOSE n \in GroupNames : TRUE, text |-> NoText, muteAll |-> FALSE]
Resting == [step |-> "idle", notice |-> 0, row |-> Unread, value |-> Unread,
            field |-> "none", alone |-> TRUE]

BoardInit ==
    /\ row = Unread
    /\ board = {} /\ seen = {}
    /\ manager = [p \in BoardPumps |-> Resting]
    /\ posts = 0 /\ starts = 0 /\ boardRequests = 0
    /\ wanted = [name |-> Unread.name, muteAll |-> FALSE]
    /\ mixed = FALSE
    /\ aligned = TRUE

BoardQuiet == \A p \in BoardPumps : manager[p].step = "idle"

\* The order of GetGroupAnnouncements: pinned first, then the latest change.
ListedFirst(a, b) == IF a.pinned # b.pinned THEN a.pinned ELSE a.at >= b.at
FirstText == IF board = {} THEN NoText
             ELSE (CHOOSE a \in board : \A b \in board : ListedFirst(a, b)).content

\* A request starts: it is alone unless another one is running, and nobody
\* who is running is alone any more.
Begins(p, state) ==
    /\ boardRequests < MaxBoardRequests
    /\ manager[p].step = "idle"
    /\ boardRequests' = boardRequests + 1
    /\ mixed' = (mixed \/ ~ BoardQuiet)
    /\ aligned' = (aligned /\ BoardQuiet)
    /\ manager' = [q \in BoardPumps |->
                     IF q = p THEN [state EXCEPT !.alone = BoardQuiet]
                     ELSE [manager[q] EXCEPT !.alone = FALSE]]

Continues(p, step) == manager' = [manager EXCEPT ![p].step = step]
Finishes(p) == manager' = [manager EXCEPT ![p] = Resting]

----------------------------------------------------------------------------
(* Changes of the board *)

Stamp == posts + boardRequests + 1

CreateAnnouncement(p, content, pinned) ==
    /\ posts < MaxPosts
    /\ Begins(p, [Resting EXCEPT !.step = "read_own", !.notice = posts + 1])
    /\ posts' = posts + 1
    /\ board' = board \cup {[id |-> posts + 1, content |-> content, pinned |-> pinned, at |-> Stamp]}
    /\ UNCHANGED <<row, seen, starts, wanted>>

EditAnnouncement(p, a, content, pinned) ==
    /\ Begins(p, [Resting EXCEPT !.step = "read_own", !.notice = a.id])
    /\ board' = (board \ {a}) \cup {[a EXCEPT !.content = content, !.pinned = pinned, !.at = Stamp]}
    /\ UNCHANGED <<row, seen, posts, starts, wanted>>

\* Variant: the text is not synchronised.
DropAnnouncementUnsynced(p, a) ==
    /\ Begins(p, [Resting EXCEPT !.step = "publish", !.notice = a.id])
    /\ board' = board \ {a}
    /\ seen' = {r \in seen : r.notice # a.id}
    /\ UNCHANGED <<row, posts, starts, wanted>>

\* The rows of who has read it go in the same transaction.
DropAnnouncement(p, a) ==
    /\ Begins(p, [Resting EXCEPT !.step = "sync_group", !.notice = a.id])
    /\ board' = board \ {a}
    /\ seen' = {r \in seen : r.notice # a.id}
    /\ UNCHANGED <<row, posts, starts, wanted>>

\* The author has read it. The in-memory store refuses when it is gone by
\* now, a database inserts the row; the error is ignored.
MarkOwnRead(p) ==
    /\ manager[p].step = "read_own"
    /\ Continues(p, "sync_group")
    /\ seen' = seen \cup {[notice |-> manager[p].notice, by |-> p]}
    /\ UNCHANGED <<row, board, posts, starts, boardRequests, wanted, mixed, aligned>>

MarkAnnouncementRead(u, a) ==
    /\ boardRequests < MaxBoardRequests
    /\ boardRequests' = boardRequests + 1
    /\ seen' = seen \cup {[notice |-> a.id, by |-> u]}
    /\ UNCHANGED <<row, board, manager, posts, starts, wanted, mixed, aligned>>

----------------------------------------------------------------------------
(* syncLegacyGroupAnnouncement, the notices, and the next request *)

SyncReadGroup(p) ==
    /\ manager[p].step = "sync_group"
    /\ manager' = [manager EXCEPT ![p].step = "sync_board", ![p].row = row]
    /\ UNCHANGED <<row, board, seen, posts, starts, boardRequests, wanted, mixed, aligned>>

SyncReadBoard(p) ==
    /\ manager[p].step = "sync_board"
    /\ manager' = [manager EXCEPT ![p].step = "sync_write", ![p].row.text = FirstText]
    /\ UNCHANGED <<row, board, seen, posts, starts, boardRequests, wanted, mixed, aligned>>

SyncedRow(r) == r

SyncWrite(p) ==
    /\ manager[p].step = "sync_write"
    /\ row' = SyncedRow(manager[p].row)
    /\ Continues(p, "publish")
    /\ aligned' = (aligned \/ manager[p].alone)
    /\ UNCHANGED <<board, seen, posts, starts, boardRequests, wanted, mixed>>

\* One of the three store calls fails: the column keeps what it has, and the
\* request goes on.
SyncFails(p) ==
    /\ manager[p].step \in {"sync_group", "sync_board", "sync_write"}
    /\ Continues(p, "publish")
    /\ aligned' = FALSE
    /\ UNCHANGED <<row, board, seen, posts, starts, boardRequests, wanted, mixed>>

\* The answer; a new announcement is also sent to the group as a message,
\* which changes nothing here.
Publish(p) ==
    /\ manager[p].step = "publish"
    /\ Finishes(p)
    /\ UNCHANGED <<row, board, seen, posts, starts, boardRequests, wanted, mixed, aligned>>

----------------------------------------------------------------------------
(* update_group and group_mute_all: the row is read, then written whole *)

\* update_group changes the name or the text.
BeginUpdateGroup(p, field, value) ==
    /\ Begins(p, [Resting EXCEPT !.step = "update", !.field = field, !.row = row, !.value = value])
    /\ UNCHANGED <<row, board, seen, posts, starts, wanted>>

UpdatedRow(r, field, value) ==
    IF field = "name" THEN [r EXCEPT !.name = value.name] ELSE [r EXCEPT !.text = value.text]

CommitUpdateGroup(p) ==
    LET m == manager[p]
    IN /\ m.step = "update"
       /\ row' = UpdatedRow(m.row, m.field, m.value)
       /\ Continues(p, "project")
       /\ aligned' = (aligned /\ m.field # "text")
       /\ UNCHANGED <<board, seen, posts, starts, boardRequests, wanted, mixed>>

\* The conversation of the group follows, and the request is confirmed; or
\* that fails, and the row is written back as it was read.
ConfirmUpdateGroup(p) ==
    LET m == manager[p]
    IN /\ m.step = "project"
       /\ wanted' = IF m.field = "name" THEN [wanted EXCEPT !.name = m.value.name] ELSE wanted
       /\ Finishes(p)
       /\ UNCHANGED <<row, board, seen, posts, starts, boardRequests, mixed, aligned>>

UndoUpdateGroup(p) ==
    /\ manager[p].step = "project"
    /\ row' = manager[p].row
    /\ Finishes(p)
    /\ UNCHANGED <<board, seen, posts, starts, boardRequests, wanted, mixed, aligned>>

BeginMuteAll(p, on) ==
    /\ Begins(p, [Resting EXCEPT !.step = "mute", !.row = row, !.value = [Unread EXCEPT !.muteAll = on]])
    /\ UNCHANGED <<row, board, seen, posts, starts, wanted>>

CommitMuteAll(p) ==
    /\ manager[p].step = "mute"
    /\ row' = [manager[p].row EXCEPT !.muteAll = manager[p].value.muteAll]
    /\ wanted' = [wanted EXCEPT !.muteAll = manager[p].value.muteAll]
    /\ Finishes(p)
    /\ UNCHANGED <<board, seen, posts, starts, boardRequests, mixed, aligned>>

----------------------------------------------------------------------------
(* Restart *)

\* The text of a group without announcements becomes one.
Seeded == [id |-> 0, content |-> row.text, pinned |-> TRUE, at |-> 0]

BoardAfterStart ==
    IF row.text # NoText /\ board = {} THEN board \cup {Seeded} ELSE board

\* Requests that are running end where they are.
RestartServer ==
    /\ starts < MaxStarts
    /\ starts' = starts + 1
    /\ board' = BoardAfterStart
    /\ manager' = [p \in BoardPumps |-> Resting]
    /\ aligned' = (aligned /\ BoardQuiet)
    /\ mixed' = (mixed \/ ~ BoardQuiet)
    /\ UNCHANGED <<row, seen, posts, boardRequests, wanted>>

BoardRequest(p) ==
    \/ \E content \in BoardTexts, pinned \in BOOLEAN :
        \/ CreateAnnouncement(p, content, pinned)
        \/ \E a \in board : EditAnnouncement(p, a, content, pinned)
    \/ \E a \in board : DropAnnouncement(p, a)
    \/ \E name \in GroupNames : BeginUpdateGroup(p, "name", [Unread EXCEPT !.name = name])
    \/ \E text \in BoardTexts \cup {NoText} : BeginUpdateGroup(p, "text", [Unread EXCEPT !.text = text])
    \/ \E on \in BOOLEAN : BeginMuteAll(p, on)

BoardNext ==
    \/ \E p \in BoardPumps :
        \/ BoardRequest(p)
        \/ MarkOwnRead(p) \/ SyncReadGroup(p) \/ SyncReadBoard(p) \/ SyncWrite(p) \/ SyncFails(p) \/ Publish(p)
        \/ CommitUpdateGroup(p) \/ ConfirmUpdateGroup(p) \/ UndoUpdateGroup(p) \/ CommitMuteAll(p)
    \/ \E u \in BoardReaders, a \in board : MarkAnnouncementRead(u, a)
    \/ RestartServer

BoardSpec == BoardInit /\ [][BoardNext]_boardVars

----------------------------------------------------------------------------
(* Properties *)

\* The row, the board and the requests under way have their types; identifiers
\* of announcements are unique.
BoardTypeOK ==
    /\ row \in [name : GroupNames, text : BoardTexts \cup {NoText}, muteAll : BOOLEAN]
    /\ board \subseteq Notices
    /\ \A a, b \in board : a.id = b.id => a = b
    /\ \A p \in BoardPumps : manager[p].step \in BoardSteps

\* After an undisturbed request the column is the text of the announcement
\* that is listed first, and stays it until requests overlap, one is cut off
\* by a restart or fails to write it, or update_group sets the text itself.
TextFollowsBoard == aligned /\ BoardQuiet => row.text = FirstText

\* What was confirmed last is what the group has, as long as no two requests
\* ran at the same time and none was cut off: neither the synchronisation of the text nor
\* update_group and group_mute_all undo one another's change.
SettingsKept == ~ mixed /\ BoardQuiet => row.name = wanted.name /\ row.muteAll = wanted.muteAll

\* A restart in such a state brings no deleted announcement back.
RestartKeepsBoard ==
    [][starts' # starts /\ aligned /\ BoardQuiet => board' = board]_boardVars

\* The board, the column it replaced and the other settings of the row follow
\* what was asked, also across a restart, as long as requests do not overlap.
BoardIsKept == [](BoardTypeOK /\ TextFollowsBoard /\ SettingsKept) /\ RestartKeepsBoard

=============================================================================
