-------------------------- MODULE ConversationInbox --------------------------
(***************************************************************************)
(* What the members of a group conversation see of its messages: read      *)
(* marks and unread counts, notification levels, reactions, and the push   *)
(* notifications the gateway sends from a goroutine of its own for every   *)
(* message (internal/gateway/gateway.go, internal/store/read_state.go).    *)
(*                                                                         *)
(* A message is its place in the conversation, which is also its time.     *)
(* Requests interleave between store calls: a mark is read and written by  *)
(* two statements, a reaction is checked and stored by two calls, and the  *)
(* push goroutine takes the recipients one by one.                         *)
(***************************************************************************)
EXTENDS Integers, Sequences, FiniteSets

CONSTANTS
    Members,         \* of the group, when the server starts
    Devices,         \* readPump goroutines that mark the conversation as read
    Letters,         \* messages: whom they mention, and whether they are an announcement
    PreferenceAsked, \* pairs of a level, "" when absent, and the old mute flag
    MaxMail,         \* bound: messages
    MaxInboxCalls    \* bound: requests

ASSUME InboxAssumption ==
    /\ "" \notin Members /\ IsFiniteSet(Members)
    /\ Letters \subseteq [mentions : SUBSET Members, important : BOOLEAN]
    /\ MaxMail \in Nat /\ MaxInboxCalls \in Nat

VARIABLES
    belongs,    \* rows of group_members
    mail,       \* rows of messages: sender, mentions, important, recalled
    mark,       \* rows of conversation_reads: 0 for none
    level,      \* rows of conversation_preferences, "" for no row
    subscribed, \* rows of push_subscriptions: members with one
    liked,      \* rows of message_reactions
    device,     \* what each goroutine is doing
    reaction,   \* the reaction that was checked and is about to be stored
    courier,    \* the goroutine of each message: whom it has still to reach
    inboxCalls,
    pushed,     \* history: notifications delivered
    allowed,    \* history: notifications some level admitted since the message
    marksMet    \* history: members who marked from two devices at once

inboxVars == <<belongs, mail, mark, level, subscribed, liked, device, reaction, courier, inboxCalls,
               pushed, allowed, marksMet>>

InboxCall == inboxCalls < MaxInboxCalls /\ inboxCalls' = inboxCalls + 1

Nobody == ""
IdleDevice == [step |-> "idle", user |-> Nobody, newest |-> 0]
NoReaction == [message |-> 0, user |-> Nobody, remove |-> FALSE]
Sleeping == [left |-> {}, user |-> Nobody]

InboxInit ==
    /\ belongs = Members
    /\ mail = <<>>
    /\ mark = [u \in Members |-> 0]
    /\ level = [u \in Members |-> ""]
    /\ subscribed = {}
    /\ liked = {}
    /\ device = [d \in Devices |-> IdleDevice]
    /\ reaction = NoReaction
    /\ courier = [m \in 1 .. MaxMail |-> Sleeping]
    /\ inboxCalls = 0
    /\ pushed = {} /\ allowed = {} /\ marksMet = {}

\* What a level and the old mute flag come to, and what no row means.
EffectiveLevel(asked, legacyMuted) ==
    IF asked \in {"normal", "mentions_only", "muted"} THEN asked
    ELSE IF legacyMuted THEN "muted" ELSE "normal"
ConversationNotificationLevel(row) == IF row = "" THEN "normal" ELSE row

\* Everybody in the conversation but the sender.
ConversationRecipients(sender) == belongs \ {sender}

MessageMentionsUser(letter, u) == u \in letter.mentions

WantsPush(u, letter, row) ==
    \/ ConversationNotificationLevel(row) = "normal"
    \/ /\ ConversationNotificationLevel(row) = "mentions_only"
       /\ letter.important \/ MessageMentionsUser(letter, u)

\* What the documentation of the levels promises, for the history variable.
Admits(row, letter, u) ==
    CASE row = "muted" -> FALSE
      [] row = "mentions_only" -> letter.important \/ u \in letter.mentions
      [] OTHER -> TRUE

----------------------------------------------------------------------------
(* Messages and push notifications *)

\* send_message, or an announcement, stores the message and starts its push
\* goroutine, for the recipients of this moment.
PostMessage(u, letter) ==
    LET m == Len(mail) + 1
    IN /\ InboxCall
       /\ m <= MaxMail
       /\ u \in belongs
       /\ mail' = Append(mail, [sender |-> u, mentions |-> letter.mentions,
                                important |-> letter.important, recalled |-> FALSE])
       /\ courier' = [courier EXCEPT ![m].left = ConversationRecipients(u)]
       /\ allowed' = allowed \cup {<<m, v>> : v \in {v \in ConversationRecipients(u) : Admits(level[v], letter, v)}}
       /\ UNCHANGED <<belongs, mark, level, subscribed, liked, device, reaction, pushed, marksMet>>

\* The goroutine turns to a recipient: the level, then the subscription.
PushTurn(m, u) ==
    /\ courier[m].user = Nobody /\ u \in courier[m].left
    /\ courier' = [courier EXCEPT ![m] =
         [left |-> @.left \ {u},
          user |-> IF WantsPush(u, mail[m], level[u]) /\ u \in subscribed THEN u ELSE Nobody]]
    /\ UNCHANGED <<belongs, mail, mark, level, subscribed, liked, device, reaction, inboxCalls,
                   pushed, allowed, marksMet>>

\* Either query fails: the recipient is passed over.
PushPassedOver(m, u) ==
    /\ courier[m].user = Nobody /\ u \in courier[m].left
    /\ courier' = [courier EXCEPT ![m].left = @ \ {u}]
    /\ UNCHANGED <<belongs, mail, mark, level, subscribed, liked, device, reaction, inboxCalls,
                   pushed, allowed, marksMet>>

\* The push service accepts, or fails, or says that the subscription is gone.
PushDelivered(m) ==
    /\ courier[m].user # Nobody
    /\ pushed' = pushed \cup {<<m, courier[m].user>>}
    /\ courier' = [courier EXCEPT ![m].user = Nobody]
    /\ UNCHANGED <<belongs, mail, mark, level, subscribed, liked, device, reaction, inboxCalls,
                   allowed, marksMet>>

PushFailed(m) ==
    /\ courier[m].user # Nobody
    /\ courier' = [courier EXCEPT ![m].user = Nobody]
    /\ UNCHANGED <<belongs, mail, mark, level, subscribed, liked, device, reaction, inboxCalls,
                   pushed, allowed, marksMet>>

\* The row is deleted by the address of the browser: also when it was
\* registered again, with a new key, while the service was asked.
PushExpired(m) ==
    /\ courier[m].user # Nobody
    /\ subscribed' = subscribed \ {courier[m].user}
    /\ courier' = [courier EXCEPT ![m].user = Nobody]
    /\ UNCHANGED <<belongs, mail, mark, level, liked, device, reaction, inboxCalls,
                   pushed, allowed, marksMet>>

RegisterPush(u) ==
    /\ InboxCall
    /\ subscribed' = subscribed \cup {u}
    /\ UNCHANGED <<belongs, mail, mark, level, liked, device, reaction, courier, pushed,
                   allowed, marksMet>>

UnregisterPush(u) ==
    /\ InboxCall
    /\ subscribed' = subscribed \ {u}
    /\ UNCHANGED <<belongs, mail, mark, level, liked, device, reaction, courier, pushed, allowed, marksMet>>

\* A level that is sent is taken; without one the old flag decides.
SetConversationPreferences(u, asked) ==
    LET row == EffectiveLevel(asked[1], asked[2])
    IN /\ InboxCall /\ u \in belongs
       /\ level' = [level EXCEPT ![u] = row]
       /\ allowed' = allowed \cup
            {<<m, u>> : m \in {n \in 1 .. Len(mail) : mail[n].sender # u /\ Admits(row, mail[n], u)}}
       /\ UNCHANGED <<belongs, mail, mark, subscribed, liked, device, reaction, courier, pushed, marksMet>>

----------------------------------------------------------------------------
(* Read marks *)

\* The first statement finds the newest message ...
MarkReadSelect(d, u) ==
    /\ InboxCall
    /\ device[d].step = "idle" /\ u \in belongs
    /\ device' = [device EXCEPT ![d] = [step |-> "upsert", user |-> u, newest |-> Len(mail)]]
    /\ marksMet' = IF \E e \in Devices : device[e].user = u THEN marksMet \cup {u} ELSE marksMet
    /\ UNCHANGED <<belongs, mail, mark, level, subscribed, liked, reaction, courier, pushed, allowed>>

\* ... and the second writes the mark, whatever it was.
MarkReadUpsert(d) ==
    /\ device[d].step = "upsert"
    /\ mark' = [mark EXCEPT ![device[d].user] = device[d].newest]
    /\ device' = [device EXCEPT ![d] = IdleDevice]
    /\ UNCHANGED <<belongs, mail, level, subscribed, liked, reaction, courier, inboxCalls, pushed,
                   allowed, marksMet>>

\* The unread count of get_conversations.
UnreadCount(u) == Cardinality({m \in 1 .. Len(mail) : mail[m].sender # u /\ m > mark[u]})

\* The status of a message in get_messages of its sender.
HasReadMessage(u, m) == mark[u] # 0 /\ mark[u] >= m
ReadCount(m) == Cardinality({u \in ConversationRecipients(mail[m].sender) : HasReadMessage(u, m)})
MessageStatus(m) == IF ReadCount(m) > 0 THEN "read" ELSE "sent"

----------------------------------------------------------------------------
(* Reactions, recall, and members that leave *)

\* The message is loaded and access checked ...
ReactCheck(u, m, remove) ==
    /\ InboxCall
    /\ reaction = NoReaction /\ u \in belongs /\ m \in 1 .. Len(mail)
    /\ reaction' = [message |-> m, user |-> u, remove |-> remove]
    /\ UNCHANGED <<belongs, mail, mark, level, subscribed, liked, device, courier, pushed,
                   allowed, marksMet>>

Reacted == LET row == <<reaction.message, reaction.user>>
           IN IF reaction.remove THEN liked \ {row} ELSE liked \cup {row}

\* Variant: the store does not look at the message again.
ReactStoreUnchecked ==
    /\ reaction # NoReaction
    /\ liked' = Reacted
    /\ reaction' = NoReaction
    /\ UNCHANGED <<belongs, mail, mark, level, subscribed, device, courier, inboxCalls, pushed,
                   allowed, marksMet>>

\* ... and the store refuses a message that was recalled meanwhile.
ReactStore ==
    /\ reaction # NoReaction
    /\ liked' = IF mail[reaction.message].recalled THEN liked ELSE Reacted
    /\ reaction' = NoReaction
    /\ UNCHANGED <<belongs, mail, mark, level, subscribed, device, courier, inboxCalls, pushed,
                   allowed, marksMet>>

RecallMail(m) ==
    /\ InboxCall
    /\ m \in 1 .. Len(mail)
    /\ mail' = [mail EXCEPT ![m].recalled = TRUE]
    /\ UNCHANGED <<belongs, mark, level, subscribed, liked, device, reaction, courier, pushed, allowed, marksMet>>

LeaveConversation(u) ==
    /\ InboxCall
    /\ u \in belongs
    /\ belongs' = belongs \ {u}
    /\ UNCHANGED <<mail, mark, level, subscribed, liked, device, reaction, courier, pushed, allowed, marksMet>>

InboxNext ==
    \/ \E u \in Members :
        \/ \E letter \in Letters : PostMessage(u, letter)
        \/ RegisterPush(u) \/ UnregisterPush(u) \/ LeaveConversation(u)
        \/ \E asked \in PreferenceAsked : SetConversationPreferences(u, asked)
        \/ \E d \in Devices : MarkReadSelect(d, u)
        \/ \E m \in 1 .. MaxMail, remove \in BOOLEAN : ReactCheck(u, m, remove)
        \/ \E m \in 1 .. MaxMail : PushTurn(m, u) \/ PushPassedOver(m, u)
    \/ \E m \in 1 .. MaxMail : PushDelivered(m) \/ PushFailed(m) \/ PushExpired(m) \/ RecallMail(m)
    \/ \E d \in Devices : MarkReadUpsert(d)
    \/ ReactStore

InboxSpec == InboxInit /\ [][InboxNext]_inboxVars

----------------------------------------------------------------------------
(* Properties *)

\* The unread count of a member grows only by a new message, unless the
\* member marked from two devices at once: the two statements of
\* MarkConversationRead then interleave, and the write that comes last wins,
\* also with the older message.
UnreadGrowsByMail ==
    [][\A u \in Members \ marksMet' : UnreadCount(u)' > UnreadCount(u) => Len(mail') > Len(mail)]_inboxVars

\* A message that get_messages showed to its sender as read stays read, with
\* the same exception, while nobody leaves.
StatusStaysRead ==
    [][\A m \in 1 .. Len(mail) :
        marksMet' = {} /\ belongs' = belongs /\ MessageStatus(m) = "read" => MessageStatus(m)' = "read"]_inboxVars

\* A notification reaches a member only if a level the member had since the
\* message was sent admits it, and never the sender.
PushesAreWanted == pushed \subseteq allowed

\* A recalled message gets no new reaction, also when it was recalled
\* between the check of the request and the store call.
RecalledGetsNoReaction ==
    [][\A m \in 1 .. Len(mail) : mail[m].recalled =>
        {r \in liked' : r[1] = m} \subseteq {r \in liked : r[1] = m}]_inboxVars

\* What was read stays read, what was recalled stays without new reactions,
\* and nobody is notified against a level that held all the time.
InboxIsFaithful == UnreadGrowsByMail /\ StatusStaysRead /\ RecalledGetsNoReaction /\ []PushesAreWanted

=============================================================================
