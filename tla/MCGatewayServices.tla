------------------------- MODULE MCGatewayServices -------------------------
(***************************************************************************)
(* The services of the gateway and the store that do not share rows with   *)
(* each other, side by side.  Init picks the service that is active; the   *)
(* others keep their initial state, so the states of the whole are the     *)
(* states of each service.  An Init that nobody steps from is one state:   *)
(* the others start in a single one of their initial states.               *)
(***************************************************************************)
EXTENDS Friendship, Accounts, StoreConformance, DirectoryStores, GroupBoard, ConversationInbox,
        DynamicInteraction

VARIABLE active

----------------------------------------------------------------------------
(* StoreConformance: the rows that calls are about *)

StoreSends ==
    {[conversation |-> "g", sender |-> "a", client |-> "k", segments |-> "x"],
     [conversation |-> "g", sender |-> "a", client |-> "k", segments |-> "y"],
     [conversation |-> "p", sender |-> "a", client |-> "k", segments |-> "x"],
     [conversation |-> "p", sender |-> "ab", client |-> "", segments |-> "x"]}
StoreEvents == {[actor |-> "ab", event |-> "e", payload |-> p] : p \in {"x", "y"}}
StorePreferences == {[level |-> l, muted |-> TRUE] : l \in {"", "mentions_only"}}
StoreNames == {<<"ab", "a">>}

(* ConversationInbox: plain, mentioning and important messages *)

InboxLetters ==
    {[mentions |-> {}, important |-> FALSE], [mentions |-> {"b"}, important |-> FALSE],
     [mentions |-> {}, important |-> TRUE]}
InboxPreferences == {<<"mentions_only", FALSE>>, <<"", TRUE>>}

(* DynamicInteraction: one card for each reducer, policy and button *)

Button(a, v, ab, d, p, s) ==
    [action |-> a, value |-> v, absolute |-> ab, delta |-> d, parts |-> p, statusNode |-> s]
PlainCard ==
    [kind |-> "", reducer |-> "", response |-> "", visibility |-> "", allowChange |-> TRUE, total |-> 0,
     quorum |-> 0, veto |-> TRUE, closeOnResponse |-> FALSE, maxPerActor |-> 0, audience |-> {},
     allowAgent |-> FALSE, expiresAt |-> 0, route |-> "", threshold |-> 0, transitions |-> {}, initial |-> "",
     button |-> Button("other", -1, -1, -1, 0, TRUE)]
PolicyCards ==
    {[PlainCard EXCEPT !.kind = "vote", !.allowChange = FALSE, !.audience = {"users"}, !.visibility = "actor_only"],
     [PlainCard EXCEPT !.kind = "approval", !.quorum = 2, !.allowAgent = TRUE, !.visibility = "public_detail",
                       !.route = "on_close"],
     [PlainCard EXCEPT !.kind = "approval", !.closeOnResponse = TRUE, !.maxPerActor = 1,
                       !.visibility = "admin_detail", !.audience = {"admins", "owner"}],
     [PlainCard EXCEPT !.reducer = "approval_quorum", !.veto = FALSE, !.quorum = 2, !.total = 3, !.expiresAt = 2],
     [PlainCard EXCEPT !.reducer = "state_machine", !.route = "on_threshold", !.threshold = 2,
                       !.transitions = {<<"open", "yes">>, <<"yes", "no">>, <<"no", "yes">>}],
     [PlainCard EXCEPT !.reducer = "state_machine", !.maxPerActor = 2, !.initial = "no",
                       !.transitions = {<<"no", "yes">>, <<"yes", "no">>}],
     [PlainCard EXCEPT !.reducer = "counter", !.route = "each_event"],
     [PlainCard EXCEPT !.reducer = "counter", !.response = "once"]}
ReducerCards == {[PlainCard EXCEPT !.reducer = r] : r \in {"append", "form", "checklist", "shuffle"}}
ButtonCards ==
    {[PlainCard EXCEPT !.button = b] :
        b \in {Button("set_status", -1, -1, -1, 3, TRUE), Button("yes", -1, -1, -1, 2, TRUE),
               Button("set_status", 4000, -1, -1, 0, FALSE), Button("set_status", -1, 5000, -1, 0, FALSE),
               Button("set_progress", 3000, -1, -1, 2, FALSE), Button("increment_progress", 4000, -1, -1, 0, FALSE),
               Button("increment_progress", 4000, -1, -1, 2, FALSE),
               Button("increment_progress", -1, -1, -1, 0, FALSE),
               Button("other", -1, -1, 2000, 0, FALSE), Button("other", -1, -1, -1, 0, FALSE)}}
GatewayCards == PolicyCards \cup ReducerCards \cup ButtonCards
GatewayInputs ==
    {[option |-> "yes", value |-> "", action |-> "tap", item |-> "", completed |-> ""],
     [option |-> "", value |-> "no", action |-> "tap", item |-> "", completed |-> "false"],
     [option |-> "", value |-> "", action |-> "yes", item |-> "i", completed |-> ""]}
GatewayRoles == [a \in {"fairy", "a", "b"} |-> IF a = "a" THEN "admin" ELSE "member"]

----------------------------------------------------------------------------

Services == {"friendship", "accounts", "store", "directory", "board", "inbox", "card"}

ServicesInit ==
    /\ active \in Services
    /\ Init /\ AccountsInit /\ StoreInit /\ DirectoryInit /\ BoardInit /\ InboxInit /\ CardInit
    /\ active # "card" => card = [PlainCard EXCEPT !.reducer = "append"] /\ groupSize = 2

Alone(s) ==
    /\ active = s /\ UNCHANGED active
    /\ s # "friendship" => UNCHANGED vars
    /\ s # "accounts" => UNCHANGED accountVars
    /\ s # "store" => UNCHANGED storeVars
    /\ s # "directory" => UNCHANGED dirVars
    /\ s # "board" => UNCHANGED boardVars
    /\ s # "inbox" => UNCHANGED inboxVars
    /\ s # "card" => UNCHANGED cardVars

ServicesNext ==
    \/ Alone("friendship") /\ Next
    \/ Alone("accounts") /\ AccountsNext
    \/ Alone("store") /\ StoreNext
    \/ Alone("directory") /\ DirectoryNext
    \/ Alone("board") /\ BoardNext
    \/ Alone("inbox") /\ InboxNext
    \/ Alone("card") /\ CardNext

ServicesSpec ==
    ServicesInit /\ [][ServicesNext]_<<active, vars, accountVars, storeVars, dirVars, boardVars, inboxVars, cardVars>>
=============================================================================
