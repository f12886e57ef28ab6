-------------------------- MODULE MCFairyServices --------------------------
(***************************************************************************)
(* The parts of Fairy that keep state of their own, side by side.  Init    *)
(* picks the one that is active; the others keep their initial state, so   *)
(* the states of the whole are the states of each part.                    *)
(***************************************************************************)
EXTENDS FairyState, ManagedConfig, PluginHost, ExternalTools, AgentTurn

VARIABLE active

----------------------------------------------------------------------------
(* ManagedConfig: the model on and off, another behaviour, another setting *)

PatchOf(s, replyer, planner, on, b, l) ==
    [settings |-> [m \in {"model"} |-> s], replyer |-> replyer, planner |-> planner, rollout |-> on,
     behavior |-> b, limits |-> l]
AdminPatches ==
    {PatchOf(1, {"model"}, {}, "all", "b1", "l1"), PatchOf(1, {"model"}, {}, "off", "b2", "l1"),
     PatchOf(2, {"model"}, {"model"}, "allowlist", "b1", "l1"),
     PatchOf(2, {"model"}, {"model"}, "off", "b1", "l2")}

(* PluginHost: three plugins with every graph of dependencies, one with a  *)
(* capability the core provides, one that is disabled; a dependency that   *)
(* is disabled or missing                                                  *)

HostPlugins == <<"a", "b", "c", "d", "e">>
Related == {"a", "b", "c"}
HostGraphs ==
    LET graphs == {g \in [Related -> SUBSET Related] : \A p \in Related : p \notin g[p]}
                  \cup {[p \in Related |-> IF p = "b" THEN {x} ELSE {}] : x \in {"ghost", "e"}}
    IN {[p \in Range(HostPlugins) |-> IF p \in Related THEN g[p] ELSE {}] : g \in graphs}
HostProvides ==
    [p \in Range(HostPlugins) |->
        CASE p = "b" -> {"memory", "log"} [] p = "c" -> {"memory"} [] p = "d" -> {"chat"} [] OTHER -> {}]
HostTools == [p \in Range(HostPlugins) |-> IF p \in {"a", "c"} THEN {"look"} ELSE {}]

(* AgentTurn: calls of an exclusive tool, of one the policy denies, and of *)
(* one whose result is the answer                                          *)

PlannerDecisions == {<<"exclusive", "static">>, <<"denied", "direct">>}

----------------------------------------------------------------------------

Parts == {"state", "config", "plugins", "external", "agent"}

PartsInit ==
    /\ active \in Parts
    /\ StateInit /\ ConfigInit /\ PluginInit /\ ExternalInit /\ AgentInit
    /\ active # "plugins" => pluginNeeds = [p \in Plugins |-> {}]
    /\ active # "state" => softDefault = "on"
    /\ active # "config" => ~ inherited
    /\ active # "agent" => loadedTools = {}

Alone(part) ==
    /\ active = part /\ UNCHANGED active
    /\ part # "state" => UNCHANGED stateVars
    /\ part # "config" => UNCHANGED configVars
    /\ part # "plugins" => UNCHANGED pluginVars
    /\ part # "external" => UNCHANGED externalVars
    /\ part # "agent" => UNCHANGED agentVars

PartsNext ==
    \/ Alone("state") /\ StateNext
    \/ Alone("config") /\ ConfigNext
    \/ Alone("plugins") /\ PluginNext
    \/ Alone("external") /\ ExternalNext
    \/ Alone("agent") /\ AgentNext

PartsSpec == PartsInit /\ [][PartsNext]_<<active, stateVars, configVars, pluginVars, externalVars, agentVars>>
=============================================================================
