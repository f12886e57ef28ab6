----------------------------- MODULE PluginHost -----------------------------
(***************************************************************************)
(* Fairy's plugin host (server/internal/fairy/plugin_runtime.go): packages *)
(* with dependencies, capabilities and tools that are loaded in dependency *)
(* order, unloaded, reloaded and closed.                                   *)
(*                                                                         *)
(* lifecycleMu serialises the operations, so there is one operation at a   *)
(* time; its steps are separate actions because a plugin's own Register,   *)
(* Start and Stop run inside it and may fail at any point.                 *)
(***************************************************************************)
EXTENDS Naturals, FiniteSets, Sequences, SequencesExt

CONSTANTS
    PluginIds,         \* in the order of sort.Strings, as a sequence
    DependencyGraphs,  \* what the manifests may declare: plugin -> plugins
    Provides,          \* capabilities a plugin's manifest declares and it provides
    Contributes,       \* ids of the tools a plugin registers
    CoreCapabilities,  \* provided by the engine itself
    DefaultEnabled,    \* plugins the configuration enables
    Reloadable         \* plugins whose manifest allows a reload

Plugins == Range(PluginIds)
AllCapabilities == CoreCapabilities \cup UNION {Provides[p] : p \in Plugins}
ToolIds == UNION {Contributes[p] : p \in Plugins}
CoreOwner == "core"
Nobody == "nobody"

ASSUME PluginAssumption ==
    /\ PluginIds \in Seq(Plugins)
    /\ \A i, j \in 1..Len(PluginIds) : PluginIds[i] = PluginIds[j] => i = j
    /\ Reloadable \subseteq Plugins /\ DefaultEnabled \subseteq Plugins
    /\ CoreOwner \notin Plugins /\ Nobody \notin Plugins

VARIABLES
    pluginNeeds,    \* the dependencies of the manifests
    pluginVisit,    \* the locals of dependencyOrder: state, the open calls of visit, order
    pluginOrder,    \* h.order
    pluginState,  \* status.State of each plugin, "new" before startAll reaches it
    pluginScope,    \* PluginContext: what the plugin has contributed so far
    capabilityOwner,    \* pluginCapabilityRegistry: the owner of each capability
    pluginOperation \* the operation that holds lifecycleMu, and its step

pluginVars == <<pluginNeeds, pluginVisit, pluginOrder, pluginState, pluginScope, capabilityOwner, pluginOperation>>

PluginStates == {"new", "disabled", "running", "stopping", "failed", "unloaded"}
EmptyScope == [capabilities |-> {}, tools |-> {}]

OperationNames == {"none", "startAll", "unload", "reload", "close"}
OperationSteps == {"none", "order", "refused", "next", "load", "register", "validate", "unload", "stop"}

\* queue holds the plugins startAll or Close has still to handle.
NoOperation == [name |-> "none", step |-> "none", plugin |-> Nobody, queue |-> <<>>]

\* state is 0 before, 1 during and 2 after the visit of a plugin.
NoVisit == [state |-> [p \in Plugins |-> 0], stack |-> <<>>, order |-> <<>>]

PluginInit ==
    /\ pluginNeeds \in DependencyGraphs
    /\ pluginVisit = NoVisit
    /\ pluginOrder = <<>>
    /\ pluginState = [p \in Plugins |-> "new"]
    /\ pluginScope = [p \in Plugins |-> EmptyScope]
    /\ capabilityOwner = [c \in AllCapabilities |-> IF c \in CoreCapabilities THEN CoreOwner ELSE Nobody]
    /\ pluginOperation = NoOperation

-----------------------------------------------------------------------------
(* startAll and dependencyOrder: depth first, the calls of visit one by    *)
(* one                                                                     *)

StartAll ==
    /\ pluginOperation = NoOperation /\ pluginOrder = <<>>
    /\ \A p \in Plugins : pluginState[p] = "new"
    /\ pluginOperation' = [NoOperation EXCEPT !.name = "startAll", !.step = "order"]
    /\ UNCHANGED <<pluginNeeds, pluginVisit, pluginOrder, pluginState, pluginScope, capabilityOwner>>

\* What the loops have still to visit: the first of the sorted ids that has not
\* been, or within a visit its dependencies, in whatever order the manifest
\* lists them.  A visit of a plugin that is done returns at once.
ToVisit ==
    IF pluginVisit.stack = <<>>
    THEN {PluginIds[i] : i \in {i \in 1..Len(PluginIds) :
              /\ pluginVisit.state[PluginIds[i]] = 0
              /\ \A j \in 1..(i - 1) : pluginVisit.state[PluginIds[j]] = 2}}
    ELSE {d \in pluginNeeds[Last(pluginVisit.stack)] : d \in Plugins => pluginVisit.state[d] # 2}

\* A plugin whose visit is under way is a cycle, an unknown one is not
\* registered: startAll ends before any plugin is loaded, and h.order stays
\* empty.
VisitPlugin(id) ==
    /\ pluginOperation.step = "order" /\ id \in ToVisit
    /\ IF id \notin Plugins \/ pluginVisit.state[id] = 1
       THEN /\ pluginOperation' = [pluginOperation EXCEPT !.step = "refused"]
            /\ pluginVisit' = NoVisit
       ELSE /\ pluginVisit' = [pluginVisit EXCEPT !.state[id] = 1, !.stack = Append(@, id)]
            /\ UNCHANGED pluginOperation
    /\ UNCHANGED <<pluginNeeds, pluginOrder, pluginState, pluginScope, capabilityOwner>>

\* The dependencies are visited: the plugin follows them.
LeavePlugin ==
    LET id == Last(pluginVisit.stack)
    IN  /\ pluginOperation.step = "order" /\ pluginVisit.stack # <<>> /\ ToVisit = {}
        /\ pluginVisit' = [state |-> [pluginVisit.state EXCEPT ![id] = 2],
                           stack |-> Front(pluginVisit.stack),
                           order |-> Append(pluginVisit.order, id)]
        /\ UNCHANGED <<pluginNeeds, pluginOrder, pluginState, pluginScope, capabilityOwner, pluginOperation>>

\* dependencyOrder returns, and startAll goes through the order.
FinishOrder ==
    /\ pluginOperation.step = "order" /\ pluginVisit.stack = <<>> /\ ToVisit = {}
    /\ pluginOrder' = pluginVisit.order
    /\ pluginOperation' = [pluginOperation EXCEPT !.step = "next", !.queue = pluginVisit.order]
    /\ pluginVisit' = NoVisit
    /\ UNCHANGED <<pluginNeeds, pluginState, pluginScope, capabilityOwner>>

\* The next plugin of startAll or Close, or the end.
NextPlugin ==
    LET p == Head(pluginOperation.queue)
        rest == Tail(pluginOperation.queue)
    IN  /\ pluginOperation.step = "next"
        /\ \/ /\ pluginOperation.queue = <<>>
              /\ pluginOperation' = NoOperation
              /\ UNCHANGED pluginState
           \/ /\ pluginOperation.queue # <<>> /\ pluginOperation.name = "startAll"
              /\ IF p \in DefaultEnabled
                 THEN /\ pluginOperation' = [pluginOperation EXCEPT !.plugin = p, !.queue = rest, !.step = "load"]
                      /\ UNCHANGED pluginState
                 ELSE /\ pluginOperation' = [pluginOperation EXCEPT !.queue = rest]
                      /\ pluginState' = [pluginState EXCEPT ![p] = "disabled"]
           \/ /\ pluginOperation.queue # <<>> /\ pluginOperation.name = "close"
              /\ pluginOperation' = [pluginOperation EXCEPT !.plugin = IF pluginState[p] = "running" THEN p ELSE Nobody,
                                                !.queue = rest,
                                                !.step = IF pluginState[p] = "running" THEN "unload" ELSE "next"]
              /\ UNCHANGED pluginState
        /\ UNCHANGED <<pluginNeeds, pluginVisit, pluginOrder, pluginScope, capabilityOwner>>

\* What follows a load or an unload within the operation.
ContinueOperation ==
    IF pluginOperation.name \in {"startAll", "close"} THEN [pluginOperation EXCEPT !.step = "next", !.plugin = Nobody] ELSE NoOperation

-----------------------------------------------------------------------------
(* loadLocked *)

\* PluginContext.Close: the effects are undone, each capability by its owner only.
ReleasedOwners(p) == [c \in AllCapabilities |-> IF c \in pluginScope[p].capabilities /\ capabilityOwner[c] = p THEN Nobody ELSE capabilityOwner[c]]

\* Variant: what a plugin had provided when its start failed stays.
FailLoadLeaking ==
    /\ pluginState' = [pluginState EXCEPT ![pluginOperation.plugin] = "failed"]
    /\ pluginScope' = [pluginScope EXCEPT ![pluginOperation.plugin] = EmptyScope]
    /\ UNCHANGED capabilityOwner
    /\ pluginOperation' = ContinueOperation

\* InProcessPluginRunner closes the scope, and recordFailure replaces the runtime.
FailLoad ==
    /\ pluginState' = [pluginState EXCEPT ![pluginOperation.plugin] = "failed"]
    /\ capabilityOwner' = ReleasedOwners(pluginOperation.plugin)
    /\ pluginScope' = [pluginScope EXCEPT ![pluginOperation.plugin] = EmptyScope]
    /\ pluginOperation' = ContinueOperation

DependenciesMet(p) == \A d \in pluginNeeds[p] : d \in Plugins /\ pluginState[d] = "running"

BeginLoad ==
    /\ pluginOperation.step = "load"
    /\ IF DependenciesMet(pluginOperation.plugin)
       THEN pluginOperation' = [pluginOperation EXCEPT !.step = "register"] /\ UNCHANGED <<pluginState, pluginScope, capabilityOwner>>
       ELSE FailLoad
    /\ UNCHANGED <<pluginNeeds, pluginVisit, pluginOrder>>

\* Variant: the last provider wins.
MayProvideAny(p, c) == TRUE
\* pluginCapabilityRegistry.provide
MayProvide(p, c) == capabilityOwner[c] \in {Nobody, p}

\* ProvideCapability within Register; a capability that another plugin or the
\* core provides is an error, which ends Register.
ProvideCapability(c) ==
    LET p == pluginOperation.plugin
    IN  /\ pluginOperation.step = "register" /\ c \in Provides[p] \ pluginScope[p].capabilities
        /\ IF MayProvide(p, c)
           THEN /\ capabilityOwner' = [capabilityOwner EXCEPT ![c] = p]
                /\ pluginScope' = [pluginScope EXCEPT ![p].capabilities = @ \cup {c}]
                /\ UNCHANGED <<pluginState, pluginOperation>>
           ELSE FailLoad
        /\ UNCHANGED <<pluginNeeds, pluginVisit, pluginOrder>>

\* The rest of Register (RegisterTool, RegisterCommand...) and the plugin's own
\* Start, each of which may fail.
FinishRegister ==
    LET p == pluginOperation.plugin
    IN  /\ pluginOperation.step = "register"
        /\ \/ FailLoad
           \/ /\ pluginScope[p].capabilities = Provides[p]
              /\ pluginScope' = [pluginScope EXCEPT ![p].tools = Contributes[p]]
              /\ pluginOperation' = [pluginOperation EXCEPT !.step = "validate"]
              /\ UNCHANGED <<pluginState, capabilityOwner>>
        /\ UNCHANGED <<pluginNeeds, pluginVisit, pluginOrder>>

\* validateRegistrationSnapshot: only plugins that run are compared.
ToolConflicts(p) == \E q \in Plugins \ {p} : pluginState[q] = "running" /\ pluginScope[q].tools \cap pluginScope[p].tools # {}

FinishLoad ==
    LET p == pluginOperation.plugin
    IN  /\ pluginOperation.step = "validate"
        /\ IF ToolConflicts(p)
           THEN FailLoad
           ELSE /\ pluginState' = [pluginState EXCEPT ![p] = "running"]
                /\ pluginOperation' = ContinueOperation
                /\ UNCHANGED <<pluginScope, capabilityOwner>>
        /\ UNCHANGED <<pluginNeeds, pluginVisit, pluginOrder>>

-----------------------------------------------------------------------------
(* unloadLocked, Unload, Reload and Close *)

StartOperation(name, p, queue, step) ==
    /\ pluginOperation = NoOperation /\ pluginOrder # <<>>
    /\ pluginOperation' = [name |-> name, step |-> step, plugin |-> p, queue |-> queue]
    /\ UNCHANGED <<pluginNeeds, pluginVisit, pluginOrder, pluginState, pluginScope, capabilityOwner>>

UnloadPlugin(p) == StartOperation("unload", p, <<>>, "unload")
ReloadPlugin(p) == p \in Reloadable /\ StartOperation("reload", p, <<>>, "unload")
CloseHost == StartOperation("close", Nobody, Reverse(pluginOrder), "next")

\* Variant: the plugins that need it are not looked at.
NeededByNobody(p) == FALSE
NeededByOthers(p) == \E q \in Plugins \ {p} : pluginState[q] = "running" /\ p \in pluginNeeds[q]

\* A plugin that does not run, or that another one needs, is left alone.
BeginUnload ==
    LET p == pluginOperation.plugin
    IN  /\ pluginOperation.step = "unload"
        /\ IF pluginState[p] = "running" /\ ~NeededByOthers(p)
           THEN /\ pluginState' = [pluginState EXCEPT ![p] = "stopping"]
                /\ pluginOperation' = [pluginOperation EXCEPT !.step = "stop"]
           ELSE UNCHANGED pluginState /\ pluginOperation' = ContinueOperation
        /\ UNCHANGED <<pluginNeeds, pluginVisit, pluginOrder, pluginScope, capabilityOwner>>

\* handle.Stop, which closes the scope whether or not the plugin's Stop fails;
\* a reload goes on to load only after a clean stop.
FinishUnload(clean) ==
    LET p == pluginOperation.plugin
    IN  /\ pluginOperation.step = "stop"
        /\ pluginState' = [pluginState EXCEPT ![p] = IF clean THEN "unloaded" ELSE "failed"]
        /\ capabilityOwner' = ReleasedOwners(p)
        /\ pluginScope' = [pluginScope EXCEPT ![p] = EmptyScope]
        /\ pluginOperation' = IF pluginOperation.name = "reload" /\ clean THEN [pluginOperation EXCEPT !.step = "load"] ELSE ContinueOperation
        /\ UNCHANGED <<pluginNeeds, pluginVisit, pluginOrder>>

PluginNext ==
    \/ StartAll \/ LeavePlugin \/ FinishOrder
    \/ \E id \in Plugins \cup UNION {pluginNeeds[p] : p \in Plugins} : VisitPlugin(id)
    \/ NextPlugin \/ BeginLoad \/ FinishRegister \/ FinishLoad \/ BeginUnload \/ CloseHost
    \/ \E c \in AllCapabilities : ProvideCapability(c)
    \/ \E p \in Plugins : UnloadPlugin(p) \/ ReloadPlugin(p)
    \/ \E clean \in BOOLEAN : FinishUnload(clean)

PluginSpec == PluginInit /\ [][PluginNext]_pluginVars

-----------------------------------------------------------------------------
(* Properties *)

\* The host's maps and the operation under way have their types, and a plugin
\* is stopping only while the operation under way stops it.
PluginTypeOK ==
    /\ pluginVisit \in [state : [Plugins -> 0..2], stack : Seq(Plugins), order : Seq(Plugins)]
    /\ pluginOrder \in Seq(Plugins)
    /\ pluginState \in [Plugins -> PluginStates]
    /\ pluginScope \in [Plugins -> [capabilities : SUBSET AllCapabilities, tools : SUBSET ToolIds]]
    /\ capabilityOwner \in [AllCapabilities -> Plugins \cup {CoreOwner, Nobody}]
    /\ pluginOperation \in [name : OperationNames, step : OperationSteps, plugin : Plugins \cup {Nobody}, queue : Seq(Plugins)]
    /\ \A p \in Plugins : pluginState[p] = "stopping" => pluginOperation.step = "stop" /\ pluginOperation.plugin = p

\* Every set of plugins has one that depends on none of the others.
AcyclicGraph == \A set \in (SUBSET Plugins) \ {{}} : \E p \in set : pluginNeeds[p] \cap set = {}
AllRegistered == \A p \in Plugins : pluginNeeds[p] \subseteq Plugins

\* Every plugin once, after everything it depends on.
IsTopological(order) ==
    /\ Len(order) = Cardinality(Plugins) /\ Range(order) = Plugins
    /\ \A i \in 1..Len(order) : \A d \in pluginNeeds[order[i]] : \E j \in 1..(i - 1) : order[j] = d

\* dependencyOrder: it fails only if the dependencies form a cycle or name a
\* plugin that is not registered, succeeds only if they do not, and then lists
\* every plugin once, after everything it depends on.  No plugin is visited
\* twice, so the search ends.
OrderIsTopological ==
    /\ pluginOperation.step = "refused" => pluginOrder = <<>> /\ ~(AcyclicGraph /\ AllRegistered)
    /\ pluginOrder # <<>> => AcyclicGraph /\ AllRegistered /\ IsTopological(pluginOrder)
    /\ LET visits == pluginVisit.stack \o pluginVisit.order
       IN  \A i, j \in 1..Len(visits) : visits[i] = visits[j] => i = j

\* loadLocked and unloadLocked: a plugin that runs finds everything it depends
\* on running, whatever failed to load or was unloaded and reloaded meanwhile.
DependenciesRun ==
    \A p \in Plugins : pluginState[p] = "running" => \A d \in pluginNeeds[p] : d \in Plugins /\ pluginState[d] = "running"

\* PluginContext.Close: a capability belongs to the core for ever, or to a
\* plugin that runs, is stopping or is just being loaded; a plugin that failed
\* at any point leaves none behind.
CapabilitiesOwned ==
    /\ \A c \in CoreCapabilities : capabilityOwner[c] = CoreOwner
    /\ \A c \in AllCapabilities, p \in Plugins :
          capabilityOwner[c] = p =>
              \/ pluginState[p] \in {"running", "stopping"}
              \/ pluginOperation.plugin = p /\ pluginOperation.step \in {"register", "validate"}

\* validateRegistrationSnapshot: no two plugins that run answer for one tool.
ToolsUnambiguous ==
    \A p, q \in Plugins : p # q /\ pluginState[p] = "running" /\ pluginState[q] = "running"
                          => pluginScope[p].tools \cap pluginScope[q].tools = {}

\* plugin_runtime.go: through failures at any point of Register, Start and
\* Stop, what runs has what it needs, and nothing else is left behind.
HostIsConsistent == PluginTypeOK /\ OrderIsTopological /\ DependenciesRun /\ CapabilitiesOwned /\ ToolsUnambiguous
=============================================================================
