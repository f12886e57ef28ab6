SPECIFICATION PartsSpec
CHECK_DEADLOCK FALSE
CONSTANTS
    Askers = {"asker1", "asker2"}
    ModelTasks = {"planner", "replyer"}
    Chats = {"c1"}
    ModelLimit = 2
    TaskLimit = 1
    GroupDefault = TRUE
    MaxDay = 2

    Handlers = {"h1", "h2"}
    ModelIds = {"model"}
    Settings = {1, 2}
    Behaviors = {"b1", "b2"}
    Limits = {"l1", "l2"}
    Patches <- AdminPatches
    Diagnostics = {"probe"}
    Clock = {1}
    MaxAudit = 2
    MaxRevision = 3

    PluginIds <- HostPlugins
    DependencyGraphs <- HostGraphs
    Provides <- HostProvides
    Contributes <- HostTools
    CoreCapabilities = {"chat"}
    DefaultEnabled = {"a", "b", "c", "d"}
    Reloadable = {"a", "b"}

    Providers = {"p", "q"}
    EnabledProviders = {"p"}
    Callers = {"c1", "c2"}
    RemoteTools = {"t", "u", "v"}
    AllowedTools = {"t", "u"}
    ReadOnlyTools = {"u", "v"}
    FailureThreshold = 2
    ResetTimeout = 2
    MaxInstant = 4
    MaxChildren = 3
    MaxFailures = 3

    Turns = {"message", "command"}
    CommandTurns = {"command"}
    CommandTools = {"exclusive"}
    ExpectingTurns = {"message"}
    StaticTools = {"static", "direct"}
    DynamicTools = {"exclusive", "denied"}
    ExclusiveTools = {"exclusive"}
    DirectTools = {"direct"}
    DeniedTools = {"denied"}
    MaxPlannerSteps = 2
    MaxToolCalls = 2
    MaxVisibleTools = 3
    Decisions <- PlannerDecisions
INVARIANTS
    ConfigIsInForce
    ModelsAreQualified
    HostIsConsistent
    TurnsAreAccounted
    
PROPERTIES
    StateIsSafe
    ProvidersAreSound
    
