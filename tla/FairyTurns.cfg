SPECIFICATION TurnsSpec
CHECK_DEADLOCK FALSE
CONSTANTS
    chat = chat
    lane = lane
    m1 = m1
    m2 = m2
    m3 = m3
    stop1 = stop1
    None = None
    Conversations <- ChatConversations
    Events <- ChatEvents
    ConversationOf <- ChatConversationOf
    Priority <- ChatPriority
    Retryable = {}
    Actors = {a1, a2, a3}
    MaxPending = 2
    MaxConversationPending = 1
    MaxConcurrent = 1

    Turns = {"message", "command"}
    CommandTurns = {"command"}
    CommandTools = {"exclusive"}
    ExpectingTurns = {}
    StaticTools = {"direct"}
    DynamicTools = {"exclusive"}
    ExclusiveTools = {"exclusive"}
    DirectTools = {"direct"}
    DeniedTools = {}
    MaxPlannerSteps = 2
    MaxToolCalls = 1
    MaxVisibleTools = 2
    Decisions <- PlannerDecisions
PROPERTIES
    TurnsEnd
    ShutdownTerminates
    AdmittedTurnsLeave
