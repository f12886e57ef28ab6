SPECIFICATION Spec
CONSTANTS
    chat = chat
    lane = lane
    m1 = m1
    m2 = m2
    m3 = m3
    stop1 = stop1
    stop2 = stop2
    friend = friend
    None = None
    Conversations <- SafetyConversations
    Events <- SafetyEvents
    ConversationOf <- SafetyConversationOf
    Priority <- SafetyPriority
    Retryable <- SafetyRetryable
    Actors = {a1, a2, a3}
    MaxPending = 3
    MaxConversationPending = 2
    MaxConcurrent = 1
SYMMETRY Symmetry
INVARIANTS
    
    OneActorPerQueue
    LimitsKept
    StopIsNext
    FIFO
    ClaimsHold
