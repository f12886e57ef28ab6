CONSTANTS
    None = None
    r1 = r1
    Replies = {r1}
    MaxAttempts = 2
    MaxSessions = 2
    MaxDeletes = 1
    MaxCrashes = 1
    EventLimit = 1
    PushLimit = 2
    TickLimit = 1
SPECIFICATION DeliverySpec
CHECK_DEADLOCK FALSE
INVARIANTS
    DeliveryTypeOK
    RunningSessionIsAttached
    PendingIsExact
PROPERTIES
    OnceOnly
    SendsFinish
    StoredIsShown
    SessionProgresses
