CONSTANTS
    None = None
    r1 = r1
    Replies = {r1}
    MaxAttempts = 3
    MaxSessions = 1
    MaxDeletes = 0
    MaxCrashes = 0
SPECIFICATION Spec
CHECK_DEADLOCK FALSE
INVARIANTS
    RejectedIsNotStored
