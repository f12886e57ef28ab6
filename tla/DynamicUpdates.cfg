SPECIFICATION FairSpec
CONSTANTS
    Clients = {c1, c2}
    Messages = {m1, m2}
    Locks = {l1, l2}
    Keys = {mutation, event}
    EventKeys = {event}
    NoKey = NoKey
    None = None
    MaxUnkeyed = 0
INVARIANTS
    MutualExclusion
    BroadcastInCommitOrder
    EveryUpdateAppliedOnce
PROPERTIES
    RequestsComplete
