SPECIFICATION FairSpec
CONSTANTS
    Clients = {c1, c2}
    Messages = {m1}
    Locks = {l1, l2}
    Keys = {mutation}
    EventKeys = {}
    NoKey = NoKey
    None = None
    MaxUnkeyed = 0
PROPERTIES
    RecalledIsFrozen
