CONSTANTS
    None = None
    NoConversation = NoConversation
    u1 = u1
    u2 = u2
    u3 = u3
    p1 = p1
    p2 = p2
    Users = {u1, u2, u3}
    Pumps = {p1, p2}
    Names = {"a", "b"}
    MaxMembers = 3
    MaxInvite = 2
    StoreErrors = TRUE
    MaxRequests = 4
SYMMETRY Symmetry
SPECIFICATION Spec
CHECK_DEADLOCK FALSE
INVARIANTS
    OneOwner
    
PROPERTIES
    OwnershipIsHandedOver
