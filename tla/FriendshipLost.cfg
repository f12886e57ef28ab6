CONSTANTS
    None = None
    Users = {u1, u2}
    Pumps = {p1, p2}
    Requests = {r1}
    StoreErrors = FALSE
SYMMETRY Symmetry
SPECIFICATION Spec
INVARIANTS
    AcceptedAreFriends
