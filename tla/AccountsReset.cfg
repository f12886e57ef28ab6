CONSTANTS
    NoAccount = NoAccount
    u1 = u1
    c1 = c1
    c2 = c2
    c3 = c3
    a1 = a1
    AccountUsers = {u1}
    Connections = {c1, c2}
    Admins = {a1}
    Registered = {u1}
    OpenAuth = FALSE
    MaxEdits = 1
    MaxResets = 1
    MaxRestarts = 0
SYMMETRY Symmetry
SPECIFICATION AccountsSpec
CHECK_DEADLOCK FALSE
PROPERTIES
    ResetStays
