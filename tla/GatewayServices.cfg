SPECIFICATION ServicesSpec
CHECK_DEADLOCK FALSE
CONSTANTS
    None = None
    Users = {u1, u2}
    Pumps = {p1, p2}
    Requests = {r1, r2}
    StoreErrors = TRUE

    NoAccount = NoAccount
    AccountUsers = {account1}
    Connections = {c1, c2, c3}
    Admins = {admin1}
    Registered = {}
    OpenAuth = TRUE
    MaxEdits = 2
    MaxResets = 1
    MaxRestarts = 1

    Nothing = Nothing
    Conflict = Conflict
    Refused = Refused
    Accepted = Accepted
    Duplicate = Duplicate
    Owner = "a"
    Guest = "ab"
    NameContains <- StoreNames
    PrivateChat = "p"
    TheGroup = "g"
    SendRequests <- StoreSends
    EventRequests <- StoreEvents
    PreferenceRequests <- StorePreferences
    MaxClock = 3
    MaxCalls = 4

    First = "a"
    Second = "b"
    Payloads = {"x", "y"}
    MaxInstants = 2
    MaxRequests = 4

    BoardPumps = {"p", "q"}
    BoardReaders = {"r"}
    BoardTexts = {"x", "y"}
    NoText = ""
    GroupNames = {"n", "m"}
    MaxPosts = 2
    MaxStarts = 1
    MaxBoardRequests = 3

    Members = {"a", "b"}
    Devices = {"d", "e"}
    Letters <- InboxLetters
    PreferenceAsked <- InboxPreferences
    MaxMail = 2
    MaxInboxCalls = 4

    Cards <- GatewayCards
    CardActors = {"a", "fairy"}
    CardAuthor = "fairy"
    CardRoles <- GatewayRoles
    CardInputs <- GatewayInputs
    CardEventIds = {1, 2}
    GroupSizes = {2, 3}
    EventLimit = 3
    MaxCardEvents = 4
    MaxCardTime = 2
INVARIANTS
    
    AnsweredOnce
    
    
    
    

    
    
    
