SPECIFICATION Spec
CONSTANTS
    NoCall = NoCall
    LostCall = LostCall
    NoSocket = NoSocket
    Socket = {s1}
    Call = {c1}
    LobbyLimit = 2
    Grace = 1
    MaxLength = 2
    MaxWrites = 2
    MaxCrashes = 0
    Horizon = 3
INVARIANTS
    ConnectedHostNotTimedOut
CHECK_DEADLOCK FALSE
