SPECIFICATION Spec
CONSTANTS
    NoCall = NoCall
    LostCall = LostCall
    NoSocket = NoSocket
    Socket = {s1, s2}
    Call = {c1, c2}
    LobbyLimit = 1
    Grace = 1
    MaxLength = 1
    MaxWrites = 2
    MaxCrashes = 1
    Horizon = 1
SYMMETRY Interchangeable
CONSTRAINT Unsettled
INVARIANTS
    TypeOK
    DeadlineCovered
    SettledPresence
PROPERTIES
    StartedIsKept
CHECK_DEADLOCK FALSE
