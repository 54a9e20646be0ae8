SPECIFICATION FairSpec
CONSTANTS
    NoCall = NoCall
    LostCall = LostCall
    NoSocket = NoSocket
    Socket = {s1}
    Call = {c1}
    LobbyLimit = 1
    Grace = 1
    MaxLength = 1
    MaxWrites = 1
    MaxCrashes = 1
    Horizon = 2
PROPERTIES
    QuizEnds
    LobbyCloses
CHECK_DEADLOCK FALSE
