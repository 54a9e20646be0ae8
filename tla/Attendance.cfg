SPECIFICATION Spec
CONSTANTS
    NoUser = NoUser
    NoSocket = NoSocket
    Participant = {p1}
    Socket = {s1, s2}
    MaxCrashes = 1
SYMMETRY Interchangeable
INVARIANTS
    TypeOK
    AnswersByRegistered
    NoZombieSocket
PROPERTIES
    NewestKeepsPresence
CHECK_DEADLOCK FALSE
