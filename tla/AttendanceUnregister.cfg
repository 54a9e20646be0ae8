SPECIFICATION Spec
CONSTANTS
    NoUser = NoUser
    NoSocket = NoSocket
    Participant = {p1}
    Socket = {s1}
    MaxCrashes = 0
INVARIANTS
    AttendeesAreRegistered
CHECK_DEADLOCK FALSE
