SPECIFICATION Spec
CONSTANTS
    b1 = b1
    b2 = b2
    Browser = {b1, b2}
    Tab = {t1, t2}
    BrowserOf <- InOneBrowser
    Family = {f1, f2}
    NoFamily = NoFamily
    MaxRows = 2
    MaxPasswords = 2
INVARIANTS TypeOK PasswordEndsSignIns SignInSurvivesTabs SocketsFollowSignIn
PROPERTIES EndedStaysEnded
SYMMETRY Symmetry
CONSTRAINT Bounded
CHECK_DEADLOCK FALSE
