SPECIFICATION Spec
CONSTANTS
    NoQuestion = NoQuestion
    NoResult = NoResult
    Question = {q1, q2}
    Participant = {}
    Closer = {c1, c2}
    Duration = 2
    RetryDelay = 1
    MaxRetries = 1
    Horizon = 4
    MaxFailures = 1
    MaxCrashes = 0
CHECK_DEADLOCK FALSE
PROPERTIES
    OpenTimerNotReplaced
