SPECIFICATION FairSpec
CONSTANTS
    NoQuestion = NoQuestion
    NoResult = NoResult
    Question = {q1, q2}
    Participant = {p1}
    Closer = {c1, c2}
    Duration = 2
    RetryDelay = 1
    MaxRetries = 1
    Horizon = 3
    MaxFailures = 1
    MaxCrashes = 1
INVARIANTS
    TypeOK
    StateMatchesQuestions
    AnswersInTime
    ResultsMatchAnswers
    AnnouncedAtMostOnce
    TimerCoversOpen
PROPERTIES
    AnswersFrozen
    NoEarlyClose
    ImplementsRound
    QuestionCloses
CHECK_DEADLOCK FALSE
