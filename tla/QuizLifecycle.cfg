SPECIFICATION Spec
CONSTANTS
    NoAccount = NoAccount
    NoProject = NoProject
    Account = {h, u1, u2}
    Hosts = {h}
    Leavers = {h, u1}
    Project = {p}
    Quiz = {q1, q2}
    MaxProjects = 1
    MaxParticipants = 2
    CreationsPerDay = 1
    HostedPerMonth = 1
    MaxQuestions = 1
    Day = 2
SYMMETRY Interchangeable
INVARIANTS
    TypeOK
    StatusMatchesSession
    OneRoomPerHost
    WithinCapacity
    AllowancesKept
    PublishedHasQuestions
PROPERTIES
    FollowsQuizStatus
CHECK_DEADLOCK FALSE
