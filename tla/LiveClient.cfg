SPECIFICATION Spec
CONSTANTS
    MaxReconnects = 2
    MaxChanges = 3
    MaxInbox = 3
INVARIANTS TypeOK NeverStranded LatestShown
CHECK_DEADLOCK FALSE
