SPECIFICATION SystemSpec
CONSTANTS
    a = a
    b = b
    Host = {a, b}
    Service = {"web"}
    ReplicaID = {1, 2}
    TargetLists <- MCOneOrder
    MaxJobs = 1
    ConfigureOutcomes = {"SUCCESS"}
    RestartOutcomes = {"SUCCESS"}
    MaxTimeouts = 0
    MaxCrashes = 1
    MaxCancels = 0
    Believe = {TRUE}
INVARIANTS TargetHasJobInPool
CHECK_DEADLOCK FALSE
