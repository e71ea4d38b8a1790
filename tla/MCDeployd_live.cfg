SPECIFICATION FairSpec
CONSTANTS
    a = a
    b = b
    Host = {a, b}
    Service = {"web"}
    ReplicaID = {1, 2}
    TargetLists <- MCOneOrder
    MaxJobs = 2
    ConfigureOutcomes = {"SUCCESS", "FAILED"}
    RestartOutcomes = {"SUCCESS"}
    MaxTimeouts = 0
    MaxCrashes = 0
    MaxCancels = 1
    Believe = {TRUE}
INVARIANTS TargetHasJobInPool InstalledBeforeRestart
PROPERTIES BelievedJobsEnd
CHECK_DEADLOCK FALSE
