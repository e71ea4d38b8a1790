SPECIFICATION SystemSpec
CONSTANTS
    a = a
    b = b
    Host = {a, b}
    Service = {"web"}
    ReplicaID = {1, 2}
    TargetLists <- MCBothOrders
    MaxJobs = 1
    ConfigureOutcomes = {"SUCCESS", "FAILED", "CANCELLED"}
    RestartOutcomes = {"SUCCESS", "FAILED"}
    MaxTimeouts = 2
    MaxCrashes = 1
    MaxCancels = 2
    Believe = {TRUE, FALSE}
INVARIANTS SystemTypeOK OneHostAtATime InstalledBeforeRestart EventsFollowScript DeployedRuns BuildSpreadsInOrder NoJobForgotten
PROPERTIES NeverStartsOver
CHECK_DEADLOCK FALSE
