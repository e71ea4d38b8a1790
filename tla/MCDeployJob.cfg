SPECIFICATION Spec
CONSTANTS
    a = a
    b = b
    c = c
    Host = {a, b, c}
    Service = {"web"}
    ReplicaID = {1, 2, 3}
    TargetLists <- MCTargets
    MaxJobs = 1
INVARIANTS TypeOK OrderInRange PrefixRestarted DeployedAllRestarted FailedNamesHost
PROPERTIES ImplementsRollingDeploy
