SPECIFICATION Spec
CONSTANTS
    a = a
    b = b
    c = c
    Host = {a, b, c}
    Service = {"web"}
    ReplicaID = {1, 2, 3}
    TargetLists <- MCTwoHosts
    MaxJobs = 1
PROPERTIES CancelledIsFinal
