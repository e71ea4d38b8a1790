SPECIFICATION GateSpec
CONSTANTS
    h1 = h1
    h2 = h2
    Host <- MCHost
    Offset <- MCOffset
    TargetLists <- MCTargetLists
    Service = {"a", "b", "none"}
    Known = {"a", "b"}
    ReplicaID = {1}
    Request = {r1, r2, r3}
    MaxJobs = 3
    Gap = 2
    MaxClock = 4
SYMMETRY MCSymmetry
INVARIANTS GateTypeOK JobsSpaced JobsSpacedInTime OneJobPerRequest
CHECK_DEADLOCK FALSE
