SPECIFICATION FairSpec
CONSTANTS
    Build = {b1, b2, b3, b4}
    Env = {e1, e2}
    Installed = {b1, b2, b4}
    Bad = {b2}
    None = None
    MaxFaults = 3
    MaxCrashes = 2
INVARIANTS TypeOK SuccessStarted LinksPaired FailureRollsBack RunningBuildLinked
PROPERTIES RolledBackServiceReturns ImplementsServiceOnHost
