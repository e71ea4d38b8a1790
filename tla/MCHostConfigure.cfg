SPECIFICATION Spec
CONSTANTS
    Job = {j1, j2, j3}
    Request <- MCRequests
    NoRequest = NoRequest
    EnvInStore = {1}
    MaxCrashes = 1
SYMMETRY MCSymmetry
CHECK_DEADLOCK FALSE
INVARIANTS TypeOK SuccessInstalled SuccessHasEnv UnitWhole
PROPERTIES ReleaseKept
