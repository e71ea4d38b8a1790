SPECIFICATION Spec
CONSTANTS
    Job = {j1, j2}
    Request <- MCOneBuild
    NoRequest = NoRequest
    EnvInStore = {1}
    MaxCrashes = 1
CHECK_DEADLOCK FALSE
INVARIANTS SuccessAlwaysInstalled
