SPECIFICATION Spec
CONSTANTS
    NumReplicas = 3
    Clients = {19, 20}
    Keys = {"k", "l"}
    Commands <- Two
    Deployments <- Both
    Suspects <- Accurate
    MaxCalls = 1
    MaxTimeouts = 1
    MaxFailures = 2
INVARIANTS ConsistencyOK VersionIsState
PROPERTIES NothingUndone ClientsReturn
CHECK_DEADLOCK FALSE
