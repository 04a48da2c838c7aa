SPECIFICATION Spec
CONSTANTS
    NumReplicas = 3
    Clients = {19, 20}
    Keys = {"k", "l"}
    Commands <- Two
    Deployments <- Built
    Suspects <- Nervous
    MaxCalls = 1
    MaxTimeouts = 0
    MaxFailures = 0
INVARIANTS ConsistencyOK
CHECK_DEADLOCK FALSE
