SPECIFICATION Spec
CONSTANTS
    NumReplicas = 4
    Clients = {19, 20}
    Keys = {"k", "l"}
    Commands <- Two
    Deployments <- Specified
    Suspects <- Accurate
    MaxCalls = 1
    MaxTimeouts = 0
    MaxFailures = 1
INVARIANTS AssertionsHold
CHECK_DEADLOCK FALSE
