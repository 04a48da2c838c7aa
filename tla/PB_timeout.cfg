SPECIFICATION Spec
CONSTANTS
    NumReplicas = 1
    Clients = {19}
    Keys = {"k", "l"}
    Commands <- One
    Deployments <- Built
    Suspects <- Accurate
    MaxCalls = 2
    MaxTimeouts = 1
    MaxFailures = 0
PROPERTIES RetriesServed
CHECK_DEADLOCK FALSE
