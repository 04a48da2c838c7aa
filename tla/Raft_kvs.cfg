SPECIFICATION Spec
CONSTANTS
    NumServers = 3
    Clients = {19}
    Commands <- OnePut
    Suspects <- Wary
    Starters <- Contest
    Breakable <- RequestRoute
    MaxLog = 1
    MaxRequests = 1
    Capacity = 1
    MaxSends = 2
    Contacts = {1}
    MaxBusy = 2
INVARIANTS ElectionSafety AssertionsHold
    DiskFollowsLog
PROPERTIES RefinesSingleCopy
CHECK_DEADLOCK FALSE
VIEW LiveView
