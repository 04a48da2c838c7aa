SPECIFICATION Spec
CONSTANTS
    NumServers = 3
    Clients = {19}
    Commands <- OnePut
    Suspects <- NoRoutes
    Starters <- Relay
    Breakable <- AppendRoute
    MaxLog = 1
    MaxRequests = 1
    Capacity = 1
    MaxSends = 1
    Contacts = {1}
    MaxBusy = 2
INVARIANT LeaderCompleteness
CHECK_DEADLOCK FALSE
