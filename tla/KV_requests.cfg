SPECIFICATION Spec
CONSTANTS
    NumReplicas = 2
    NumClients = 2
    BUFFER_SIZE = 2
    Getters = {3}
    Putters = {2}
    Leavers = {2}
    Tickers = {2, 3}
    MaxClock = 2
    MaxPuts = 1
    MaxGets = 1
INVARIANTS CompletePutApplied NothingAfterDisconnection
CHECK_DEADLOCK FALSE
