SPECIFICATION Spec
CONSTANTS
    NumReplicas = 2
    NumClients = 2
    BUFFER_SIZE = 2
    Getters = {}
    Putters = {2, 3}
    Leavers = {}
    Tickers = {2, 3}
    MaxClock = 2
    MaxPuts = 2
    MaxGets = 1
INVARIANTS SameOrder
CHECK_DEADLOCK FALSE
