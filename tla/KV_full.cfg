SPECIFICATION Spec
CONSTANTS
    NumReplicas = 2
    NumClients = 2
    BUFFER_SIZE = 1
    Getters = {3}
    Putters = {2}
    Leavers = {2}
    Tickers = {2, 3}
    MaxClock = 2
    MaxPuts = 2
    MaxGets = 1
PROPERTIES ReplicasReturn
CHECK_DEADLOCK FALSE
