\* A channel that is full when the resource is closed.
SPECIFICATION FairSpec
CONSTANTS
    n1 = n1
    n2 = n2
    Node = {n1, n2}
    QueueSize = 1
    MaxWrites = 1
    MaxCalls = 2
    MayAbort = FALSE
    Lossy = FALSE
    MayClose = {n1}
PROPERTIES
    CloseEnds
CHECK_DEADLOCK FALSE
