\* No aborts and no lost calls.
SPECIFICATION FairSpec
CONSTANTS
    n1 = n1
    n2 = n2
    Node = {n1, n2}
    QueueSize = 2
    MaxWrites = 1
    MaxCalls = 2
    MayAbort = FALSE
    Lossy = FALSE
    MayClose = {}
PROPERTIES
    CommittedArrives
