\* Calls that time out and a replica that closes; sections do not abort.
SPECIFICATION FairSpec
CONSTANTS
    n1 = n1
    n2 = n2
    Node = {n1, n2}
    QueueSize = 1
    MaxWrites = 1
    MaxCalls = 1
    MayAbort = FALSE
    Lossy = TRUE
    MayClose = {n2}
INVARIANTS
    TypeOK
PROPERTIES
    SentArrives
