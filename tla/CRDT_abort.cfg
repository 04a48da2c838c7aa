\* Sections may abort.
SPECIFICATION Spec
CONSTANTS
    n1 = n1
    n2 = n2
    Node = {n1, n2}
    QueueSize = 2
    MaxWrites = 1
    MaxCalls = 2
    MayAbort = TRUE
    Lossy = FALSE
    MayClose = {}
PROPERTIES
    MergedIsKept
