\* Sections of several writes that may abort, calls that time out and arrive late.
SPECIFICATION Spec
CONSTANTS
    n1 = n1
    n2 = n2
    Node = {n1, n2}
    QueueSize = 1
    MaxWrites = 2
    MaxCalls = 1
    MayAbort = TRUE
    Lossy = TRUE
    MayClose = {n1, n2}
INVARIANTS
    OnlyCommittedSpreads
    OwnCountIsKept
SYMMETRY NodeSymmetry
VIEW LiveView
