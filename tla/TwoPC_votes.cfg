\* An Abort handled between the two sections of its PreCommit's handler.
SPECIFICATION FairSpec
CONSTANTS
    n1 = n1
    n2 = n2
    n3 = n3
    a = a
    b = b
    c = c
    Node = {n1, n2, n3}
    Value = {a, b, c}
    InitValue = a
    Reads = {n1}
    Writes <- Distinct
    Up <- AllLinks
    Lossy = {}
    MayClose = {n1}
    MaxRequests <- OnlyN1
    MaxAttempts = 1
PROPERTIES
    VotesAreResolved
