SPECIFICATION Spec
CONSTANTS
    n1 = n1
    n2 = n2
    n3 = n3
    a = a
    b = b
    c = c
    Node = {n1, n2, n3}
    Value = {a, b, c}
    InitValue = a
    Reads = {}
    Writes <- Distinct
    Up <- CutN2N1
    Lossy = {}
    MayClose = {}
    MaxRequests <- RetryN1
    MaxAttempts = 1
INVARIANTS
    MajorityHoldsPreCommit
