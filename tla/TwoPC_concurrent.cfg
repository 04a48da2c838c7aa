\* Two proposers at once, one of which reads first and closes its replica;
\* handlers of one sender may overlap.
SPECIFICATION Spec
CONSTANTS
    n1 = n1
    n2 = n2
    n3 = n3
    a = a
    b = b
    c = c
    Node = {n1, n2, n3}
    Value = {a, b, c}
    InitValue = a
    Reads = {n2}
    Writes <- Distinct
    Up <- AllLinks
    Lossy = {}
    MayClose = {n2}
    MaxRequests <- OneEach
    MaxAttempts = 1
INVARIANTS
    VoteExcludesProposal
    NoDirtyValue
    Agreement
    ExclusiveProposal
PROPERTIES
    VersionsGrow
    NoLostUpdate
