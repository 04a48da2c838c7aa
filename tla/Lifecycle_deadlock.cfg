\* Two goroutines stop a context that also ends by itself.
SPECIFICATION FairSpec
CONSTANTS
    outer = outer
    inner = inner
    r1 = r1
    r2 = r2
    s1 = s1
    s2 = s2
    k1 = k1
    Context = {outer}
    NestedIn <- NoNesting
    Runner = {r1}
    Stopper = {s1, s2}
    Closer = {}
    ContextOf <- SingleContextOf
    MayFinish = {outer}
PROPERTIES
    StopReturns
CHECK_DEADLOCK FALSE
