\* A context with a nested one is stopped before it was run.
SPECIFICATION FairSpec
CONSTANTS
    outer = outer
    inner = inner
    r1 = r1
    r2 = r2
    s1 = s1
    s2 = s2
    k1 = k1
    Context = {outer, inner}
    NestedIn <- NestedPair
    Runner = {r1, r2}
    Stopper = {s1, k1}
    Closer = {k1}
    ContextOf <- PairContextOf
    MayFinish = {}
PROPERTIES
    StopEndsNested
