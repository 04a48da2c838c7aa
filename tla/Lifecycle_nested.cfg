\* A context with a nested one, which may end by itself, is stopped by two goroutines;
\* they can block each other (Lifecycle_deadlock.cfg).
SPECIFICATION Spec
CONSTANTS
    outer = outer
    inner = inner
    r1 = r1
    r2 = r2
    s1 = s1
    s2 = s2
    k1 = k1
    Context = {outer, inner}
    NestedIn <- NestedPair
    Runner = {r1, r2}
    Stopper = {s1, s2, k1}
    Closer = {k1}
    ContextOf <- PairContextOf
    MayFinish = {inner}
INVARIANTS
    StopIsFinal
    NoPanic
CHECK_DEADLOCK FALSE
