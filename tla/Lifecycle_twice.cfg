\* A context is run a second time after it ended.
SPECIFICATION Spec
CONSTANTS
    outer = outer
    inner = inner
    r1 = r1
    r2 = r2
    s1 = s1
    s2 = s2
    k1 = k1
    Context = {outer}
    NestedIn <- NoNesting
    Runner = {r1, r2}
    Stopper = {s1}
    Closer = {}
    ContextOf <- SingleContextOf
    MayFinish = {outer}
INVARIANTS
    ExitIsFinal
