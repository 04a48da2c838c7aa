\* A map with two elements that may refuse their PreCommit.
SPECIFICATION Spec
CONSTANTS
    plain = plain
    other = other
    elem1 = elem1
    elem2 = elem2
    hPlain = hPlain
    hOther = hOther
    hMap = hMap
    Value = {0, 1}
    InitValue = 0
    NoValue = NoValue
    Leaf = {elem1, elem2}
    Handle = {hMap}
    HandleOf <- MapHandleOf
    MapHandle = {hMap}
    Fallible = {elem1, elem2}
    Failing = {}
    MaxElements = 2
INVARIANTS
    AnswersAreDrained
