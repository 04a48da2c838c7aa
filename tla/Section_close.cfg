\* An assertion fails in the middle of a section.
SPECIFICATION Spec
CONSTANTS
    plain = plain
    other = other
    elem1 = elem1
    elem2 = elem2
    hPlain = hPlain
    hOther = hOther
    hMap = hMap
    Value = {0, 1}
    InitValue = 0
    NoValue = NoValue
    Leaf = {plain, other}
    Handle = {hPlain, hOther}
    HandleOf <- PlainHandleOf
    MapHandle = {}
    Fallible = {plain}
    Failing = {other}
    MaxElements = 2
INVARIANTS
    ClosedOutsideSections
