\* A leaf that refuses and fails, and a map with two elements that refuse.
SPECIFICATION FairSpec
CONSTANTS
    plain = plain
    other = other
    elem1 = elem1
    elem2 = elem2
    hPlain = hPlain
    hOther = hOther
    hMap = hMap
    Value = {0, 1}
    InitValue = 0
    NoValue = NoValue
    Leaf = {plain, elem1, elem2}
    Handle = {hPlain, hMap}
    HandleOf <- MapHandleOf
    MapHandle = {hMap}
    Fallible = {plain, elem1, elem2}
    Failing = {plain}
    MaxElements = 3
INVARIANTS
    TraceExplains
PROPERTIES
    CommitWaits
    SectionsAreAtomic
    SectionsEnd
