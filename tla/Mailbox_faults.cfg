\* One sender whose connection may break, and a local end that may close.
SPECIFICATION FairSpec
CONSTANTS
    s1 = s1
    s2 = s2
    Sender = {s1}
    ChanSize = 1
    MaxSections = 2
    MaxValues = 2
    MaxInFlight = 2
    MaxFaults = 1
    MayClose = TRUE
INVARIANTS
    OnlyCommittedArrives
    CommittedIsKept
PROPERTIES
    IsReliableLink
    CommitEnds
