\* A timeout in Commit.
SPECIFICATION Spec
CONSTANTS
    s1 = s1
    s2 = s2
    Sender = {s1}
    ChanSize = 2
    MaxSections = 1
    MaxValues = 1
    MaxInFlight = 3
    MaxFaults = 1
    MayClose = FALSE
INVARIANTS
    DeliveredOnce
