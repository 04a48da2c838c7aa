\* Requests time out and are acknowledged late.
SPECIFICATION Spec
CONSTANTS
    Value = {1}
    MaxCount = 2
    MaxPeer = 1
    MayTimeOut = TRUE
    MayRefuse = FALSE
    MayStop = FALSE
INVARIANTS
    AbortTakesItsOwnAck
