\* Requests time out and are refused late.
SPECIFICATION Spec
CONSTANTS
    Value = {1}
    MaxCount = 2
    MaxPeer = 1
    MayTimeOut = TRUE
    MayRefuse = TRUE
    MayStop = FALSE
INVARIANTS
    AbortDiscardsLateAnswers
