\* Requests time out, answers are late, nested contexts stop.
SPECIFICATION FairSpec
CONSTANTS
    Value = {1}
    MaxCount = 2
    MaxPeer = 1
    MayTimeOut = TRUE
    MayRefuse = TRUE
    MayStop = TRUE
INVARIANTS
    ChannelsAreDrained
    OwnAnswers
    NestedAgrees
    CommitsOnce
    ReadsGrow
    PeerIsTold
PROPERTIES
    StateGrows
    CallsEnd
