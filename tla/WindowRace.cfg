SPECIFICATION Spec
CONSTANTS
    MaxBlocks = 4
    SndBufSize = 3
    RcvBufSize = 2
    CongestionWindow = 4
    LightAcks = TRUE
CHECK_DEADLOCK FALSE
INVARIANT WindowRespected
