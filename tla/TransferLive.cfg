SPECIFICATION FairSpec
CONSTANTS
    MaxBlocks = 2
    SndBufSize = 1
    RcvBufSize = 2
    CongestionWindow = 4
    LightAcks = FALSE
CHECK_DEADLOCK FALSE
PROPERTY WrittenIsDelivered
