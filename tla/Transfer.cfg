SPECIFICATION Spec
CONSTANTS
    MaxBlocks = 3
    SndBufSize = 3
    RcvBufSize = 3
    CongestionWindow = 3
    LightAcks = TRUE
CHECK_DEADLOCK FALSE
INVARIANTS
    HonestPeerTrusted
    ReleasedIsStored
    StaleCopyRefused
    LossListExact
    SndLossFits
    ConfirmedAckIsApplied
    LossScheduled
PROPERTY StreamRefined
