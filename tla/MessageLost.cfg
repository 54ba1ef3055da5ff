SPECIFICATION Spec
CONSTANTS
  MaxBlocks = 5
  MaxMessages = 3
  MaxSeqNo = 7
  MaxAstray = 2
  StaleRuns = {1}
  MessageSizes <- Sizes
  Options <- Kinds
  SndBufSize = 3
  RcvBufSize = 4
  RingStarts <- Start
INVARIANT InfiniteIsDelivered
CHECK_DEADLOCK FALSE
