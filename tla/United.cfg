SPECIFICATION FairSpec
CONSTANTS
  Sockets = {1, 2, 3}
  a1 = a1
  a2 = a2
  Acceptors = {a1, a2}
  Backlog = 2
  Plans <- MCPlans
INVARIANTS MuxCountExact QueuedInTable NoLostAccept ConnectReported NoAcceptorStranded
PROPERTY ClosedIsRemoved
CHECK_DEADLOCK FALSE
