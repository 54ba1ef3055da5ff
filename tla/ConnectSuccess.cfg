SPECIFICATION Spec
CONSTANTS
    Clients = {7, 8}
    ServerIds = {1, 2}
    HalfISN = 1
    MSS <- MCMSS
    Backlog = 1
    StoreLimit = 0
    Scenarios <- MCBlocking
PROPERTY SuccessMeansConnected
CHECK_DEADLOCK FALSE
