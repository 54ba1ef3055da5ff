SPECIFICATION StructSpec
CONSTANTS
    SeqNoTH = 6
    MaxSeqNo = 13
    MaxFlight = 5
    Window = 5
    SndSize = 5
    RcvSize = 5
    WrappedDrops = FALSE
    RcvBufSize = 2
    SndBufSize = 2
    EntrySize = 4
    MaxEntries = 2
    FullNum = 1
    FullDen = 2
    Readers = {1}
    MaxDrift = 0
    AckWindowSize = 4
    MaxAckSeqNo = 4
    MaxSent = 4
    MaxReports = 7
    Unit = 2
    Periods = {1, 44, 60}
    FileLength = 4
    SendSizes = {3, 4, 5}
    RecvSize = 4
    BlockSize = 2
    SndRoom = 2
    RcvSockets = {1, 2, 3}
    HashSize = 2
    Stale = 2
    Hosts <- MCHosts
    Words = {0, 9}
    MaxSize = 3
    RcvRoom = 2
VIEW StructView
INVARIANTS
    WrapIsInvisible
    SndListWellFormed
    RcvListWellFormed
    FreeUnitIsFound
    AckWindowIsLog
    IndexesAgree
    HostInfoKept
    RateHalvedAtMost
    OffsetsAccount
    SleeperHasNoWork
    RemovedIsUnmarked
PROPERTIES
    SndListIsSet
    RcvListIsSet
CHECK_DEADLOCK FALSE
