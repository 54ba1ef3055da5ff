SPECIFICATION RcvLossSpec
CONSTANTS
    SeqNoTH = 7
    MaxSeqNo = 15
    Window = 6
    RcvSize = 6
    WrappedDrops = TRUE
VIEW ListView
PROPERTY RangeRemoved
