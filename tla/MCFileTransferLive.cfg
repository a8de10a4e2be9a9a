SPECIFICATION FairSpec
CONSTANTS
    Transfers = {t1}
    Files = {f1}
    Blocks = {x, y}
    Modes = {"r", "w"}
    Buffers = {b1, b2}
    PoolSize = 1
    Capacity = 2
    PipeSize = 2
    MaxLength = 3
    ShortWrites = FALSE
PROPERTIES
    ImplementsStreams
    ClosedTransfersEnd
