SPECIFICATION Spec
CONSTANTS
    Transfers = {t1}
    Files = {f1}
    Blocks = {x}
    Modes = {"r"}
    Buffers = {b1}
    PoolSize = 1
    Capacity = 1
    PipeSize = 1
    MaxLength = 1
    ShortWrites = FALSE
INVARIANT FailureReachesReader
