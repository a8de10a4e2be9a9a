SPECIFICATION Spec
CONSTANTS
    Transfers = {t1, t2}
    Files = {f1}
    Blocks = {x, y}
    Modes = {"r", "w"}
    Buffers = {b1, b2}
    PoolSize = 1
    Capacity = 1
    PipeSize = 1
    MaxLength = 2
    ShortWrites = FALSE
SYMMETRY Symmetry
INVARIANTS
    TypeOK
    BuffersExclusive
    NoBufferException
    BlocksInOrder
    NothingStaysOpen
    ChangesAreAnnounced
