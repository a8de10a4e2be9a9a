SPECIFICATION Spec
CONSTANTS
    a = a
    b = b
    x = x
    Names = {a, b, x}
    Paths <- MCPaths
    Depth = 2
    Changes = 2
    Threads = {t1, t2}
    Others = TRUE
SYMMETRY Symmetry
INVARIANTS
    TypeOK
    ListingExact
