SPECIFICATION Spec
CONSTANTS
    u1 = u1
    u2 = u2
    good = good
    bad = bad
    Uris = {u1, u2}
    Credentials = {good, bad}
    Accepts <- MCAccepts
    Tasks = {t1, t2}
    AuthReachable = FALSE
SYMMETRY Symmetry
INVARIANTS
    TypeOK
    RestartChangesNothing
PROPERTY ImplementsStore
