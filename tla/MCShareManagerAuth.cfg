SPECIFICATION Spec
CONSTANTS
    u1 = u1
    u2 = u2
    good = good
    bad = bad
    Uris = {u1}
    Credentials = {good, bad}
    Accepts <- MCAccepts
    Tasks = {t1, t2}
    AuthReachable = TRUE
SYMMETRY Symmetry
INVARIANTS
    TablesAgree
    CredentialsHaveShares
    CredentialsWork
    RootsWereMounted
