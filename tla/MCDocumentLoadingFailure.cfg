SPECIFICATION Spec
CONSTANTS
    Clients = {c1, c2}
    Files = {f1}
    Tasks = {t1, t2}
PROPERTY FailureIsTold
