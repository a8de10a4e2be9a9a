SPECIFICATION FairSpec
CONSTANTS
    Clients = {c1, c2}
    Files = {f1}
    Tasks = {t1, t2}
INVARIANTS
    TypeOK
    OneUpdateAtATime
PROPERTIES
    HolderHears
    TasksFinish
