SPECIFICATION FairSpec
CONSTANTS
    Callers = {c1, c2}
    Requests = {r1}
    Ops = {"silent", "facade", "file"}
    Values = {v1, v2, v3}
    PoolSize = 1
    QueueBound = 2
    SpuriousBound = 1
INVARIANTS
    TypeOK
    ExclusiveUse
    NobodyForgotten
    CallsConsistent
PROPERTIES
    AnswersItsCall
    ImplementsRpc
    EveryCallReturns
