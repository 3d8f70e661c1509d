SPECIFICATION SpecWorker
CONSTANT Task = {t1, t2, t3}
INVARIANTS
    TypeOK
    TypeOKWorker
    OneAtATime
    ResolvedIsStored
PROPERTIES
    EveryCallAnswered
    ImplementsOperationQueue
    ImplementsRemotely
CHECK_DEADLOCK FALSE
