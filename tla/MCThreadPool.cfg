CONSTANTS
    Tasks = {t1, t2, t3}
    Workers = {w1, w2, w3}
    Client = Client
    NULL = NULL
    MaxSpurious = 1
SPECIFICATION FairSpec
INVARIANTS TypeOK MutualExclusion ExactlyOnce NoIdleBesideWork
PROPERTIES ImplementsTaskPool EveryTaskRuns
CHECK_DEADLOCK FALSE
