SPECIFICATION FairSpec
CONSTANTS
    Files = {f1}
    Queues = {q1, q2}
    Tasks = {t1, t2}
    Workers = {w1, w2}
    Apps = {a1}
    MaxThreads = 2
    DestroyEarly = FALSE
    NoTask = NoTask
    NoQueue = NoQueue
    NoWorker = NoWorker
    NoFile = NoFile
CHECK_DEADLOCK FALSE
PROPERTIES
    QueuedTaskPickedUp
    ShutdownEnds
    DestroyEnds
