SPECIFICATION Spec
CONSTANTS
    Files = {f1}
    Queues = {q1}
    Tasks = {t1, t2, t3}
    Workers = {w1, w2}
    Apps = {a1, a2}
    MaxThreads = 2
    DestroyEarly = FALSE
    NoTask = NoTask
    NoQueue = NoQueue
    NoWorker = NoWorker
    NoFile = NoFile
SYMMETRY Symmetry
CHECK_DEADLOCK FALSE
INVARIANTS
    TypeOK
    TaskHeldOnce
    NoTaskLost
    CloseLast
    IOIsSound
    QueueOutlivesTasks
    WorkersAwake
    WaitersAwake
PROPERTIES
    OutcomeDecidedOnce
    ContractKept
