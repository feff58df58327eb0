SPECIFICATION Spec
CONSTANTS
    Files = {f1}
    Queues = {q1, q2}
    Tasks = {t1, t2}
    Workers = {w1, w2}
    Apps = {a1, a2}
    MaxThreads = 2
    DestroyEarly = TRUE
    NoTask = NoTask
    NoQueue = NoQueue
    NoWorker = NoWorker
    NoFile = NoFile
SYMMETRY Symmetry
CHECK_DEADLOCK FALSE
INVARIANTS
    QueueOutlivesTasks
