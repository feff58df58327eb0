SPECIFICATION FairSpec
CONSTANTS
    Threads = {t1}
    Events = {e1, e2}
    NoEvent = NoEvent
    Callbacks = {c1}
    NoCallback = NoCallback
    Sentinel = Sentinel
    MaxQueued = 2
    Polling = TRUE
CHECK_DEADLOCK FALSE
INVARIANTS
    TypeOK
    SentinelsRight
    WaiterServed
PROPERTIES
    FifoKept
    CallbackReturns
    EventLeaves
