SPECIFICATION Spec
CONSTANTS
    Threads = {t1}
    Events = {e1}
    NoEvent = NoEvent
    Callbacks = {c1}
    NoCallback = NoCallback
    Sentinel = Sentinel
    MaxQueued = 2
    Polling = FALSE
CHECK_DEADLOCK FALSE
INVARIANTS
    NoLostWakeup
