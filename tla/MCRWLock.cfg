SPECIFICATION FairSpec
CONSTANTS
    Threads = {t1, t2, t3}
    NoThread = NoThread
    Clients = {"rwlock", "app"}
    Signals = {"signal", "broadcast"}
    SignalUnlocked = FALSE
    MaxCalls = 2
CHECK_DEADLOCK FALSE
INVARIANTS
    TypeOK
    Exclusion
    WaitersReleased
PROPERTIES
    CallsReturn
