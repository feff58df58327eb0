SPECIFICATION Spec
CONSTANTS
    Threads = {t1, t2, t3, t4}
    NoThread = NoThread
    Clients = {"app"}
    Signals = {"broadcast"}
    SignalUnlocked = TRUE
    MaxCalls = 1
SYMMETRY Symmetry
CHECK_DEADLOCK FALSE
INVARIANTS
    NoneLeftAsleep
