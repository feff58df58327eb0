SPECIFICATION FairSpec
CONSTANTS
    Apps = {a1}
    Callback = Callback
    Structs = {s1, s2}
    NoStruct = NoStruct
    MaxId = 2
    MaxNow = 1
    Intervals = {0, 1}
CHECK_DEADLOCK FALSE
PROPERTIES
    QuitEnds
