SPECIFICATION Spec
CONSTANTS
    Apps = {a1, a2}
    Callback = Callback
    Structs = {s1, s2}
    NoStruct = NoStruct
    MaxId = 2
    MaxNow = 1
    Intervals = {0, 1}
SYMMETRY Symmetry
CHECK_DEADLOCK FALSE
PROPERTIES
    RemovesThatTimer
