SPECIFICATION Spec
CONSTANTS
    Keys = {k1, k2, k3, k4}
    Values = {v1, v2}
    NoValue = NoValue
    NoKey = NoKey
    Hashes = {0, 3, 4, 7}
    Buckets = {1, 4}
    MaxSizes = {8, 16}
SYMMETRY Symmetry
INVARIANTS
    RobinHood
PROPERTIES
    TableIsMap
