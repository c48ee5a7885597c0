CONSTANTS
    Keys = {k1, k2}
    Strings = {s1}
    Names = {1, 2}
    Scores = {1}
    Entries = {e1, e2, e3}
    Workers = {w1, w2}
    MaxTime = 2
    MaxTTL = 1
    Times <- MCTimes
    TTLs <- MCTTLs
    Offsets <- MCOffsets
    Limits = {0, 1, 3}
    LargeSize = 1
    MaxWorks = 0
    NULL = NULL
SPECIFICATION Spec
INVARIANTS TypeOK DbSound TimersSound PoolSound NoLeak
PROPERTIES ImplementsKVStore
SYMMETRY Symmetry
VIEW Unasked
