CONSTANTS
    Keys = {k1, k2}
    Strings = {s1}
    Names = {1}
    Scores = {1}
    Entries = {e1, e2}
    Workers = {w1}
    MaxTime = 2
    MaxTTL = 1
    Times <- MCTimes
    TTLs <- MCTTLs
    Offsets = {0}
    Limits = {1}
    LargeSize = 0
    MaxWorks = 0
    NULL = NULL
SPECIFICATION FairSpec
PROPERTIES DueKeysGo DoomedAreFreed
VIEW Unasked
