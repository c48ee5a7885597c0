CONSTANTS
    Entries = {e1, e2, e3, e4, e5, e6}
    MaxTime = 2
    Times <- MCTimes
    NULL = NULL
SPECIFICATION Spec
INVARIANTS TypeOK HeapOrdered RefsExact
PROPERTIES ImplementsTimerQueue SiftAdvances
SYMMETRY Symmetry
