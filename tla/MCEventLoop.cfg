CONSTANTS
    Fds = {4, 5}
    IdleTimeout = 1
    Half = 8
    SndCap = 1
    MaxReq = 1
    MaxTime = 2
    MaxSpurious = 1
    TTLs = {1, 2}
    NULL = NULL
SPECIFICATION Spec
INVARIANTS TypeOK MapIsExact ReportsStillWanted IdleListExact NoOversleep
