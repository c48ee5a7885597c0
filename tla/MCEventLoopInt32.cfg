CONSTANTS
    Fds = {4}
    IdleTimeout = 1
    Half = 2
    SndCap = 1
    MaxReq = 1
    MaxTime = 3
    MaxSpurious = 1
    TTLs = {0, 1, 2, 3}
    NULL = NULL
SPECIFICATION Spec
INVARIANTS ForeverMeansNoTimers
