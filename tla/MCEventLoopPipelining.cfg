CONSTANTS
    Fds = {4}
    IdleTimeout = 1
    Half = 8
    SndCap = 2
    MaxReq = 4
    MaxTime = 3
    MaxSpurious = 1
    TTLs = {}
    NULL = NULL
SPECIFICATION Spec
INVARIANTS NobodyStranded AnsweredInOrder
