CONSTANTS
    Fds = {4}
    IdleTimeout = 1
    Half = 8
    SndCap = 1
    MaxReq = 2
    MaxTime = 2
    MaxSpurious = 1
    TTLs = {}
    NULL = NULL
SPECIFICATION FairSpec
PROPERTIES RequestsAnswered IdleConnsGo
