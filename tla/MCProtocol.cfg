CONSTANTS
    Base = 6
    Width = 2
    MaxMsg = 8
    MaxArgs = 4
    ErrTooBig = 2
    TooBigText <- MCTooBigText
    Responses <- MCResponses
    Scripts <- MCScripts
    Streams = {}
    Requests = {}
    RcvCap = 5
    SndCap = 4
    NULL = NULL
SPECIFICATION FairSpec
PROPERTIES ImplementsSession ClientEnds
CHECK_DEADLOCK FALSE
