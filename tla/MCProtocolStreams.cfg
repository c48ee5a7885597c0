CONSTANTS
    Base = 6
    Width = 2
    MaxMsg = 8
    MaxArgs = 4
    ErrTooBig = 2
    TooBigText <- MCTooBigText
    Responses <- MCTwoResponses
    Scripts = {}
    Streams <- MCStreams
    Requests <- MCRequests
    RcvCap = 6
    SndCap = 4
    NULL = NULL
SPECIFICATION Spec
INVARIANTS FramesExact
CHECK_DEADLOCK FALSE
