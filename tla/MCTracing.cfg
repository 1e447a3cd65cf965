CONSTANTS
    a = a
    b = b
    c = c
    d = d
    Threads = {a, b, c, d}
    Events <- MCEvents
    Owner <- MCOwner
    BufferSize = 3
    HasTraceFile = TRUE
    Descriptors = {0}
    WriteMayFail = TRUE
CHECK_DEADLOCK FALSE
SPECIFICATION LiveSpec
INVARIANTS LockIsExact FileIsWhole EndedPipelineIsWritten
PROPERTIES CallsEnd
