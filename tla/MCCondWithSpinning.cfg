CONSTANTS
    t1 = t1
    t2 = t2
    t3 = t3
    NoThread = NoThread
    Threads = {t1, t2, t3}
    SpinLimit = 2
    MaxCount = 4
SPECIFICATION LiveSpec
INVARIANTS NobodyOversleeps
PROPERTIES ImplementsCond CallsEnd
CHECK_DEADLOCK FALSE
