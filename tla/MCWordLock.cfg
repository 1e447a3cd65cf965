CONSTANTS
    t1 = t1
    t2 = t2
    t3 = t3
    NoThread = NoThread
    Threads = {t1, t2, t3}
    SpinCount = 2
SPECIFICATION LiveSpec
INVARIANTS QueueExclusion NodesOutliveTheirUse SleepersAreQueued
PROPERTIES ImplementsLiveLock
