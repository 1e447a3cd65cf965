CONSTANTS
    t1 = t1
    t2 = t2
    t3 = t3
    m1 = m1
    m2 = m2
    c1 = c1
    NoThread = NoThread
    NoMutex = NoMutex
    NoCond = NoCond
    Nowhere = Nowhere
    Threads = {t1, t2, t3}
    Mutexes = {m1, m2}
    Conds = {c1}
    BucketOf <- Layout
SPECIFICATION MCSpec
PROPERTIES MutexIsALock CallsEnd
CHECK_DEADLOCK FALSE
