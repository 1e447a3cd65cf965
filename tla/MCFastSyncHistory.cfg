CONSTANTS
    t1 = t1
    t2 = t2
    t3 = t3
    m1 = m1
    m2 = m2
    c1 = c1
    c2 = c2
    NoThread = NoThread
    NoMutex = NoMutex
    NoCond = NoCond
    Nowhere = Nowhere
    Threads = {t1, t2, t3}
    Mutexes = {m1, m2}
    Conds = {c1, c2}
    BucketOf <- Crosswise
SPECIFICATION HistorySpec
SYMMETRY Symmetry
INVARIANTS MutualExclusion SleepersAreAnnounced NoStrandedSleeper CondTracksWaiters WakesSleepers NoBucketDeadlock
PROPERTIES NotificationsReach
CHECK_DEADLOCK FALSE
