CONSTANTS
    k1 = k1
    k2 = k2
    k3 = k3
    Nil = Nil
    Clients = {t1, t2, t3}
    Keys = {k1, k2, k3}
    Entries = {e1, e2, e3}
    NumBuckets = 2
    BucketOf <- MCBucketOf
    Size <- MCSize
    EvictionKey <- MCEvictionKey
    TupleCount = 2
    MaxOverstated = 2
    MaxSizes = {2, 3}
SPECIFICATION Spec
SYMMETRY Symmetry
INVARIANTS OneEntryPerKey InUseCountsUsers BuffersOutliveTheirUse LruIsExact
PROPERTIES PruneMakesRoom
CHECK_DEADLOCK FALSE
