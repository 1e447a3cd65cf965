CONSTANTS
    c1 = c1
    c2 = c2
    Nil = Nil
    Clients = {t1, t2}
    Contexts = {c1, c2}
    Pipelines = {p1, p2}
    Modules = {m1, m2, m3, m4}
    KernelHash <- MCKernelHash
    InitialBits = 1
    MaxBits = 4
    MaxDrift = 1
    MaxLost = 1
SPECIFICATION CacheSpec
SYMMETRY Symmetry
INVARIANT ReleasesFind
CHECK_DEADLOCK FALSE
