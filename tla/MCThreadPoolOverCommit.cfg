CONSTANTS
    c1 = c1
    c2 = c2
    w1 = w1
    w2 = w2
    w3 = w3
    w4 = w4
    NoJob = NoJob
    NoCall = NoCall
    Clients = {c1}
    Workers = {w1, w2, w3, w4}
    NumThreads = {}
    DefaultThreads = 5
    Calls <- MCCalls
    Tasks <- MCTasks
    Semaphores <- MCSemaphores
    TasksOf <- MCTasksOf
    Initially <- MCInitially
    Loop <- MCLoop
    Extent <- MCExtent
    Acquires <- MCAcquires
    Body <- MCBody
    TopCalls = {"ys"}
    MayFail = {}
SPECIFICATION Spec
SYMMETRY Symmetry
INVARIANTS NeverAborts
CHECK_DEADLOCK FALSE
