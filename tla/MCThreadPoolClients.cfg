CONSTANTS
    c1 = c1
    c2 = c2
    w1 = w1
    w2 = w2
    w3 = w3
    w4 = w4
    NoJob = NoJob
    NoCall = NoCall
    Clients = {c1, c2}
    Workers = {w1}
    NumThreads = {1, 2}
    DefaultThreads = 2
    Calls <- MCCalls
    Tasks <- MCTasks
    Semaphores <- MCSemaphores
    TasksOf <- MCTasksOf
    Initially <- MCInitially
    Loop <- MCLoop
    Extent <- MCExtent
    Acquires <- MCAcquires
    Body <- MCBody
    TopCalls = {"outers"}
    MayFail = {}
SPECIFICATION Spec
SYMMETRY Symmetry
INVARIANTS NeverStuck
PROPERTIES SuccessMeansDone
