CONSTANTS
    c1 = c1
    c2 = c2
    w1 = w1
    w2 = w2
    w3 = w3
    w4 = w4
    NoJob = NoJob
    NoCall = NoCall
    Clients = {c1}
    Workers = {w1, w2}
    NumThreads = {}
    DefaultThreads = 3
    Calls <- MCCalls
    Tasks <- MCTasks
    Semaphores <- MCSemaphores
    TasksOf <- MCTasksOf
    Initially <- MCInitially
    Loop <- MCLoop
    Extent <- MCExtent
    Acquires <- MCAcquires
    Body <- MCBody
    TopCalls = {"fork", "batch", "rows", "ys"}
    MayFail = {"produce"}
SPECIFICATION LiveSpec
INVARIANTS ReservationsBalance QueueHoldsTheRest FailureReachesOwner
PROPERTIES CallsLeaveNothingBehind SuccessMeansDone CallsReturn
