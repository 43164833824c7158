SPECIFICATION MCSpec
CONSTANTS
    NoObj = NoObj
    m1 = m1
    m2 = m2
    c1 = c1
    f1 = f1
    w0 = w0
    w1 = w1
    Objects = {m1, m2, c1, f1, w0, w1}
    Capacity = 3
    Mutexes = {m1, m2}
    Conds = {c1}
    Futexes = {f1}
    Words = {w0, w1}
    CallbackWorkers = {1, 2}
    MaxMutexes = 1
    MaxConds = 1
    MaxRecursion = 2
INVARIANTS RetryFindsItsRecord NoLostMutexWakeup DeadlockIsReal WaitersKeepObjects
PROPERTIES ImplementsMonitor OutcomeKept WorkersTakeTurns
CHECK_DEADLOCK FALSE
