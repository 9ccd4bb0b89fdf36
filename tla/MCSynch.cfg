CONSTANTS
    main = main
    t1 = t1
    t2 = t2
    t3 = t3
    s1 = s1
    l1 = l1
    c1 = c1
    NULL = NULL
    Thread = {main, t1, t2}
    UserThread = {}
    Semaphore = {s1}
    DeviceSem = {s1}
    Lock = {l1}
    Condition = {c1}
    CondLock <- MCCondLock
    InitValue <- MCInitValue
    MaxValue = 2
SYMMETRY Symmetry
SPECIFICATION SynchSpec
INVARIANTS QueuesSafe NoLostWakeup LockExclusion
PROPERTIES ThreadsContract MesaMonitor
