\* The main thread and two more, two of them running user programs.
CONSTANTS
    main = main
    t1 = t1
    t2 = t2
    NULL = NULL
    Thread = {main, t1, t2}
    UserThread = {main, t1}
SPECIFICATION FairSpec
INVARIANTS SchedulerSafe CarcassSafe UserStateIsolated 
PROPERTIES DeletedForever NobodyIsLeft
