\* Kernel::ThreadSelfTest and the threads it forks, three more threads on
\* another list.
CONSTANTS
    List = {"ping", "this", "box"}
    Semaphore = {"sping", "test"}
    Thread <- Threads
    Forked <- Helpers
    Program <- Programs
    TestRounds = 2
    NULL = NULL
SPECIFICATION FairSynchListSpec
CHECK_DEADLOCK FALSE
INVARIANTS FirstInFirstOut SafeToDelete
PROPERTY ProgramsFinish
