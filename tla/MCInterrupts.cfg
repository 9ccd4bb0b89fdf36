\* A kernel tick is three user ticks, so that interrupts come due inside one;
\* random time slices are between 1 and 4 ticks.
CONSTANTS
    NULL = NULL
    Device = {"disk", "keyboard"}
    Polling = {"keyboard"}
    Latency <- Latencies
    UserTick = 1
    SystemTick = 3
    TimerTicks = 2
    MaxTicks = 8
SPECIFICATION FairSpec
CHECK_DEADLOCK FALSE
INVARIANTS OnTime TimeSlices
PROPERTY InterruptsCome
