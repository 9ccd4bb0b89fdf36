\* Two threads, two tracks of three sectors, the seek not a multiple of the
\* rotation.
CONSTANTS
    Thread = {t1, t2}
    SectorsPerTrack = 3
    NumTracks = 2
    SeekTime = 3
    RotationTime = 2
    Data = {zero, one}
    Zero = zero
    LastCall = 6
    MaxLate = 1
    NULL = NULL
SPECIFICATION FairSpec
CHECK_DEADLOCK FALSE
INVARIANTS OneRequestAtATime OwnCompletion DataCurrent LatencyExact
PROPERTY CallsReturn
