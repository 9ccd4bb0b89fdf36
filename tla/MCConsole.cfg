\* Two readers and two writers, every input file of up to three bytes, the
\* byte 255 among them.
CONSTANTS
    Reader = {r1, r2}
    Writer = {w1, w2}
    EOF = EOF
    Byte = {x, y, EOF}
    MaxInput = 3
    MaxGet = 2
    MaxPut = 1
    NULL = NULL
SPECIFICATION FairSpec
CHECK_DEADLOCK FALSE
INVARIANTS InputExact DisplayAcknowledged
PROPERTY CallsReturn
