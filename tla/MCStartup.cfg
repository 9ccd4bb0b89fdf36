\* Int has 6 bits and long long 8: the input 281 wraps around to 25.
CONSTANTS
    NULL = NULL
    Item = {0, 1, 2, 3, 4, 5}
    KeyOf <- MCKeyOf
    InitialBuckets = 1
    ResizeRatio = 2
    IncreaseSizeBy = 2
    BitsInWord = 3
    NumBits = 7
    PageSize = 4
    NumPhysPages = 4
    UserStackSize = 5
    StackMargin = 1
    HeaderSize = 2
    SectionSize = {0, 1, 3}
    ByteValues = 8
    NOFFMAGIC = 10
    MIPSELMAGIC = 26
    NoFile = NoFile
    Garbage = Garbage
    IntBits = 6
    LongBits = 8
    PrintLimit = 3
    UserMemory = {0, 1, 2, 3}
    Typed <- MCTyped
    Programs <- MCPrograms
    Random = {0, 5}
    Argvs <- MCArgvs
    UnixFiles <- MCUnixFiles
    OnDisk <- MCOnDisk
    MaxFileSize = 5
    NumDirEntries = 1
    TransferSize = 2
SPECIFICATION Spec
CHECK_DEADLOCK FALSE
INVARIANTS ContainersExact ImageExact ArgumentsExact BootOrder CommandsExact
PROPERTY ConsoleCallsExact
