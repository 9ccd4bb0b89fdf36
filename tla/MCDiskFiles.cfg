\* Three names for two directory entries, the first of which lies in two sectors
\* of the directory, and three free sectors of two bytes.
CONSTANTS
    NumSectors = 10
    SectorSize = 2
    NumDirect = 2
    MapSectors = 1
    DirFields = 5
    NumDirEntries = 4
    MaxFileOpen = 4
    Name = {"stdin", "stdout", fileA, fileB, fileC}
    fileA = fileA
    fileB = fileB
    fileC = fileC
    Byte = {Junk, a}
    Junk = Junk
    a = a
    MaxSize = 3
    RemoveOpen = FALSE
    NULL = NULL
SYMMETRY NamesAlike
SPECIFICATION Spec
INVARIANTS DiskConsistent OpenFilesCorrect
PROPERTIES WritesExact
