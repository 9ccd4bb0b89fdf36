CONSTANTS
    MaxFileOpen = 4
    Name = {"f"}
    Char = {NUL}
    NUL = NUL
    a = a
    Inode = {i1, i2, i3, i4, i5, i6, i7}
    MaxLen = 2
    Ids <- MCIds
    NULL = NULL
SPECIFICATION Spec
INVARIANT TableExact
PROPERTY FilesChangeExact
VIEW Kept
