------------------------------ MODULE DiskFiles ------------------------------
(***************************************************************************)
(* The file system on the simulated disk: filesys/filesys.cc, filehdr.cc,  *)
(* directory.cc, pbitmap.cc, openfile.cc and lib/bitmap.cc (the build      *)
(* without FILESYS_STUB).  A file is a header in one sector and the data   *)
(* sectors the header names; the map of free sectors and the directory are *)
(* files themselves.  Create and Remove change copies in memory and write  *)
(* them back one after the other, a sector at a time: the writes still to  *)
(* come are in todo.                                                       *)
(*                                                                         *)
(* As the source says, there is no concurrent access: one operation at a   *)
(* time.  But Nachos may stop between any two sector writes, and the next  *)
(* boot mounts the disk as it then is.  A file whose name was in the       *)
(* directory and whose sectors were not marked at such a stop is hurt: the *)
(* next Create takes its sectors.  The properties are about the others.    *)
(***************************************************************************)
EXTENDS Naturals, Sequences, FiniteSets, FiniteSetsExt, Functions

CONSTANTS
    NumSectors, SectorSize,
    NumDirect,      \* data sectors a header has room for
    MapSectors,     \* data sectors of the free map file
    NumDirEntries, MaxFileOpen,
    DirFields,      \* how many fields of the directory fit in a sector
    Name,           \* file names, by their first FileNameMaxLen characters
    Byte,
    Junk,           \* the byte a sector holds that was not written as data
    MaxSize,        \* largest initialSize a caller asks for
    RemoveOpen,     \* whether callers remove files that are open
    NULL

DivRoundUp(n, s) == (n + s - 1) \div s

(* The directory on the disk: each entry is its head (inUse and sector)    *)
(* and its name, fields 2i - 2 and 2i - 1 of the file.  In the code 13     *)
(* fields fit in the first sector, and the last entry with its head there  *)
(* has its name in the second.                                             *)
DirSectors == DivRoundUp(2 * NumDirEntries, DirFields)
HeadPart(i) == 1 + (2 * i - 2) \div DirFields
NamePart(i) == 1 + (2 * i - 1) \div DirFields

(* MaxSize is a size a header can hold: Allocate does not check that.      *)
ASSUME DiskAssumption ==
    /\ {NumSectors, SectorSize, MapSectors, NumDirEntries, DirFields} \subseteq Nat \ {0}
    /\ NumDirect \in Nat
    /\ MaxSize \in Nat /\ MaxSize <= NumDirect * SectorSize
    /\ MaxFileOpen \in Nat /\ MaxFileOpen > 3
    /\ NumSectors >= 4 + MapSectors + DirSectors
    /\ NumDirEntries >= 2
    /\ {"stdin", "stdout"} \subseteq Name
    /\ Junk \in Byte
    /\ RemoveOpen \in BOOLEAN

Sector == 0..(NumSectors - 1)
FreeMapSector == 0
DirectorySector == 1
Block == [1..SectorSize -> Byte]
JunkBlock == [k \in 1..SectorSize |-> Junk]

(* FileHeader; numSectors is the length of dataSectors. *)
Header == [numBytes : 0..MaxSize, dataSectors : Seq(Sector)]
Entry == [inUse : BOOLEAN, name : Name, sector : Sector]
Directory == [1..NumDirEntries -> Entry]
PersistentBitmap == SUBSET Sector

(* The slots Open uses; 0 and 1, for stdin and stdout, are left out. *)
Slot == 2..(MaxFileOpen - 1)

(* OpenFile; of is history: the sector the header was fetched from. *)
OpenFile == [hdr : Header, of : Sector, seekPosition : Nat]

ASSUME NullAssumption == NULL \notin Header \cup OpenFile

VARIABLES
    freeMap,   \* the contents of the free map file: the sectors marked
    table,     \* the contents of the directory file
    headerAt,  \* the header in a sector, NULL if it holds none
    bytesAt,   \* the bytes in a sector
    openf,     \* FileSystem::openf: an OpenFile or NULL
    todo,      \* the writes the operation in progress has still to make
    hurt       \* history: the entries whose files a stop has hurt

disk == << freeMap, table, headerAt, bytesAt >>
vars == << disk, openf, todo, hurt >>

TypeOK ==
    /\ freeMap \in PersistentBitmap
    /\ table \in Directory
    /\ headerAt \in [Sector -> Header \cup {NULL}]
    /\ bytesAt \in [Sector -> Block]
    /\ openf \in [Slot -> OpenFile \cup {NULL}]
    /\ Len(todo) <= 3
    /\ hurt \subseteq 1..NumDirEntries

-----------------------------------------------------------------------------
(* Bitmap, FileHeader, Directory: operations on copies in memory.          *)

(* The numbers in S, in increasing order: what a loop upwards over the     *)
(* bits or the entries of a table meets in turn.                           *)
Below(S, x) == {y \in S : y < x}
Upwards(S) ==
    [i \in 1..Cardinality(S) |-> CHOOSE x \in S : Cardinality(Below(S, x)) = i - 1]

(* The first k clear bits of map, in order: FindAndSet called k times. *)
FirstClear(map, k) == SubSeq(Upwards(Sector \ map), 1, k)

NumClear(map) == Cardinality(Sector \ map)

(* FileHeader::Allocate: the header of a file of size bytes. *)
Allocate(map, size) ==
    [numBytes |-> size, dataSectors |-> FirstClear(map, DivRoundUp(size, SectorSize))]

(* FileHeader::FetchFrom and FileLength. *)
FetchHeader(sector) == headerAt[sector]
FileLength(hdr) == hdr.numBytes

(* Directory::FindIndex. *)
Entries(n) == {i \in 1..NumDirEntries : table[i].inUse /\ table[i].name = n}
Find(n) == table[Min(Entries(n))].sector
Present(n) == Entries(n) # {}

(* Directory::Add takes the first entry that is not in use. *)
Unused == {i \in 1..NumDirEntries : ~table[i].inUse}
NewEntry(n, sector) == [inUse |-> TRUE, name |-> n, sector |-> sector]
Add(n, sector) == [table EXCEPT ![Min(Unused)] = NewEntry(n, sector)]

(* Directory::Remove, which leaves the name in the entry. *)
RemoveEntry(n) == [table EXCEPT ![Min(Entries(n))].inUse = FALSE]

-----------------------------------------------------------------------------
(* Formatting: the map and the directory are placed after their headers,   *)
(* then stdin and stdout are created, of size 0.  The constructor of       *)
(* Directory sets inUse only: the names of the other entries are garbage.  *)
SystemSectors == 0..(1 + MapSectors + DirSectors)
FirstFile == 2 + MapSectors + DirSectors
Empty == [numBytes |-> 0, dataSectors |-> << >>]
EmptyDirectory(garbage) ==
    [i \in 1..NumDirEntries |-> [inUse |-> FALSE, name |-> garbage[i], sector |-> 0]]

Init ==
    /\ freeMap = SystemSectors \cup {FirstFile, FirstFile + 1}
    /\ \E garbage \in [1..NumDirEntries -> Name] :
         table = [EmptyDirectory(garbage) EXCEPT ![1] = NewEntry("stdin", FirstFile),
                                                 ![2] = NewEntry("stdout", FirstFile + 1)]
    /\ headerAt = [s \in Sector |->
                     IF s \in {FirstFile, FirstFile + 1} THEN Empty ELSE NULL]
    /\ bytesAt = [s \in Sector |-> JunkBlock]
    /\ openf = [s \in Slot |-> NULL]
    /\ todo = << >>
    /\ hurt = {}

Quiet == todo = << >>

-----------------------------------------------------------------------------
(* Mutant: the map is written before the directory. *)
CreateWritesMapFirst(n, sector, hdr) ==
    << [op |-> "hdr", at |-> sector, new |-> hdr],
       [op |-> "map", new |-> freeMap \cup {sector} \cup Range(hdr.dataSectors)],
       [op |-> "dir", part |-> 1, new |-> Add(n, sector)] >>

(* What Create writes, in this order; part is the next sector of the       *)
(* directory to be written.                                                *)
CreateWrites(n, sector, hdr) ==
    << [op |-> "hdr", at |-> sector, new |-> hdr],
       [op |-> "dir", part |-> 1, new |-> Add(n, sector)],
       [op |-> "map", new |-> freeMap \cup {sector} \cup Range(hdr.dataSectors)] >>

(* FileSystem::Create.  It fails, leaving the disk alone, if the name is   *)
(* there, or a header sector, a directory entry or data sectors are not.   *)
Create(n, size) ==
    /\ Quiet
    /\ ~Present(n)
    /\ freeMap # Sector
    /\ Unused # {}
    /\ LET sector == Min(Sector \ freeMap)
           map == freeMap \cup {sector}
           hdr == Allocate(map, size)
       IN  /\ DivRoundUp(size, SectorSize) <= NumClear(map)
           /\ todo' = CreateWrites(n, sector, hdr)
    /\ UNCHANGED << disk, openf, hurt >>

IsOpen(s) == \E i \in Slot : IF openf[i] = NULL THEN FALSE ELSE openf[i].of = s

(* The bits Remove clears for the file with its header in sector. *)
Freed(sector) == Range(headerAt[sector].dataSectors) \cup {sector}

(* Callers leave hurt files alone: another file may have their sectors by  *)
(* now, and what Open and Remove would do with the header they find there  *)
(* is not modelled.                                                        *)
Usable(n) == Present(n) /\ Min(Entries(n)) \notin hurt

(* FileSystem::Remove: the map is written first, then the directory. *)
Remove(n) ==
    /\ Quiet
    /\ Usable(n)
    /\ RemoveOpen \/ ~IsOpen(Find(n))
    /\ todo' = << [op |-> "map", new |-> freeMap \ Freed(Find(n))],
                  [op |-> "dir", part |-> 1, new |-> RemoveEntry(n)] >>
    /\ UNCHANGED << disk, openf, hurt >>

(* FileHeader::WriteBack, Directory::WriteBack, PersistentBitmap::WriteBack. *)
(* The loop of WriteAt writes one sector of the directory at a time, and   *)
(* with it the heads and the names that lie in that sector.                *)
WriteHeader(sector, hdr) ==
    /\ headerAt' = [headerAt EXCEPT ![sector] = hdr]
    /\ bytesAt' = [bytesAt EXCEPT ![sector] = JunkBlock]
    /\ UNCHANGED << freeMap, table >>
WriteDirectory(new, part) ==
    /\ table' = [i \in 1..NumDirEntries |->
                   LET head == IF HeadPart(i) = part THEN new[i] ELSE table[i]
                       name == IF NamePart(i) = part THEN new[i] ELSE table[i]
                   IN  [inUse |-> head.inUse, name |-> name.name, sector |-> head.sector]]
    /\ UNCHANGED << freeMap, headerAt, bytesAt >>
WriteMap(new) == freeMap' = new /\ UNCHANGED << table, headerAt, bytesAt >>

(* The next write of the operation in progress reaches the disk. *)
AfterWrite(writes) ==
    IF Head(writes).op = "dir" /\ Head(writes).part < DirSectors
      THEN [writes EXCEPT ![1].part = @ + 1]
      ELSE Tail(writes)
WriteBack ==
    /\ ~Quiet
    /\ LET w == Head(todo)
       IN  \/ w.op = "hdr" /\ WriteHeader(w.at, w.new)
           \/ w.op = "dir" /\ WriteDirectory(w.new, w.part)
           \/ w.op = "map" /\ WriteMap(w.new)
    /\ todo' = AfterWrite(todo)
    /\ UNCHANGED << openf, hurt >>

-----------------------------------------------------------------------------
(* FileSystem::FindFreeSlot. *)
FreeSlots == {i \in Slot : openf[i] = NULL}

NewOpenFile(n) == [hdr |-> FetchHeader(Find(n)), of |-> Find(n), seekPosition |-> 0]

(* FileSystem::Open(name, type), with a slot free (without one it would    *)
(* index openf[-1]).                                                       *)
Open(n) ==
    /\ Quiet
    /\ Usable(n)
    /\ FreeSlots # {}
    /\ openf' = [openf EXCEPT ![Min(FreeSlots)] = NewOpenFile(n)]
    /\ UNCHANGED << disk, todo, hurt >>

(* The OpenFile is deleted and its slot cleared. *)
Close(i) ==
    /\ Quiet
    /\ openf[i] # NULL
    /\ openf' = [openf EXCEPT ![i] = NULL]
    /\ UNCHANGED << disk, todo, hurt >>

HeaderOf(i) == headerAt[table[i].sector]
FileSectors(i) == {table[i].sector} \cup Range(HeaderOf(i).dataSectors)
InUse == {i \in 1..NumDirEntries : table[i].inUse}

(* The files no stop has hurt. *)
Sound == InUse \ hurt

(* Sound files that a stop would hurt now. *)
Unmarked == {i \in Sound : ~(FileSectors(i) \subseteq freeMap)}

(* FileSystem(FALSE) on the disk as it is, whatever was being written when *)
(* Nachos stopped: stdin and stdout, which nobody removes, are opened, and *)
(* Open puts them in the first two free slots; creating them again fails.  *)
Mount ==
    /\ openf' = [i \in Slot |-> CASE i = 2 -> NewOpenFile("stdin")
                                 [] i = 3 -> NewOpenFile("stdout")
                                 [] OTHER -> NULL]
    /\ todo' = << >>
Restart ==
    /\ Mount
    /\ hurt' = hurt \cup Unmarked
    /\ UNCHANGED disk

-----------------------------------------------------------------------------
(* OpenFile: whole sectors are read and written, so a partial one is read  *)
(* first.                                                                  *)

(* How many of numBytes at position lie within the file. *)
Clip(hdr, numBytes, position) ==
    IF position >= FileLength(hdr) THEN 0
    ELSE Min({numBytes, FileLength(hdr) - position})

FirstSector(position) == position \div SectorSize
LastSector(position, n) == (position + n - 1) \div SectorSize

(* Mutant: copying starts at the beginning of the first sector. *)
SkipNothing(position) == 0

(* The offset of position in its sector. *)
Skip(position) == position - FirstSector(position) * SectorSize

(* FileHeader::ByteToSector. *)
ByteToSector(hdr, offset) == hdr.dataSectors[1 + offset \div SectorSize]

ReadAt(hdr, numBytes, position) ==
    LET n == Clip(hdr, numBytes, position)
        first == FirstSector(position)
        last == LastSector(position, n)
        buf == [k \in 1..((1 + last - first) * SectorSize) |->
                  LET at == ByteToSector(hdr, first * SectorSize + k - 1)
                  IN  bytesAt[at][1 + ((k - 1) % SectorSize)]]
    IN  IF n = 0 THEN << >> ELSE SubSeq(buf, Skip(position) + 1, Skip(position) + n)

(* s with its elements from offset at on replaced by those of new. *)
Patch(s, at, new) ==
    [k \in 1..Len(s) |-> IF k \in (at + 1)..(at + Len(new)) THEN new[k - at] ELSE s[k]]

(* Mutant: a single sector that is written from its start is not read.     *)
ReadsLastIfSecond(first, last, firstAligned, lastAligned) ==
    ~lastAligned /\ first # last

(* Whether WriteAt reads the last sector before it writes it. *)
ReadsLast(first, last, firstAligned, lastAligned) ==
    ~lastAligned /\ (first # last \/ firstAligned)

(* What WriteAt writes to the sectors first..last. *)
WriteBuffer(hdr, from, position) ==
    LET n == Len(from)
        first == FirstSector(position)
        last == LastSector(position, n)
        firstAligned == position = first * SectorSize
        lastAligned == position + n = (last + 1) * SectorSize
        buf == [k \in 1..((1 + last - first) * SectorSize) |-> Junk]
        buf1 == IF firstAligned THEN buf
                ELSE Patch(buf, 0, ReadAt(hdr, SectorSize, first * SectorSize))
        buf2 == IF ReadsLast(first, last, firstAligned, lastAligned)
                  THEN Patch(buf1, (last - first) * SectorSize,
                             ReadAt(hdr, SectorSize, last * SectorSize))
                  ELSE buf1
    IN  Patch(buf2, Skip(position), from)

(* OpenFile::Read and Write: the seek position moves by what ReadAt or     *)
(* WriteAt returns.                                                        *)
Advance(i, n) == openf' = [openf EXCEPT ![i].seekPosition = @ + n]

Read(i, numBytes) ==
    /\ Quiet
    /\ openf[i] # NULL
    /\ Advance(i, Len(ReadAt(openf[i].hdr, numBytes, openf[i].seekPosition)))
    /\ UNCHANGED << disk, todo, hurt >>

(* The loop of WriteAt, as far as sector upto of the file. *)
WriteSectors(hdr, out, first, upto) ==
    LET at == [k \in first..upto |-> ByteToSector(hdr, k * SectorSize)]
        written == Range(at)
        part(s) == (CHOOSE k \in first..upto : at[k] = s) - first
    IN  /\ bytesAt' = [s \in Sector |->
              IF s \in written
                THEN SubSeq(out, part(s) * SectorSize + 1, (part(s) + 1) * SectorSize)
                ELSE bytesAt[s]]
        /\ headerAt' = [s \in Sector |-> IF s \in written THEN NULL ELSE headerAt[s]]
        /\ UNCHANGED << freeMap, table >>

(* OpenFile::Write through slot i, WriteAt included. *)
Write(i, buf) ==
    /\ Quiet
    /\ openf[i] # NULL
    /\ LET hdr == openf[i].hdr
           position == openf[i].seekPosition
           n == Clip(hdr, Len(buf), position)
       IN  /\ n > 0
           /\ Advance(i, n)
           /\ WriteSectors(hdr, WriteBuffer(hdr, SubSeq(buf, 1, n), position),
                           FirstSector(position), LastSector(position, n))
    /\ UNCHANGED << todo, hurt >>

(* Nachos stops in the middle of that loop, and is started again. *)
WriteStopped(i, buf) ==
    /\ Quiet
    /\ openf[i] # NULL
    /\ LET hdr == openf[i].hdr
           position == openf[i].seekPosition
           n == Clip(hdr, Len(buf), position)
       IN  /\ n > 0
           /\ Mount
           /\ \E upto \in FirstSector(position)..(LastSector(position, n) - 1) :
                WriteSectors(hdr, WriteBuffer(hdr, SubSeq(buf, 1, n), position),
                             FirstSector(position), upto)
    /\ UNCHANGED hurt

(* OpenFile::Seek.                                                         *)
(* Bound: all positions beyond the end are alike, the end stands for them. *)
Seek(i, position) ==
    /\ Quiet
    /\ openf[i] # NULL
    /\ position <= FileLength(openf[i].hdr)
    /\ openf' = [openf EXCEPT ![i].seekPosition = position]
    /\ UNCHANGED << disk, todo, hurt >>

-----------------------------------------------------------------------------
(* What nachos -l and -D show of the file system (List and Print; the      *)
(* headers of the map and the directory, which never change, are left      *)
(* out).                                                                   *)
(* Directory::List. *)
ListNames == [k \in 1..Cardinality(InUse) |-> table[Upwards(InUse)[k]].name]

(* FileSystem::List, which fetches the directory first. *)
ListFiles == ListNames

(* FileHeader::Print: the size, the blocks, and the blocks' data, a line   *)
(* for each, up to the end of the file.                                    *)
HeaderShown(hdr) ==
    [size |-> hdr.numBytes, blocks |-> hdr.dataSectors,
     data |-> [b \in DOMAIN hdr.dataSectors |->
                 SubSeq(bytesAt[hdr.dataSectors[b]], 1,
                        Min({SectorSize, hdr.numBytes - (b - 1) * SectorSize}))]]

(* Directory::Print.  Of a hurt file whose header sector was written again *)
(* as data, it shows what those bytes make, here NULL.                     *)
DirectoryShown ==
    [k \in 1..Cardinality(InUse) |->
       LET e == table[Upwards(InUse)[k]]
           hdr == FetchHeader(e.sector)
       IN  [name |-> e.name, sector |-> e.sector,
            header |-> IF hdr = NULL THEN NULL ELSE HeaderShown(hdr)]]

(* Bitmap::Print. *)
MapShown == Upwards(freeMap)

(* FileSystem::Print. *)
Shown == [map |-> MapShown, directory |-> DirectoryShown]

-----------------------------------------------------------------------------
Buffer == UNION {[1..k -> Byte] : k \in 1..MaxSize}

Next ==
    \/ \E n \in Name \ {"stdin", "stdout"} :
         \/ \E size \in 0..MaxSize : Create(n, size)
         \/ Remove(n) \/ Open(n)
    \/ WriteBack
    \/ \E i \in Slot :
         \/ Close(i)
         \/ \E buf \in Buffer : Write(i, buf) \/ WriteStopped(i, buf)
         \/ \E n \in 1..MaxSize : Read(i, n)
         \/ \E position \in 0..MaxSize : Seek(i, position)
    \/ Restart

Spec == Init /\ [][Next]_vars

-----------------------------------------------------------------------------
(* Properties.                                                             *)

(* Every sound file, also when Nachos stops between two sector writes and  *)
(* however often it did, has its header, and shares no sector with another *)
(* sound file or with the map and the directory.                           *)
FilesDisjoint ==
    /\ \A i \in Sound : HeaderOf(i) # NULL
    /\ \A i \in Sound :
         /\ IsInjective(HeaderOf(i).dataSectors)
         /\ table[i].sector \notin Range(HeaderOf(i).dataSectors)
         /\ FileSectors(i) \cap SystemSectors = {}
         /\ \A j \in Sound \ {i} : FileSectors(i) \cap FileSectors(j) = {}

(* No sector is lost and none is free that a sound file uses, whatever was *)
(* being written when Nachos was stopped.                                  *)
FreeMapExact ==
    Quiet => freeMap = SystemSectors \cup UNION {FileSectors(i) : i \in Sound}

(* A stop in the middle of Create or Remove hurts at most one file, one at *)
(* any other time none.                                                    *)
StopHurtsOneFile ==
    IF Quiet THEN Unmarked = {} ELSE Cardinality(Unmarked) <= 1

(* Its own name leads to every sound file, though a directory cut off      *)
(* between two sectors leaves an entry in use with the name it had before. *)
NamesLead ==
    Quiet => \A i \in Sound : Min(Entries(table[i].name)) = i

(* Map, directory and headers agree: sound files are disjoint and found    *)
(* by their names, the map is exact for them between calls and after every *)
(* boot, and a stop inside a call hurts one file.                          *)
DiskConsistent == FilesDisjoint /\ FreeMapExact /\ StopHurtsOneFile /\ NamesLead

(* The bytes of a file: its data sectors one after the other. *)
Content(hdr) ==
    [k \in 1..hdr.numBytes |->
        bytesAt[hdr.dataSectors[1 + (k - 1) \div SectorSize]][1 + ((k - 1) % SectorSize)]]

(* ReadAt, which works sector by sector, returns the bytes asked for that  *)
(* lie within the file, for every position and count.                      *)
ReadAtCorrect ==
    \A i \in Slot : openf[i] # NULL =>
        \A p \in 0..MaxSize, n \in 0..(MaxSize + 1) :
            ReadAt(openf[i].hdr, n, p) =
                SubSeq(Content(openf[i].hdr), p + 1, Min({p + n, openf[i].hdr.numBytes}))

(* An open file is a sound file of the directory: its header in memory is  *)
(* the one on the disk until it is closed.                                 *)
OpenHeadersCurrent ==
    \A i \in Slot : openf[i] # NULL =>
        /\ headerAt[openf[i].of] = openf[i].hdr
        /\ \E j \in Sound : table[j].sector = openf[i].of

(* What -l and -D show is what Open and ReadAt give: the names that can be *)
(* opened, and of every sound file its bytes and marked sectors.           *)
ShownCorrect ==
    Quiet =>
      /\ \A n \in Name : Present(n) <=> n \in Range(ListFiles)
      /\ \A k \in DOMAIN Shown.directory : Upwards(InUse)[k] \in Sound =>
           LET f == Shown.directory[k]
           IN  /\ f.name = ListFiles[k] /\ f.sector = Find(f.name)
               /\ \A b \in DOMAIN f.header.blocks :
                    f.header.data[b] = ReadAt(FetchHeader(f.sector), SectorSize,
                                              (b - 1) * SectorSize)
               /\ Len(f.header.blocks) * SectorSize >= f.header.size
               /\ {f.sector} \cup Range(f.header.blocks) \subseteq Range(Shown.map)

(* What callers read through an OpenFile are the bytes of that file, and   *)
(* what is shown of the disk agrees.                                       *)
OpenFilesCorrect == OpenHeadersCurrent /\ ReadAtCorrect /\ ShownCorrect

(* A file is an array of bytes to its callers.  A Write puts the bytes it  *)
(* is given at the position of its OpenFile, as far as the file reaches,   *)
(* and moves the position over them; cut off by a stop, it has put there a *)
(* first part of them.  Every other byte of the file, and every byte of    *)
(* another sound file, is what it was, at this step and at all others.     *)
Bytes(j) == Content(HeaderOf(j))
IsFileOf(j, i) == openf[i].of = table[j].sector
Kept == Sound \cap Sound'
WriteIsExact(i, buf) ==
    \A j \in Kept : IsFileOf(j, i) =>
        /\ Bytes(j)' = Patch(Bytes(j), openf[i].seekPosition, buf)
        /\ openf'[i].seekPosition
             = Min({openf[i].seekPosition + Len(buf), HeaderOf(j).numBytes})
StoppedIsExact(i, buf) ==
    \A j \in Kept : IsFileOf(j, i) =>
        \E m \in 1..Len(buf) :
            Bytes(j)' = Patch(Bytes(j), openf[i].seekPosition, SubSeq(buf, 1, m))
WritesExact ==
    [][/\ \A i \in Slot : openf'[i] # openf[i] =>
            \A buf \in Buffer : Write(i, buf) => WriteIsExact(i, buf)
       /\ bytesAt' # bytesAt /\ Mount =>
            \A i \in Slot, buf \in Buffer :
                WriteStopped(i, buf) => StoppedIsExact(i, buf)
       /\ \A j \in Kept : \/ Bytes(j)' = Bytes(j)
                          \/ \E i \in Slot, buf \in Buffer :
                               /\ Write(i, buf) \/ WriteStopped(i, buf)
                               /\ IsFileOf(j, i)]_vars
=============================================================================
