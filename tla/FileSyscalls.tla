---------------------------- MODULE FileSyscalls ----------------------------
(***************************************************************************)
(* The file system calls of a user program: the SC_Create .. SC_Remove     *)
(* cases of ExceptionHandler (userprog/exception.cc), the Sys... routines  *)
(* of userprog/ksyscall.h, and the FILESYS_STUB classes FileSystem         *)
(* (filesys/filesys.h) and OpenFile (filesys/openfile.h) that the Linux    *)
(* build uses.  The stub keeps its files in the UNIX file system, which is *)
(* external: names, inodes and open descriptors with an offset each.       *)
(*                                                                         *)
(* One user program runs, so one system call is one step.  A system call   *)
(* returns its result in register r2, which holds the call's own number    *)
(* when the handler is entered.                                            *)
(***************************************************************************)
EXTENDS Integers, Sequences, FiniteSets, FiniteSetsExt

CONSTANTS
    MaxFileOpen,  \* MAX_FILE_OPEN, the size of openf
    Name,         \* the file names a program passes, "" apart
    Char,         \* characters; NUL is one of them
    NUL,
    Inode,        \* UNIX inodes, enough for every name and open file
    MaxLen,       \* bound: no Write or Seek beyond this many bytes
    Ids,          \* the ids a program passes
    NULL

ASSUME FileAssumption ==
    /\ MaxFileOpen \in Nat /\ MaxFileOpen > 2
    /\ NUL \in Char
    /\ MaxLen \in Nat
    /\ Ids \subseteq Int
    /\ NULL \notin Inode \cup [file : 1..(MaxFileOpen + 1), type : 0..3]
                 \cup [ino : Inode, pos : Nat, access : {"r", "w", "rw"}]
    \* the UNIX file system is never full
    /\ IsFiniteSet(Name) /\ IsFiniteSet(Inode)
    /\ Cardinality(Inode) >= Cardinality(Name) + MaxFileOpen + 2

VARIABLES
    openf,  \* FileSystem::openf: an OpenFile or NULL in each slot
    dir,    \* external: the UNIX directory, name -> inode or NULL
    data,   \* external: the bytes of each inode
    fds,    \* external: UNIX descriptors, each with an inode and an offset
    r2,     \* register 2 after the system call
    call,   \* the last system call: its name, the file name or the id
            \* it was given, and the bytes it copied from or to user memory
    state   \* "run", "halted", or "wild" after a use of a garbage pointer

vars == << openf, dir, data, fds, r2, call, state >>

SC_Create == 4
SC_Remove == 5
SC_Open   == 6
SC_Read   == 7
SC_Write  == 8
SC_Seek   == 9
SC_Close  == 10

NoName == ""
Operation == {"Boot", "Create", "Remove", "Open", "Read", "Write", "Seek", "Close", "Halt"}
Slot == 0..(MaxFileOpen - 1)
AllNames == Name \cup {"stdin", "stdout"}
Access == {"r", "w", "rw"}
Fd == 1..(MaxFileOpen + 1)
Bytes == UNION {[1..k -> Char] : k \in 0..MaxLen}

(* OpenFile::currentOffset is left out: SysRead and SysWrite reload it from*)
(* the UNIX offset (GetCurrentPos) before they use it.                     *)
OpenFile == [file : Fd, type : 0..3]

TypeOK ==
    /\ openf \in [Slot -> OpenFile \cup {NULL}]
    /\ dir \in [AllNames -> Inode \cup {NULL}]
    /\ data \in [Inode -> Bytes]
    /\ fds \in [Fd -> [ino : Inode, pos : Nat, access : Access] \cup {NULL}]
    /\ r2 \in Int
    /\ call \in [op : Operation, name : Name \cup {NoName}, id : Ids \cup {NULL}, buf : Bytes]
    /\ state \in {"run", "halted", "wild"}

-----------------------------------------------------------------------------
(* The UNIX file system. *)

Exists(n) == IF n = NoName THEN FALSE ELSE dir[n] # NULL
FreeInode == {i \in Inode : /\ \A n \in AllNames : dir[n] # i
                            /\ \A f \in Fd : fds[f] = NULL \/ fds[f].ino # i}
NewInode == CHOOSE i \in FreeInode : TRUE
NewFd == Min({f \in Fd : fds[f] = NULL})

(* An inode with no name and no descriptor is freed. *)
Reclaim == data' = [i \in Inode |->
    IF (\E n \in AllNames : dir'[n] = i) \/ (\E f \in Fd : fds'[f] # NULL /\ fds'[f].ino = i)
      THEN data[i] ELSE << >>]

(* open(O_CREAT|O_TRUNC) followed by close: the file exists and is empty.  *)
CreateOrTruncate(n) ==
    LET i == IF dir[n] = NULL THEN NewInode ELSE dir[n]
    IN  /\ dir' = [dir EXCEPT ![n] = i]
        /\ data' = [data EXCEPT ![i] = << >>]

(* FileSystem::Create: the descriptor of OpenForWrite is closed at once.   *)
Create(n) == CreateOrTruncate(n)

(* The descriptor FileSystem::Open gets for a file: OpenForReadWrite,      *)
(* OpenForRead or, for stdout, OpenForWrite.                               *)
Opened(i, type) ==
    [ino |-> i, pos |-> 0,
     access |-> CASE type = 0 -> "rw" [] type \in {1, 2} -> "r" [] type = 3 -> "w"]

(* Writing buf at offset p of d; a gap beyond the end is filled with NULs. *)
Overwrite(d, p, buf) ==
    [k \in 1..Max({Len(d), p + Len(buf)}) |->
        IF k > p /\ k <= p + Len(buf) THEN buf[k - p]
        ELSE IF k <= Len(d) THEN d[k] ELSE NUL]

(* Reading up to n bytes at offset p of d. *)
Slice(d, p, n) == SubSeq(d, p + 1, Min({p + n, Len(d)}))

-----------------------------------------------------------------------------
(* Copying between user and kernel memory. *)

(* The bytes of s up to and including its first NUL, all if it has none. *)
UpToNul(s) ==
    LET nuls == {k \in 1..Len(s) : s[k] = NUL}
    IN  IF nuls = {} THEN s ELSE SubSeq(s, 1, Min(nuls))

(* User2System(s, Len(s)): a zeroed buffer filled up to the first NUL. *)
User2System(s) ==
    [k \in 1..Len(s) |-> IF k <= Len(UpToNul(s)) THEN s[k] ELSE NUL]

(* What System2User writes to user memory. *)
System2User(s) == UpToNul(s)

-----------------------------------------------------------------------------
(* FileSystem(): the stub creates the files stdin and stdout and opens     *)
(* them in slots 0 and 1.                                                  *)
Init ==
    \E i \in Inode, j \in Inode :
        /\ i # j
        /\ i = CHOOSE k \in Inode : TRUE
        /\ j = CHOOSE k \in Inode \ {i} : TRUE
        /\ dir = [n \in AllNames |-> CASE n = "stdin" -> i
                                       [] n = "stdout" -> j
                                       [] OTHER -> NULL]
        /\ fds = [f \in Fd |-> CASE f = 1 -> Opened(i, 2)
                                 [] f = 2 -> Opened(j, 3)
                                 [] OTHER -> NULL]
        /\ openf = [s \in Slot |->
              CASE s = 0 -> [file |-> 1, type |-> 2]
                [] s = 1 -> [file |-> 2, type |-> 3]
                [] OTHER -> NULL]
        /\ data = [k \in Inode |-> << >>]
        /\ r2 = 0
        /\ call = [op |-> "Boot", name |-> NoName, id |-> NULL, buf |-> << >>]
        /\ state = "run"

Unix == << dir, data, fds >>
IsOpen(id) == id \in Slot /\ openf[id] # NULL

(* The handler is entered for a system call of the running program. *)
Call(op, name, id, buf) ==
    /\ state = "run"
    /\ call' = [op |-> op, name |-> name, id |-> id, buf |-> buf]

Return(v) == r2' = v

(* Indexing openf outside the array: the word found there may be NULL,     *)
(* which the calls reject, or a garbage pointer.                           *)
Wild ==
    /\ \/ Return(-1) /\ UNCHANGED state
       \/ state' = "wild" /\ UNCHANGED r2
    /\ UNCHANGED openf
    /\ UNCHANGED Unix

(* SynchConsoleInput::Read starts with a P of RLineBlock, which nothing    *)
(* initialises.                                                            *)
ConsoleRead == Wild

Reject(v) ==
    /\ Return(v)
    /\ UNCHANGED << openf, state >>
    /\ UNCHANGED Unix

-----------------------------------------------------------------------------
(* SC_Create, SysCreateFile, FileSystem::Create.  The name "" is refused.  *)
SysCreateFile(n) ==
    /\ Call("Create", n, NULL, << >>)
    /\ \/ n = NoName /\ Reject(-1)
       \/ /\ n # NoName
          /\ Create(n)
          /\ Return(0)
          /\ UNCHANGED << openf, fds, state >>

(* FileSystem::FindFreeSlot. *)
FreeSlots == {s \in Slot : s >= 2 /\ openf[s] = NULL}

(* Mutant: new OpenFile(f), whose type is not the one asked for. *)
NewOpenFileUntyped(f, type) == [file |-> f, type |-> 0]

NewOpenFile(f, type) == [file |-> f, type |-> type]

(* SC_Open, SysOpen, FileSystem::Open.  r2 is written on success, when the *)
(* table is full and for the console types, and otherwise left alone.      *)
SysOpen(n, type) ==
    /\ Call("Open", n, NULL, << >>)
    /\ \/ FreeSlots = {} /\ Reject(-1)
       \/ FreeSlots # {} /\ type \in {2, 3} /\ Reject(type - 2)
       \/ /\ FreeSlots # {}
          /\ type \notin 0..3 \/ (type \in 0..1 /\ ~Exists(n))
          /\ Reject(SC_Open)
       \/ /\ FreeSlots # {} /\ type \in 0..1 /\ Exists(n)
          /\ fds' = [fds EXCEPT ![NewFd] = Opened(dir[n], type)]
          /\ openf' = [openf EXCEPT ![Min(FreeSlots)] = NewOpenFile(NewFd, type)]
          /\ Return(Min(FreeSlots))
          /\ UNCHANGED << dir, data, state >>

(* Mutant: the table entry is cleared and the OpenFile not deleted. *)
DeleteOpenFileLeak(id) ==
    /\ fds' = fds
    /\ openf' = [openf EXCEPT ![id] = NULL]

DeleteOpenFile(id) ==
    /\ fds' = [fds EXCEPT ![openf[id].file] = NULL]
    /\ openf' = [openf EXCEPT ![id] = NULL]

(* SC_Close, SysClose: the OpenFile is deleted, which closes its UNIX file.*)
SysClose(id) ==
    /\ Call("Close", NoName, id, << >>)
    /\ \/ ~IsOpen(id) /\ Reject(-1)
       \/ /\ IsOpen(id)
          /\ DeleteOpenFile(id)
          /\ Return(0)
          /\ UNCHANGED << dir, state >>
          /\ Reclaim

(* The UNIX offset of an open file moves to p. *)
MoveTo(id, p) == fds' = [fds EXCEPT ![openf[id].file].pos = p]

Pos(id) == fds[openf[id].file].pos
DataOf(id) == data[fds[openf[id].file].ino]

(* The checks SysRead and SysSeek make on id: MAX_FILE_OPEN itself passes. *)
IdPasses(id) == id \in 2..MaxFileOpen

(* The result of a Read that got these bytes. *)
ReadResult(got) == IF Len(got) > 0 THEN Len(got) ELSE -2

(* SC_Read, SysRead: n bytes at the current position.  A stdout file is   *)
(* refused, and a stdin file is read through the console.                  *)
SysRead(id, n) ==
    \/ /\ \/ ~IdPasses(id)
          \/ id \in Slot /\ ~IsOpen(id)
          \/ IsOpen(id) /\ openf[id].type = 3
       /\ Call("Read", NoName, id, << >>)
       /\ Reject(-1)
    \/ /\ IdPasses(id)
       /\ Call("Read", NoName, id, << >>)
       /\ \/ id = MaxFileOpen /\ Wild
          \/ IsOpen(id) /\ openf[id].type = 2 /\ ConsoleRead
    \/ /\ IdPasses(id) /\ IsOpen(id) /\ openf[id].type \in 0..1
       /\ LET got == Slice(DataOf(id), Pos(id), n)
          IN  /\ Call("Read", NoName, id, System2User(got))
              /\ MoveTo(id, Pos(id) + Len(got))
              /\ Return(ReadResult(got))
       /\ UNCHANGED << openf, dir, data, state >>

(* SC_Write, SysWrite: the user's buffer at the current position.  A write *)
(* of no bytes leaves r2 alone; a stdout file is written to the console,   *)
(* up to the first NUL, and the position stays.                            *)
SysWrite(id, buf) ==
    /\ Call("Write", NoName, id, buf)
    /\ \/ /\ id >= 2 /\ IsOpen(id) => openf[id].type \in {1, 2}
          /\ Reject(-1)
       \/ /\ id >= 2 /\ IsOpen(id) /\ openf[id].type \in {0, 3}
          /\ Pos(id) + Len(buf) <= MaxLen
          /\ LET toFile == openf[id].type = 0
             IN  /\ data' = [data EXCEPT ![fds[openf[id].file].ino] =
                        IF toFile /\ buf # << >>
                          THEN Overwrite(@, Pos(id), User2System(buf)) ELSE @]
                 /\ MoveTo(id, Pos(id) + IF toFile THEN Len(buf) ELSE 0)
                 /\ Return(CASE toFile /\ buf # << >> -> Len(buf)
                             [] toFile /\ buf = << >> -> SC_Write
                             [] OTHER -> Cardinality({k \in 1..Len(UpToNul(buf)) :
                                             buf[k] # NUL}) - 1)
          /\ UNCHANGED << openf, dir, state >>

SeekRefused(to, length) == to > length \/ to < 0

(* SC_Seek, SysSeek.  OpenFile::Length leaves the UNIX offset at the end   *)
(* of the file, and only a successful Seek moves it again.                 *)
SysSeek(p, id) ==
    /\ Call("Seek", NoName, id, << >>)
    /\ \/ ~IdPasses(id) /\ Reject(-1)
       \/ id = MaxFileOpen /\ Wild
       \/ id \in Slot /\ id >= 2 /\ ~IsOpen(id) /\ Reject(-1)
       \/ /\ id >= 2 /\ IsOpen(id)
          /\ LET length == Len(DataOf(id))
                 to == IF p = -1 THEN length ELSE p
             IN  IF SeekRefused(to, length)
                   THEN MoveTo(id, length) /\ Return(-1)
                   ELSE MoveTo(id, to) /\ Return(to)
          /\ UNCHANGED << openf, dir, data, state >>

(* SC_Remove, SysRemove: unlink; an open file keeps its inode. *)
SysRemove(n) ==
    /\ Call("Remove", n, NULL, << >>)
    /\ \/ ~Exists(n) /\ Reject(0)
       \/ /\ Exists(n)
          /\ dir' = [dir EXCEPT ![n] = NULL]
          /\ Return(1)
          /\ UNCHANGED << openf, fds, state >>
          /\ Reclaim

(* SC_Halt: ~Kernel deletes the file system, which closes every open file. *)
SysHalt ==
    /\ Call("Halt", NoName, NULL, << >>)
    /\ openf' = [s \in Slot |-> NULL]
    /\ fds' = [f \in Fd |-> IF \E s \in Slot : openf[s] # NULL /\ openf[s].file = f
                              THEN NULL ELSE fds[f]]
    /\ state' = "halted"
    /\ UNCHANGED << dir, r2 >>
    /\ Reclaim

Stopped == state # "run" /\ UNCHANGED vars

Next ==
    \/ \E n \in Name \cup {NoName} :
         \/ SysCreateFile(n) \/ SysRemove(n)
         \/ \E type \in 0..4 : SysOpen(n, type)
    \/ \E id \in Ids :
         \/ SysClose(id)
         \/ \E n \in 0..MaxLen : SysRead(id, n)
         \/ \E buf \in Bytes : SysWrite(id, buf)
         \/ \E p \in -2..(MaxLen + 1) : SysSeek(p, id)
    \/ SysHalt
    \/ Stopped

Spec == Init /\ [][Next]_vars

-----------------------------------------------------------------------------
(* Properties.                                                             *)

(* No descriptor leaks and none is closed twice: the open UNIX descriptors *)
(* are exactly those of the OpenFiles in the table, one each.              *)
DescriptorsExact ==
    /\ {f \in Fd : fds[f] # NULL} = {openf[s].file : s \in {s \in Slot : IsOpen(s)}}
    /\ \A s, u \in Slot : IsOpen(s) /\ IsOpen(u) /\ s # u
                           => openf[s].file # openf[u].file

(* Only slots 0 and 1 ever hold a console file, so no Read that passes the *)
(* id check reaches SynchConsoleInput::Read, whose lock is never created.  *)
ConsoleSlotsOnly ==
    \A s \in Slot : IsOpen(s) => (openf[s].type \in {2, 3} <=> s < 2)

(* The table of open files and the UNIX descriptors behind it are in step. *)
TableExact == DescriptorsExact /\ ConsoleSlotsOnly

(* The bytes of a file that is open change only by Create of its name or   *)
(* by a Write through a descriptor that was opened for writing: the type   *)
(* in the table is the mode of the UNIX descriptor behind it, so WriteFile,*)
(* which asserts that all bytes were written, never meets a refusal.       *)
OnlyWritersWrite ==
    \A i \in Inode : data'[i] # data[i] =>
         \/ data'[i] = << >> /\ \A f \in Fd : fds'[f] = NULL \/ fds'[f].ino # i
         \/ \E n \in Name : call'.op = "Create" /\ call'.name = n /\ dir'[n] = i
         \/ \E s \in Slot : /\ call'.op = "Write" /\ call'.id = s
                             /\ fds[openf[s].file].access = "rw"
                             /\ fds[openf[s].file].ino = i

(* A Seek that returns a position has moved there, within the file; one    *)
(* that is refused leaves the position where it was or, as OpenFile::Length*)
(* (openfile.h:61) makes it, at the end of the file, and nowhere else.     *)
SeekLands(s) ==
    LET pos == fds'[openf[s].file].pos
        length == Len(DataOf(s))
    IN  IF r2' >= 0 THEN pos = r2' /\ r2' <= length
                    ELSE pos \in {Pos(s), length}

(* Read and Write advance the position by exactly the count they return, a *)
(* call that returns no count (a refusal, the end of the file, a Write of  *)
(* no bytes, which leaves r2 alone) does not move it, Seek puts it where   *)
(* it says, and no call moves the position of another open file, even one  *)
(* on the same UNIX file.                                                  *)
PositionsAdvance ==
    \A s \in Slot : IsOpen(s) /\ IsOpen(s)' =>
         IF call'.op = "Seek" /\ call'.id = s THEN SeekLands(s)
         ELSE fds'[openf[s].file].pos =
                IF call'.op \in {"Read", "Write"} /\ call'.id = s /\ r2' > 0
                   /\ ~(call'.op = "Write" /\ call'.buf = << >>)
                  THEN Pos(s) + r2'
                  ELSE Pos(s)

(* A call on one open file leaves every other as it was: bytes change only *)
(* by a Write that was allowed to, and positions only by what Read, Write  *)
(* and Seek of that file return; a refused Seek may only go to the end.    *)
FilesChangeExact == [][OnlyWritersWrite /\ PositionsAdvance]_vars

(* ksyscall.h: the id is checked to be in the table of open files, so no   *)
(* call uses an entry outside it.                                          *)
IdChecked == state # "wild"
=============================================================================
