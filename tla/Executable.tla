----------------------------- MODULE Executable -----------------------------
(***************************************************************************)
(* The way of a user program from the linker to the machine: coff2noff     *)
(* turns the COFF file into a NOFF file, AddrSpace::Load copies its        *)
(* segments into memory and InitRegisters points the machine at them.      *)
(*                                                                         *)
(* A file is its header and its bytes.  The byte at position p of a COFF   *)
(* file is the number p + 1, so that a byte in memory tells where it comes *)
(* from; zeroed memory is 0.                                               *)
(***************************************************************************)
EXTENDS Integers, Sequences, SequencesExt

CONSTANTS
    PageSize, NumPhysPages, UserStackSize,
    StackMargin,    \* the 16 bytes InitRegisters leaves above the stack
    HeaderSize,     \* sizeof(NoffHeader)
    SectionSize,    \* the sizes of the sections in COFF files, with 0
    ByteValues,     \* the number of values of a byte in a header; a word has two
    NOFFMAGIC, MIPSELMAGIC,
    NoFile,         \* what open gives for a file that does not exist
    Garbage         \* a field of the header nobody has assigned

ASSUME ExecutableSizes ==
    /\ {PageSize, NumPhysPages, UserStackSize, HeaderSize} \subseteq Nat \ {0}
    /\ SectionSize \subseteq Nat
    /\ StackMargin \in 0 .. UserStackSize - 1
    /\ ByteValues \in Nat \ {0, 1}
    /\ {NOFFMAGIC, MIPSELMAGIC} \subseteq 1 .. ByteValues^2 - 1

VARIABLES
    coff,    \* the linked program
    noff,    \* the file of that name Load will open
    space    \* the AddrSpace and the registers Execute starts with

executableVars == << coff, noff, space >>

MemorySize == NumPhysPages * PageSize

-----------------------------------------------------------------------------
(* The headers of both files are little endian, and either program may run *)
(* on a host of the other kind.  A word of a file is given by its little   *)
(* endian value.                                                           *)
Host == {"little", "big"}

Swapped(w) == IF w = Garbage THEN Garbage ELSE (w % ByteValues) * ByteValues + w \div ByteValues

(* What a host has in a variable when it reads the bytes of w into it, and *)
(* the little endian value of the bytes it writes from it.                 *)
InMemory(h, w) == IF h = "big" THEN Swapped(w) ELSE w

WordToHost(h, w) == IF h = "big" THEN Swapped(w) ELSE w
ShortToHost(h, w) == IF h = "big" THEN Swapped(w) ELSE w

(* What ld makes with the script of test/: the sections one behind the     *)
(* other from address 0, their raw data too; with -G 0 there is no .sbss,  *)
(* but other ways to link may leave one, or two .bss.  f_magic stands for  *)
(* both magic numbers; a file that was cut ends at length.                 *)
Names == { << ".text", ".data", ".bss" >>, << ".text", ".rdata", ".data", ".bss" >>,
           << ".text", ".data", ".sbss", ".bss" >>, << ".text", ".bss", ".bss" >> }

HasData(s) == s.s_name \notin {".bss", ".sbss"}

Linked(names, sizes) ==
    LET end[i \in 0 .. Len(names)] == IF i = 0 THEN 0 ELSE end[i - 1] + sizes[i]
        raw[i \in 0 .. Len(names)] ==
            IF i = 0 THEN HeaderSize
            ELSE raw[i - 1] + (IF HasData([s_name |-> names[i]]) THEN sizes[i] ELSE 0)
    IN  [f_magic |-> MIPSELMAGIC, length |-> raw[Len(names)],
         sections |-> [i \in 1 .. Len(names) |->
            [s_name |-> names[i], s_paddr |-> end[i - 1], s_size |-> sizes[i],
             s_scnptr |-> raw[i - 1]]]]

CoffFiles ==
    UNION {{Linked(names, sizes) : sizes \in [1 .. Len(names) -> SectionSize]} :
              names \in Names}

-----------------------------------------------------------------------------
(* coff2noff. *)
(* The section headers as they are read and converted. *)
SectionHeaders(h, file) ==
    [i \in DOMAIN file.sections |->
        [file.sections[i] EXCEPT
            !.s_paddr = WordToHost(h, InMemory(h, @)),
            !.s_size = WordToHost(h, InMemory(h, @)),
            !.s_scnptr = WordToHost(h, InMemory(h, @))]]

Unset == [virtualAddr |-> Garbage, inFileAddr |-> Garbage, size |-> 0]
EmptyNoff ==
    [noffMagic |-> NOFFMAGIC, bytes |-> << >>,
     code |-> Unset, readonlyData |-> Unset, initData |-> Unset, uninitData |-> Unset]

SegmentOf == [n \in {".text", ".rdata", ".data"} |->
    CASE n = ".text" -> "code" [] n = ".rdata" -> "readonlyData" [] n = ".data" -> "initData"]

(* A section that is read from the COFF file and written behind those      *)
(* before it.  Read fails at the end of a file that was cut.               *)
CopySection(file, n, s) ==
    IF s.s_scnptr + s.s_size > file.length THEN NoFile
    ELSE [n EXCEPT
            ![SegmentOf[s.s_name]] =
                [virtualAddr |-> s.s_paddr, inFileAddr |-> HeaderSize + Len(n.bytes),
                 size |-> s.s_size],
            !.bytes = @ \o [i \in 1 .. s.s_size |-> s.s_scnptr + i]]

(* .bss: a second one is refused when it follows the first, and otherwise  *)
(* only adds to its size.                                                  *)
AddBss(n, s) ==
    LET bss == n.uninitData
    IN  CASE bss.size = 0 ->
               [n EXCEPT !.uninitData.virtualAddr = s.s_paddr, !.uninitData.size = s.s_size]
          [] bss.size # 0 /\ s.s_paddr = bss.virtualAddr + bss.size -> NoFile
          [] OTHER -> [n EXCEPT !.uninitData.size = @ + s.s_size]

(* One round of the loop over the sections; NoFile once the output has     *)
(* been unlinked.                                                          *)
AddSection(file, n, s) ==
    CASE n = NoFile -> NoFile
      [] n # NoFile /\ s.s_size = 0 -> n
      [] n # NoFile /\ s.s_size # 0 /\ s.s_name \in DOMAIN SegmentOf -> CopySection(file, n, s)
      [] n # NoFile /\ s.s_size # 0 /\ s.s_name = ".bss" -> AddBss(n, s)
      [] OTHER -> NoFile

(* F of every word of a NOFF header. *)
EachWord(n, F(_)) ==
    LET segment(s) == [f \in DOMAIN s |-> F(s[f])]
    IN  [noffMagic |-> F(n.noffMagic), bytes |-> n.bytes,
         code |-> segment(n.code), readonlyData |-> segment(n.readonlyData),
         initData |-> segment(n.initData), uninitData |-> segment(n.uninitData)]

(* SwapHeader, and the write of the header. *)
HeaderToFile(h, n) == EachWord(n, LAMBDA w : InMemory(h, WordToHost(h, w)))

(* The file coff2noff leaves when every write succeeds. *)
Coff2Noff(h, file) ==
    LET n == FoldLeft(LAMBDA m, s : AddSection(file, m, s), EmptyNoff, SectionHeaders(h, file))
    IN  IF ShortToHost(h, InMemory(h, file.f_magic)) # MIPSELMAGIC \/ n = NoFile
        THEN NoFile ELSE HeaderToFile(h, n)

-----------------------------------------------------------------------------
(* AddrSpace. *)
SwapHeader(h, n) == EachWord(n, LAMBDA w : WordToHost(h, w))

(* The header in the hands of Load: swapped if that makes it a NOFF header. *)
HeaderFromFile(h, file) ==
    LET n == EachWord(file, LAMBDA w : InMemory(h, w))
    IN  IF n.noffMagic # NOFFMAGIC /\ WordToHost(h, n.noffMagic) = NOFFMAGIC
        THEN SwapHeader(h, n) ELSE n

divRoundUp(n, s) == (n + s - 1) \div s

(* Mutant: as without RDATA, the read-only data is not counted. *)
PagesNoRdata(n) ==
    divRoundUp(n.code.size + n.initData.size + n.uninitData.size + UserStackSize, PageSize)

(* The number of pages Load computes from the header. *)
Pages(n) ==
    divRoundUp(n.code.size + n.readonlyData.size + n.initData.size
                 + n.uninitData.size + UserStackSize, PageSize)

(* executable->ReadAt(&mainMemory[virtualAddr], size, inFileAddr). *)
ReadSegment(memory, n, seg) ==
    [a \in DOMAIN memory |->
        IF n[seg].size > 0 /\ a \in n[seg].virtualAddr .. n[seg].virtualAddr + n[seg].size - 1
        THEN n.bytes[n[seg].inFileAddr - HeaderSize + (a - n[seg].virtualAddr) + 1]
        ELSE memory[a]]

ZeroedMemory == [a \in 0 .. MemorySize - 1 |-> 0]

(* Load, then InitRegisters and RestoreState. *)
Loaded(n) ==
    [numPages |-> Pages(n),
     memory |-> ReadSegment(ReadSegment(ReadSegment(ZeroedMemory, n, "code"),
                                        n, "initData"), n, "readonlyData"),
     PC |-> 0, NextPC |-> 4, Stack |-> Pages(n) * PageSize - StackMargin]

(* AddrSpace::Translate, which only a pager would call, for the page table *)
(* the constructor builds: each page is in the frame of its own number,    *)
(* writable, so that its cases for a read-only page and for a bad frame do *)
(* not arise; the use and dirty bits are left out (Machine has them).  -1  *)
(* is the AddressErrorException.                                           *)
Translate(s, vaddr) ==
    IF vaddr \div PageSize >= s.numPages THEN -1
    ELSE (vaddr \div PageSize) * PageSize + (vaddr % PageSize)

-----------------------------------------------------------------------------
NoProgram == coff = NoFile /\ noff = NoFile /\ space = NoFile

(* A program is linked and converted before nachos is told to run it.      *)
(* Coff2noff may also be given a file that is no COFF file, or that was    *)
(* cut, or run out of space.                                               *)
Convert ==
    /\ \E file \in CoffFiles :
         \/ coff' = file
         \/ coff' = [file EXCEPT !.f_magic = 0]
         \/ file.length > HeaderSize /\ coff' = [file EXCEPT !.length = @ - 1]
    /\ \/ \E h \in Host : noff' = Coff2Noff(h, coff')
       \/ noff' = NoFile   \* Write has failed
       \/ noff' = [EmptyNoff EXCEPT !.noffMagic = 0]   \* not a NOFF file
    /\ UNCHANGED space

(* Load returns FALSE if the file is not there. *)
LoadFails == noff = NoFile

(* ASSERT(noffMagic == NOFFMAGIC), ASSERT(numPages <= NumPhysPages). *)
LoadAborts(h) ==
    /\ noff # NoFile
    /\ LET n == HeaderFromFile(h, noff)
       IN  n.noffMagic # NOFFMAGIC \/ Pages(n) > NumPhysPages

Load(h) ==
    /\ ~LoadFails /\ ~LoadAborts(h)
    /\ space' = Loaded(HeaderFromFile(h, noff))
    /\ UNCHANGED << coff, noff >>

-----------------------------------------------------------------------------
(* A program that starts finds every byte of its sections at the address   *)
(* it was linked for, .bss zero, the first instruction at the start        *)
(* address, and above its sections UserStackSize bytes it may use, the     *)
(* whole of it inside the memory the machine translates for it.            *)
ImageExact ==
    space # NoFile =>
        LET top == Last(coff.sections).s_paddr + Last(coff.sections).s_size
        IN  /\ \A i \in DOMAIN coff.sections :
                  LET s == coff.sections[i]
                  IN  \A k \in 0 .. s.s_size - 1 :
                        /\ Translate(space, s.s_paddr + k) \in DOMAIN space.memory
                        /\ space.memory[Translate(space, s.s_paddr + k)] =
                              IF HasData(s) THEN s.s_scnptr + k + 1 ELSE 0
            /\ \A a \in top .. space.numPages * PageSize - 1 :
                  space.memory[Translate(space, a)] = 0
            /\ space.PC = coff.sections[1].s_paddr
            /\ space.Stack + StackMargin - UserStackSize >= top
            /\ Translate(space, space.Stack) \in DOMAIN space.memory
=============================================================================
