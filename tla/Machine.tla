------------------------------ MODULE Machine ------------------------------
(***************************************************************************)
(* The simulated MIPS of machine/mipssim.cc, machine/machine.cc and        *)
(* machine/translate.cc, and the dispatch of its exceptions in             *)
(* userprog/exception.cc.                                                  *)
(*                                                                         *)
(* What the assembly programmer sees is not what OneInstruction keeps: a   *)
(* loaded value waits in LoadReg and LoadValueReg for one instruction, a   *)
(* branch takes effect one instruction late through NextPCReg, and every   *)
(* trap to the kernel, by an exception or by an interrupt, must finish the *)
(* load in progress first.                                                 *)
(*                                                                         *)
(* The fetch takes any word of InstructionWord, so that every program is   *)
(* covered, one that changes itself included.  Its decoded form is that of *)
(* Decode, with the immediate cut to the words of Words.                   *)
(***************************************************************************)
EXTENDS Words, FiniteSets, Decode

CONSTANTS
    GPR,           \* the general registers the programs use, 0 among them
    InstructionWord,   \* the instructions the programs are made of
    NoInstr,       \* nothing is fetched
    PageSize,
    NumPhysPages,
    PageTables,    \* the page tables a kernel may install
    InitGPR,       \* the contents of the registers when the programs start
    Answer,        \* what ReadNum, ReadChar and RandomNum return
    MaxInstr       \* bound: instructions of a program

HiReg        == 32
LoReg        == 33
PCReg        == 34
NextPCReg    == 35
PrevPCReg    == 36
LoadReg      == 37
LoadValueReg == 38
BadVAddrReg  == 39
R31          == 31

Register == GPR \cup 32 .. 39

(* machine/translate.h. *)
TranslationEntry == [physicalPage : Nat, valid : BOOLEAN, readOnly : BOOLEAN,
                     use : BOOLEAN, dirty : BOOLEAN]

ASSUME MachineAssumption ==
    /\ {0, 2, 4, 5, R31} \subseteq GPR /\ GPR \subseteq 0 .. 31
    /\ PageSize \in Nat \ {0} /\ PageSize % 4 = 0 /\ NumPhysPages \in Nat
    /\ NumPhysPages * PageSize <= Modulus
    /\ \A f \in InitGPR : f \in [GPR -> Word] /\ f[0] = 0
    /\ Answer \subseteq Word

ASSUME ProgramAssumption ==
    /\ InstructionWord \subseteq Half \X Half
    /\ \A word \in InstructionWord :
          /\ {Decode(word).rs, Decode(word).rd} \subseteq GPR
          /\ Decode(word).rt \in GPR \/ Decode(word).op \in {"BLTZ", "BGEZ", "BLTZAL", "BGEZAL"}
    /\ \A table \in PageTables :
          /\ DOMAIN table \subseteq Nat
          /\ \A p \in DOMAIN table :
                table[p] \in TranslationEntry /\ ~table[p].use /\ ~table[p].dirty

VARIABLES
    registers,   \* Machine::registers
    mainMemory,  \* Machine::mainMemory, byte by byte
    pageTable,   \* Machine::pageTable, indexed by virtual page
    mode,        \* Interrupt::status, or how the simulation ended
    exception,   \* the exception ExceptionHandler is called with
    instr,       \* the decoded instruction OneInstruction is about to execute
    executed     \* instructions fetched so far, for MaxInstr

vars == << registers, mainMemory, pageTable, mode, exception, instr, executed >>

Address == 0 .. NumPhysPages * PageSize - 1

Exception == {"NoException", "SyscallException", "PageFaultException",
              "ReadOnlyException", "BusErrorException",
              "AddressErrorException", "OverflowException",
              "IllegalInstrException"}

(* What memory holds at the start: any bytes would do, these tell most     *)
(* addresses apart.                                                        *)
InitialByte(a) == (a + a \div 4) % Bytes(1)

(* AddrSpace::Execute: the registers are cleared (InitRegisters) but for   *)
(* NextPCReg; the programs start with any contents of InitGPR, as a        *)
(* program can load whatever it likes into a register.                     *)
Init ==
    /\ \E f \in InitGPR :
         registers = [r \in Register |-> IF r \in GPR THEN f[r]
                                         ELSE IF r = NextPCReg THEN 4 ELSE 0]
    /\ mainMemory = [a \in Address |-> InitialByte(a)]
    /\ pageTable \in PageTables
    /\ mode = "UserMode"
    /\ exception = "NoException"
    /\ instr = NoInstr
    /\ executed = 0

-----------------------------------------------------------------------------
(* Machine::DelayedLoad. *)
DelayedLoad(regs, nextReg, nextValue) ==
    [regs EXCEPT ![regs[LoadReg]] = regs[LoadValueReg],
                 ![LoadReg] = nextReg,
                 ![LoadValueReg] = nextValue,
                 ![0] = 0]

(* Mutant: the trap leaves the load in progress. *)
RaiseExceptionLoadPending(which, badVAddr, table) ==
    /\ registers' = [registers EXCEPT ![BadVAddrReg] = badVAddr]
    /\ mode' = "SystemMode"
    /\ exception' = which
    /\ pageTable' = table
    /\ instr' = NoInstr
    /\ UNCHANGED mainMemory

(* Machine::RaiseException up to the call of ExceptionHandler; table is    *)
(* the page table with the use bits of the accesses made before the fault. *)
RaiseException(which, badVAddr, table) ==
    /\ registers' = DelayedLoad([registers EXCEPT ![BadVAddrReg] = badVAddr], 0, 0)
    /\ mode' = "SystemMode"
    /\ exception' = which
    /\ pageTable' = table
    /\ instr' = NoInstr
    /\ UNCHANGED mainMemory

(* Machine::Translate: the exception an access of size bytes raises.       *)
Translate(virtAddr, size, writing) ==
    LET vpn   == virtAddr \div PageSize
        entry == pageTable[vpn]
    IN  CASE virtAddr % size # 0 -> "AddressErrorException"
          [] virtAddr % size = 0 /\ vpn \notin DOMAIN pageTable ->
               "AddressErrorException"
          [] OTHER ->
               IF ~entry.valid THEN "PageFaultException"
               ELSE IF entry.readOnly /\ writing THEN "ReadOnlyException"
               ELSE IF entry.physicalPage >= NumPhysPages
                    THEN "BusErrorException"
                    ELSE "NoException"

PhysAddr(virtAddr) ==
    (pageTable[virtAddr \div PageSize].physicalPage * PageSize)
        + (virtAddr % PageSize)

(* The use and dirty bits a successful Translate leaves in the entry. *)
Touch(table, virtAddr, writing) ==
    [table EXCEPT ![virtAddr \div PageSize].use = TRUE,
                  ![virtAddr \div PageSize].dirty = @ \/ writing]

(* What ReadMem returns in *value, the lowest byte first. *)
MemValue(virtAddr, size) ==
    FromDigits([k \in 0 .. size - 1 |-> mainMemory[PhysAddr(virtAddr) + k]],
               size, ByteBits)

(* What WriteMem leaves in mainMemory. *)
MemWith(virtAddr, size, value) ==
    LET pa == PhysAddr(virtAddr)
    IN  [a \in Address |-> IF a \in pa .. pa + size - 1
                           THEN ByteOf(value, a - pa) ELSE mainMemory[a]]

-----------------------------------------------------------------------------
(* Machine::OneInstruction: the fetch.  The use bit of the code's page is  *)
(* set by its Translate.                                                   *)
Fetch ==
    /\ mode = "UserMode"
    /\ instr = NoInstr
    /\ executed < MaxInstr
    /\ executed' = executed + 1
    /\ LET pc == registers[PCReg]
           which == Translate(pc, 4, FALSE)
       IN  \/ /\ which # "NoException"
              /\ RaiseException(which, pc, pageTable)
           \/ /\ which = "NoException"
              /\ \E value \in InstructionWord : instr' = Decode(value)
              /\ pageTable' = Touch(pageTable, pc, FALSE)
              /\ UNCHANGED << registers, mainMemory, mode, exception >>

Executing(ops) == mode = "UserMode" /\ instr # NoInstr /\ instr.op \in ops

Rs    == registers[instr.rs]
Rt    == registers[instr.rt]
Extra == ToWord(instr.extra)

(* The end of OneInstruction, for an instruction that succeeded: regs are  *)
(* the registers it wrote, the rest is its delayed load and next pc.       *)
CompleteLoad(regs, nextLoadReg, nextLoadValue, pcAfter) ==
    /\ registers' = [DelayedLoad(regs, nextLoadReg, nextLoadValue) EXCEPT
                        ![PrevPCReg] = registers[PCReg],
                        ![PCReg] = registers[NextPCReg],
                        ![NextPCReg] = pcAfter]
    /\ instr' = NoInstr
    /\ UNCHANGED << mode, exception, executed >>

NextAfter == ToWord(registers[NextPCReg] + 4)

Complete(regs) == CompleteLoad(regs, 0, 0, NextAfter)

(* C's << and >> on an int. *)
ShiftLeft(w, n)  == ToWord(w * 2^n)
ShiftRight(w, n) ==
    FromBits([i \in 0 .. WordBits - 1 |->
                 Bit(w, IF i + n < WordBits THEN i + n ELSE WordBits - 1)])

Or(v, w)  == FromBits([i \in 0 .. WordBits - 1 |->
                          IF Bit(v, i) + Bit(w, i) > 0 THEN 1 ELSE 0])
Xor(v, w) == FromBits([i \in 0 .. WordBits - 1 |->
                          (Bit(v, i) + Bit(w, i)) % 2])
Nor(v, w) == FromBits([i \in 0 .. WordBits - 1 |-> 1 - Bit(Or(v, w), i)])

BoolWord(b) == IF b THEN 1 ELSE 0

(* extra & 0xffff *)
LowHalf == Extra % Bytes(2)
(* registers[rs] & 0x1f *)
ShiftCount == Rs % WordBits

(* The operations that put a value into rd. *)
RdOps == {"ADDU", "SUBU", "AND", "OR", "XOR", "NOR", "SLT", "SLTU", "SLL",
          "SLLV", "SRA", "SRAV", "SRL", "SRLV", "MFHI", "MFLO"}
RdValue ==
    CASE instr.op = "ADDU" -> ToWord(Rs + Rt)
      [] instr.op = "SUBU" -> ToWord(Rs - Rt)
      [] instr.op = "AND"  -> And(Rs, Rt)
      [] instr.op = "OR"   -> Or(Rs, Rt)
      [] instr.op = "XOR"  -> Xor(Rs, Rt)
      [] instr.op = "NOR"  -> Nor(Rs, Rt)
      [] instr.op = "SLT"  -> BoolWord(Signed(Rs) < Signed(Rt))
      [] instr.op = "SLTU" -> BoolWord(Rs < Rt)
      [] instr.op = "SLL"  -> ShiftLeft(Rt, Extra)
      [] instr.op = "SLLV" -> ShiftLeft(Rt, ShiftCount)
      [] instr.op = "MFHI" -> registers[HiReg]
      [] instr.op = "MFLO" -> registers[LoReg]
      [] instr.op \in {"SRA", "SRL"}   -> ShiftRight(Rt, Extra)
      [] instr.op \in {"SRAV", "SRLV"} -> ShiftRight(Rt, ShiftCount)

ComputeRd ==
    /\ Executing(RdOps)
    /\ Complete([registers EXCEPT ![instr.rd] = RdValue])
    /\ UNCHANGED << mainMemory, pageTable >>

(* The operations that put a value into rt. *)
RtOps == {"ADDIU", "ANDI", "ORI", "XORI", "LUI", "SLTI", "SLTIU"}
RtValue ==
    CASE instr.op = "ADDIU" -> ToWord(Rs + Extra)
      [] instr.op = "ANDI"  -> And(Rs, LowHalf)
      [] instr.op = "ORI"   -> Or(Rs, LowHalf)
      [] instr.op = "XORI"  -> Xor(Rs, LowHalf)
      [] instr.op = "LUI"   -> ShiftLeft(Extra, 2 * ByteBits)
      [] instr.op = "SLTI"  -> BoolWord(Signed(Rs) < Signed(Extra))
      [] instr.op = "SLTIU" -> BoolWord(Rs < Extra)

ComputeRt ==
    /\ Executing(RtOps)
    /\ Complete([registers EXCEPT ![instr.rt] = RtValue])
    /\ UNCHANGED << mainMemory, pageTable >>

(* ADD, ADDI and SUB: the sign bits tell an overflow. *)
Checked(sum, overflow, target) ==
    /\ UNCHANGED executed
    /\ \/ overflow /\ RaiseException("OverflowException", 0, pageTable)
       \/ /\ ~overflow
          /\ Complete([registers EXCEPT ![target] = sum])
          /\ UNCHANGED << mainMemory, pageTable >>

AddOverflows(sum) == Negative(Rs) = Negative(Rt) /\ Negative(Rs) # Negative(sum)

Add ==
    /\ Executing({"ADD"})
    /\ LET sum == ToWord(Rs + Rt)
       IN  Checked(sum, AddOverflows(sum), instr.rd)

Addi ==
    /\ Executing({"ADDI"})
    /\ LET sum == ToWord(Rs + Extra)
       IN  Checked(sum, /\ Negative(Rs) = Negative(Extra)
                        /\ Negative(Extra) # Negative(sum), instr.rt)

Sub ==
    /\ Executing({"SUB"})
    /\ LET diff == ToWord(Rs - Rt)
       IN  Checked(diff, /\ Negative(Rs) # Negative(Rt)
                         /\ Negative(Rs) # Negative(diff), instr.rd)

-----------------------------------------------------------------------------
(* Branches and jumps: they only change where the instruction after the    *)
(* next one is.  A linking one writes its register first, so that its own  *)
(* condition or target reads the new value.                                *)
IndexToAddr(x) == ShiftLeft(x, 2)

BranchOps == {"BEQ", "BNE", "BGEZ", "BGTZ", "BLEZ", "BLTZ", "BGEZAL", "BLTZAL"}
Taken(rs) ==
    CASE instr.op = "BEQ"  -> rs = Rt
      [] instr.op = "BNE"  -> rs # Rt
      [] instr.op = "BGTZ" -> Signed(rs) > 0
      [] instr.op = "BLEZ" -> Signed(rs) <= 0
      [] instr.op \in {"BGEZ", "BGEZAL"} -> ~Negative(rs)
      [] instr.op \in {"BLTZ", "BLTZAL"} -> Negative(rs)

Branch ==
    /\ Executing(BranchOps)
    /\ LET regs == IF instr.op \in {"BGEZAL", "BLTZAL"}
                   THEN [registers EXCEPT ![R31] = NextAfter] ELSE registers
           target == ToWord(registers[NextPCReg] + IndexToAddr(Extra))
       IN  CompleteLoad(regs, 0, 0,
                        IF Taken(regs[instr.rs]) THEN target ELSE NextAfter)
    /\ UNCHANGED << mainMemory, pageTable >>

(* 0xf0000000 in the code: an address keeps its upper 1/8 of bits. *)
Region == 2^((7 * ByteBits) \div 2)

Jump ==
    /\ Executing({"J", "JAL"})
    /\ LET regs == IF instr.op = "JAL" THEN [registers EXCEPT ![R31] = NextAfter]
                   ELSE registers
       IN  CompleteLoad(regs, 0, 0,
                        ((NextAfter \div Region) * Region) + IndexToAddr(Extra))
    /\ UNCHANGED << mainMemory, pageTable >>

JumpRegister ==
    /\ Executing({"JR", "JALR"})
    /\ LET regs == IF instr.op = "JALR"
                   THEN [registers EXCEPT ![instr.rd] = NextAfter] ELSE registers
       IN  CompleteLoad(regs, 0, 0, regs[instr.rs])
    /\ UNCHANGED << mainMemory, pageTable >>

-----------------------------------------------------------------------------
(* The double-length operations, on HiReg and LoReg. *)
WithHiLo(hi, lo) == [registers EXCEPT ![HiReg] = hi, ![LoReg] = lo]

(* One iteration of the loop of Mult. *)
MultStep(s) ==
    LET odd == s.a % 2 = 1
        lo  == ToWord(s.lo + s.bLo)
        add == IF odd THEN [s EXCEPT !.lo = lo,
                                     !.hi = ToWord(@ + BoolWord(lo < s.bLo) + s.bHi)]
               ELSE s
    IN  IF s.done THEN s
        ELSE IF s.a = 1 THEN [add EXCEPT !.done = TRUE]
        ELSE [add EXCEPT !.bHi = ToWord(2 * @ + BoolWord(Negative(s.bLo))),
                         !.bLo = ToWord(2 * @),
                         !.a = ShiftRight(@, 1)]

(* Mult: << hi, lo >>. *)
Mult(a, b, signedArith) ==
    LET Abs(w)   == IF signedArith /\ Negative(w) THEN ToWord(-w) ELSE w
        negative == signedArith /\ Negative(a) # Negative(b)
        loop[i \in 0 .. WordBits] ==
            IF i = 0 THEN [a |-> Abs(a), bLo |-> Abs(b), bHi |-> 0,
                           lo |-> 0, hi |-> 0, done |-> FALSE]
            ELSE MultStep(loop[i - 1])
        r == loop[WordBits]
    IN  IF a = 0 \/ b = 0 THEN << 0, 0 >>
        ELSE IF ~negative THEN << r.hi, r.lo >>
        ELSE << ToWord((Modulus - 1 - r.hi) + BoolWord(r.lo = 0)),
                ToWord(Modulus - r.lo) >>

Multiply ==
    /\ Executing({"MULT", "MULTU"})
    /\ LET product == Mult(Rs, Rt, instr.op = "MULT")
       IN  Complete(WithHiLo(product[1], product[2]))
    /\ UNCHANGED << mainMemory, pageTable >>

(* C's division rounds towards zero. *)
Magnitude(i) == IF i < 0 THEN -i ELSE i
Quotient(i, j) ==
    LET q == Magnitude(i) \div Magnitude(j)
    IN  IF (i < 0) # (j < 0) THEN -q ELSE q

(* The host's division traps on the one signed quotient that no int holds. *)
HostTraps == /\ instr.op = "DIV"
             /\ Signed(Rs) = -SIGN_BIT /\ Signed(Rt) = -1

Divide ==
    /\ Executing({"DIV", "DIVU"})
    /\ ~HostTraps
    /\ LET i == IF instr.op = "DIV" THEN Signed(Rs) ELSE Rs
           j == IF instr.op = "DIV" THEN Signed(Rt) ELSE Rt
       IN  Complete(IF Rt = 0 THEN WithHiLo(0, 0)
                    ELSE WithHiLo(ToWord(i - Quotient(i, j) * j),
                                  ToWord(Quotient(i, j))))
    /\ UNCHANGED << mainMemory, pageTable >>

DivideTrapsHost ==
    /\ Executing({"DIV"})
    /\ HostTraps
    /\ mode' = "HostSignal"
    /\ instr' = NoInstr
    /\ UNCHANGED << registers, mainMemory, pageTable, exception, executed >>

MoveToHiLo ==
    /\ Executing({"MTHI", "MTLO"})
    /\ Complete(IF instr.op = "MTHI" THEN WithHiLo(Rs, registers[LoReg])
                ELSE WithHiLo(registers[HiReg], Rs))
    /\ UNCHANGED << mainMemory, pageTable >>

-----------------------------------------------------------------------------
(* Loads and stores.  An access that faults raises its exception with the  *)
(* address as the bad one and leaves OneInstruction.                       *)
EffAddr == ToWord(Rs + Extra)

SizeOf(op) == CASE op \in {"LB", "LBU", "SB"} -> 1
                [] op \in {"LH", "LHU", "SH"} -> 2
                [] OTHER -> 4

SignExtend(value, size) ==
    IF value >= Bytes(size) \div 2 THEN Modulus - Bytes(size) + value ELSE value

Load ==
    /\ Executing({"LB", "LBU", "LH", "LHU", "LW"})
    /\ UNCHANGED executed
    /\ LET size  == SizeOf(instr.op)
           which == Translate(EffAddr, size, FALSE)
           value == MemValue(EffAddr, size)
       IN  \/ /\ which # "NoException"
              /\ RaiseException(which, EffAddr, pageTable)
           \/ /\ which = "NoException"
              /\ pageTable' = Touch(pageTable, EffAddr, FALSE)
              /\ UNCHANGED mainMemory
              /\ CompleteLoad(registers, instr.rt,
                              IF instr.op \in {"LB", "LH"}
                              THEN SignExtend(value, size) ELSE value,
                              NextAfter)

(* The bytes of an unaligned word that lie in the word at WordAddr; the    *)
(* switch of the code is on Shift.                                         *)
WordAddr == EffAddr - (EffAddr % 4)
Shift    == 3 - (EffAddr % 4)

(* Mutant: LWL and LWR ignore the load in progress. *)
MergeIntoRegister == Rt

(* The register LWL and LWR merge into: a load in progress comes first. *)
MergeInto ==
    IF registers[LoadReg] = instr.rt THEN registers[LoadValueReg] ELSE Rt

(* The value with its bytes from n up replaced by those of high, and so on. *)
JoinAt(high, low, n) == ((high \div Bytes(n)) * Bytes(n)) + (low % Bytes(n))

LwlValue(value) == JoinAt(ToWord(value * Bytes(Shift)), MergeInto, Shift)
LwrValue(value) == JoinAt(MergeInto, value \div Bytes(3 - Shift), Shift + 1)

LoadUnaligned ==
    /\ Executing({"LWL", "LWR"})
    /\ UNCHANGED executed
    /\ LET which == Translate(WordAddr, 4, FALSE)
           value == MemValue(WordAddr, 4)
       IN  \/ /\ which # "NoException"
              /\ RaiseException(which, WordAddr, pageTable)
           \/ /\ which = "NoException"
              /\ pageTable' = Touch(pageTable, WordAddr, FALSE)
              /\ UNCHANGED mainMemory
              /\ CompleteLoad(registers, instr.rt,
                              IF instr.op = "LWL" THEN LwlValue(value)
                              ELSE LwrValue(value),
                              NextAfter)

Store ==
    /\ Executing({"SB", "SH", "SW"})
    /\ UNCHANGED executed
    /\ LET size  == SizeOf(instr.op)
           which == Translate(EffAddr, size, TRUE)
       IN  \/ /\ which # "NoException"
              /\ RaiseException(which, EffAddr, pageTable)
           \/ /\ which = "NoException"
              /\ pageTable' = Touch(pageTable, EffAddr, TRUE)
              /\ mainMemory' = MemWith(EffAddr, size, Rt)
              /\ Complete(registers)

SwlValue(value) == JoinAt(value, Rt \div Bytes(Shift), 4 - Shift)
SwrValue(value) == JoinAt(ToWord(Rt * Bytes(3 - Shift)), value, 3 - Shift)

(* SWL and SWR read the word, merge the register into it and write it      *)
(* back: the write may fault after the read went through.                  *)
StoreUnaligned ==
    /\ Executing({"SWL", "SWR"})
    /\ UNCHANGED executed
    /\ LET reading == Translate(WordAddr, 4, FALSE)
           writing == Translate(WordAddr, 4, TRUE)
           value   == MemValue(WordAddr, 4)
       IN  \/ /\ reading # "NoException"
              /\ RaiseException(reading, WordAddr, pageTable)
           \/ /\ reading = "NoException" /\ writing # "NoException"
              /\ RaiseException(writing, WordAddr, Touch(pageTable, WordAddr, FALSE))
           \/ /\ reading = "NoException" /\ writing = "NoException"
              /\ pageTable' = Touch(pageTable, WordAddr, TRUE)
              /\ mainMemory' = MemWith(WordAddr, 4, IF instr.op = "SWL"
                                                    THEN SwlValue(value)
                                                    ELSE SwrValue(value))
              /\ Complete(registers)

-----------------------------------------------------------------------------
(* The instructions that only trap. *)
Syscall ==
    /\ Executing({"SYSCALL"})
    /\ RaiseException("SyscallException", 0, pageTable)
    /\ UNCHANGED executed

Illegal ==
    /\ Executing({"RES", "UNIMP"})
    /\ RaiseException("IllegalInstrException", 0, pageTable)
    /\ UNCHANGED executed

(* Interrupt::CheckIfDue, in the OneTick after an instruction: any load in *)
(* progress is finished before the handlers run.                           *)
InterruptDue ==
    /\ mode = "UserMode"
    /\ instr = NoInstr
    /\ registers' = DelayedLoad(registers, 0, 0)
    /\ UNCHANGED << mainMemory, pageTable, mode, exception, instr, executed >>

-----------------------------------------------------------------------------
(* userprog/exception.cc.  The calls on strings and files copy user memory *)
(* and are left to the modules about them.                                 *)
SC_Halt  == 0
SC_Add   == 42
AskCalls == {43, 45, 47}   \* ReadNum, ReadChar, RandomNum
TellCalls == {44, 46}      \* PrintNum, PrintChar
CopyCalls == {48, 49} \cup 4 .. 10

(* IncreasePC, then the end of RaiseException. *)
IncreasePC(regs) ==
    /\ registers' = [regs EXCEPT ![PrevPCReg] = regs[PCReg],
                                 ![PCReg] = ToWord(regs[PCReg] + 4),
                                 ![NextPCReg] = ToWord(regs[PCReg] + 8)]
    /\ mode' = "UserMode"
    /\ exception' = "NoException"
    /\ UNCHANGED << mainMemory, pageTable, instr, executed >>

Handling(which) == mode = "SystemMode" /\ exception \in which

StopIn(how) ==
    /\ mode' = how
    /\ UNCHANGED << registers, mainMemory, pageTable, exception, instr, executed >>

HandleFault == Handling(Exception \ {"SyscallException"}) /\ StopIn("Halted")

(* Machine::ReadRegister, and the registers after WriteRegister. *)
ReadRegister(num) == registers[num]
WriteRegister(num, value) == [registers EXCEPT ![num] = value]

SysHalt == StopIn("Halted")
SysAdd(op1, op2) == ToWord(op1 + op2)

HandleHalt ==
    Handling({"SyscallException"}) /\ ReadRegister(2) = SC_Halt /\ SysHalt

HandleAdd ==
    /\ Handling({"SyscallException"})
    /\ ReadRegister(2) = SC_Add
    /\ IncreasePC(WriteRegister(2, SysAdd(ReadRegister(4), ReadRegister(5))))

HandleAsk ==
    /\ Handling({"SyscallException"})
    /\ ReadRegister(2) \in AskCalls
    /\ \E v \in Answer : IncreasePC(WriteRegister(2, v))

HandleTell ==
    /\ Handling({"SyscallException"})
    /\ ReadRegister(2) \in TellCalls
    /\ IncreasePC(registers)

(* ASSERTNOTREACHED at the end of ExceptionHandler. *)
HandleUnknown ==
    /\ Handling({"SyscallException"})
    /\ ReadRegister(2) \notin {SC_Halt, SC_Add} \cup AskCalls \cup TellCalls \cup CopyCalls
    /\ StopIn("Aborted")

-----------------------------------------------------------------------------
Execute ==
    \/ ComputeRd \/ ComputeRt \/ Add \/ Addi \/ Sub
    \/ Branch \/ Jump \/ JumpRegister
    \/ Multiply \/ Divide \/ DivideTrapsHost \/ MoveToHiLo
    \/ Load \/ LoadUnaligned \/ Store \/ StoreUnaligned
    \/ Syscall \/ Illegal

ExceptionHandler ==
    \/ HandleFault \/ HandleHalt \/ HandleAdd \/ HandleAsk \/ HandleTell
    \/ HandleUnknown

Next == Fetch \/ Execute \/ InterruptDue \/ ExceptionHandler

Spec == Init /\ [][Next]_vars

-----------------------------------------------------------------------------
(* What the program sees: a load in progress has happened, and memory is   *)
(* addressed virtually.                                                    *)
Visible == [r \in GPR |-> IF r # 0 /\ r = registers[LoadReg]
                          THEN registers[LoadValueReg] ELSE registers[r]]

Reachable(writing) ==
    {va \in 0 .. Cardinality(DOMAIN pageTable) * PageSize - 1 :
        Translate(va, 1, writing) = "NoException"}

M == INSTANCE Mips WITH
        gpr <- Visible, hi <- registers[HiReg], lo <- registers[LoReg],
        pc <- registers[PCReg], npc <- registers[NextPCReg],
        vmem <- [va \in Reachable(FALSE) |-> mainMemory[PhysAddr(va)]],
        writable <- Reachable(TRUE), stopped <- mode # "UserMode"

(* The instruction uses the register the instruction before it loads. *)
UsesSlot ==
    /\ registers[LoadReg] # 0
    /\ registers[LoadReg] \in
          IF instr.op \in M!LoadOps THEN {instr.rs}
          ELSE {instr.rs, instr.rt, instr.rd}
                 \cup (IF instr.op \in M!Links THEN {R31} ELSE {})

(* The instructions the architecture gives no meaning, and the ones where  *)
(* the simulator deviates from it: SRL and SRLV of a negative word (tmp is *)
(* an int, so >>= copies the sign), the quotient that traps the host.      *)
Unspecified ==
    \/ instr.op = "JALR" /\ instr.rs = instr.rd
    \/ instr.op \in {"BGEZAL", "BLTZAL"} /\ instr.rs = R31
    \/ instr.op \in {"SRL", "SRLV"} /\ Negative(Rt)
    \/ HostTraps

(* A program that keeps the load-delay rule cannot tell the simulator from *)
(* the machine of Mips, whenever interrupts come: mipssim.cc executes each *)
(* instruction with the registers as the earlier loads left them, LWL and  *)
(* LWR build one word between them, a fault changes nothing, and a system  *)
(* call returns to the next instruction (but in the delay slot of a taken  *)
(* branch, which IncreasePC forgets).                                      *)
ProgrammersModel ==
    [][ /\ instr # NoInstr => UsesSlot \/ Unspecified \/ M!Obey([instr EXCEPT !.extra = Extra])
        /\ instr = NoInstr /\ mode = "UserMode" =>
             IF mode' = "UserMode" THEN UNCHANGED M!mipsVars ELSE M!NoFetch
        /\ mode # "UserMode" =>
             IF mode' = "UserMode"
             THEN registers[NextPCReg] = ToWord(registers[PCReg] + 4) => M!Return
             ELSE UNCHANGED M!mipsVars ]_vars

(* translate.cc keeps the dirty bits a pager would rely on: a frame that   *)
(* differs from what was loaded is behind an entry marked dirty, and no    *)
(* entry that may not be written is ever marked.                           *)
DirtyBits ==
    /\ \A a \in Address : mainMemory[a] # InitialByte(a) =>
          \E p \in DOMAIN pageTable :
             /\ pageTable[p].physicalPage = a \div PageSize
             /\ pageTable[p].dirty
    /\ \A p \in DOMAIN pageTable : pageTable[p].dirty =>
          pageTable[p].use /\ pageTable[p].valid /\ ~pageTable[p].readOnly

(* Whoever reads the registers in the kernel (exception.cc reads its       *)
(* arguments from r4 to r6) sees what the program sees: machine.cc lets no *)
(* load in progress survive a trap.  A fault names the page at fault, and  *)
(* the dirty bits tell which frames were written.                          *)
KernelView ==
    /\ DirtyBits
    /\ mode = "SystemMode" =>
        /\ \A r \in GPR : registers[r] = Visible[r]
        /\ exception \in {"PageFaultException", "ReadOnlyException",
                          "BusErrorException"} =>
             registers[BadVAddrReg] \notin Reachable(TRUE)

(* What was fetched is executed, and traced, as the instruction it is in   *)
(* the architecture: operation, registers and sign-extended immediate of   *)
(* Decode give back the word, and so does what -d m prints of them.  Words *)
(* that stand for no instruction are reserved or unimplemented.            *)
DecodeExact ==
    instr # NoInstr =>
        IF instr.op \in {"RES", "UNIMP"}
        THEN ~ \E op \in Encoded :
                 Assemble(op, instr.rs, instr.rt, instr.rd, instr.extra) = instr.value
        ELSE /\ Reassembled(instr) = instr.value
             /\ instr.op \in DOMAIN BranchCode \cup DOMAIN MajorCode =>
                  instr.extra \in -32768 .. 32767
=============================================================================
