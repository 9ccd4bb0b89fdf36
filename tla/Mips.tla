-------------------------------- MODULE Mips --------------------------------
(***************************************************************************)
(* The machine a MIPS program is written for: loads take effect at once,   *)
(* memory is virtual, a trap leaves everything as it was before the        *)
(* instruction, and the results of the instructions are given by integer   *)
(* arithmetic and byte by byte rather than by the operations of C.         *)
(* Machine is shown to behave like it for programs that do not use a       *)
(* register in the instruction after the one that loads it.                *)
(***************************************************************************)
EXTENDS Words

CONSTANT R31   \* the register of the return address

VARIABLES
    gpr,        \* the general registers
    hi, lo,
    pc, npc,    \* the instruction to execute, and the one after it
    vmem,       \* the readable bytes of virtual memory
    writable,   \* the addresses that may be written
    stopped     \* the kernel has taken over

mipsVars == << gpr, hi, lo, pc, npc, vmem, writable, stopped >>

Put(r, w)  == gpr' = [gpr EXCEPT ![r] = IF r = 0 THEN 0 ELSE w]
Step       == pc' = npc /\ npc' = ToWord(npc + 4) /\ UNCHANGED stopped
GoTo(a)    == pc' = npc /\ npc' = a /\ UNCHANGED stopped
Fits(i)    == i \in -SIGN_BIT .. SIGN_BIT - 1

(* A trap: nothing the program can see has changed. *)
Trap ==
    /\ stopped' = TRUE
    /\ UNCHANGED << gpr, hi, lo, pc, npc, vmem, writable >>

-----------------------------------------------------------------------------
(* The value of an arithmetic or logical instruction with operands a, b    *)
(* and immediate x; n is its shift.                                        *)
RegResult(op, a, b, n) ==
    LET m == n % WordBits
    IN  CASE op \in {"ADD", "ADDU"} -> ToWord(a + b)
          [] op \in {"SUB", "SUBU"} -> ToWord(a - b)
          [] op = "AND" -> And(a, b)
          [] op = "OR"  -> a + b - And(a, b)
          [] op = "XOR" -> a + b - 2 * And(a, b)
          [] op = "NOR" -> Modulus - 1 - (a + b - And(a, b))
          [] op = "SLT" -> IF Signed(a) < Signed(b) THEN 1 ELSE 0
          [] op = "SLTU" -> IF a < b THEN 1 ELSE 0
          [] op \in {"SLL", "SLLV"} -> (b * 2^m) % Modulus
          [] op \in {"SRA", "SRAV"} -> ToWord(Signed(b) \div 2^m)
          [] op \in {"SRL", "SRLV"} -> b \div 2^m
          [] op = "MFHI" -> hi
          [] op = "MFLO" -> lo

ImmResult(op, a, x) ==
    LET half == x % Bytes(2)
    IN  CASE op \in {"ADDI", "ADDIU"} -> ToWord(a + x)
          [] op = "ANDI" -> And(a, half)
          [] op = "ORI"  -> a + half - And(a, half)
          [] op = "XORI" -> a + half - 2 * And(a, half)
          [] op = "LUI"  -> half * Bytes(2)
          [] op = "SLTI"  -> IF Signed(a) < Signed(x) THEN 1 ELSE 0
          [] op = "SLTIU" -> IF a < x THEN 1 ELSE 0

Overflows(op, a, b, x) ==
    \/ op = "ADD"  /\ ~Fits(Signed(a) + Signed(b))
    \/ op = "ADDI" /\ ~Fits(Signed(a) + Signed(x))
    \/ op = "SUB"  /\ ~Fits(Signed(a) - Signed(b))

RegOps == {"ADD", "ADDU", "SUB", "SUBU", "AND", "OR", "XOR", "NOR", "SLT",
           "SLTU", "SLL", "SLLV", "SRA", "SRAV", "SRL", "SRLV", "MFHI", "MFLO"}
ImmOps == {"ADDI", "ADDIU", "ANDI", "ORI", "XORI", "LUI", "SLTI", "SLTIU"}

Compute(i) ==
    LET a == gpr[i.rs]
        b == gpr[i.rt]
    IN  IF Overflows(i.op, a, b, i.extra) THEN Trap
        ELSE /\ IF i.op \in RegOps
                THEN Put(i.rd, RegResult(i.op, a, b,
                            IF i.op \in {"SLLV", "SRAV", "SRLV"} THEN a ELSE i.extra))
                ELSE Put(i.rt, ImmResult(i.op, a, i.extra))
             /\ Step
             /\ UNCHANGED << hi, lo, vmem, writable >>

(* hi and lo: a product is the double-length one; a quotient q and a       *)
(* remainder r are the ones with a = q * b + r, r smaller than b and of    *)
(* the sign of a.                                                          *)
IsQuotient(a, b, q, r) ==
    /\ a = q * b + r
    /\ r * r < b * b
    /\ r * a >= 0

HiLo(i) ==
    LET u == i.op \in {"MULTU", "DIVU"}
        Value(w) == IF u THEN w ELSE Signed(w)
        a == Value(gpr[i.rs])
        b == Value(gpr[i.rt])
    IN  /\ CASE i.op \in {"MULT", "MULTU"} ->
                  hi' = ToWord((a * b) \div Modulus) /\ lo' = ToWord(a * b)
             [] i.op \in {"DIV", "DIVU"} ->
                  IF b = 0 THEN hi' = 0 /\ lo' = 0
                  ELSE IsQuotient(a, b, Value(lo'), Value(hi'))
             [] i.op = "MTHI" -> hi' = gpr[i.rs] /\ lo' = lo
             [] i.op = "MTLO" -> lo' = gpr[i.rs] /\ hi' = hi
        /\ Step
        /\ UNCHANGED << gpr, vmem, writable >>

-----------------------------------------------------------------------------
(* A branch or jump is obeyed after the instruction that follows it, and   *)
(* a linking one saves the address of the instruction after that.          *)
Condition(op, a, b) ==
    CASE op = "BEQ" -> a = b
      [] op = "BNE" -> a # b
      [] op = "BGTZ" -> Signed(a) > 0
      [] op = "BLEZ" -> Signed(a) <= 0
      [] op \in {"BGEZ", "BGEZAL"} -> Signed(a) >= 0
      [] op \in {"BLTZ", "BLTZAL"} -> Signed(a) < 0

Links == {"BGEZAL", "BLTZAL", "JAL", "JALR"}
BranchOps == {"BEQ", "BNE", "BGTZ", "BLEZ", "BGEZ", "BLTZ", "BGEZAL", "BLTZAL"}
JumpOps == {"J", "JAL", "JR", "JALR"}

Jump(i) ==
    /\ IF i.op \in Links
       THEN Put(IF i.op = "JALR" THEN i.rd ELSE R31, ToWord(npc + 4))
       ELSE UNCHANGED gpr
    /\ CASE i.op \in {"JR", "JALR"} -> GoTo(gpr[i.rs])
         [] i.op \in {"J", "JAL"} ->
              LET region == 2^((7 * ByteBits) \div 2)
              IN  GoTo(ToWord(npc + 4) - (ToWord(npc + 4) % region) + 4 * i.extra)
         [] OTHER -> IF Condition(i.op, gpr[i.rs], gpr[i.rt])
                     THEN GoTo(ToWord(npc + 4 * i.extra)) ELSE Step
    /\ UNCHANGED << hi, lo, vmem, writable >>

-----------------------------------------------------------------------------
(* Loads and stores, byte by byte.  An aligned access touches size bytes   *)
(* from its address on; LWL and SWL the bytes from the start of the word   *)
(* up to the address, LWR and SWR those from the address to the word's end.*)
Size(op) == CASE op \in {"LB", "LBU", "SB"} -> 1
              [] op \in {"LH", "LHU", "SH"} -> 2
              [] OTHER -> 4

(* The register byte that stands at memory address m. *)
RegByteAt(op, ea, m) == IF op \in {"LWL", "SWL"} THEN 3 - (ea - m) ELSE m - ea

Touched(op, ea) ==
    LET word == ea - (ea % 4)
    IN  CASE op \in {"LWL", "SWL"} -> word .. ea
          [] op \in {"LWR", "SWR"} -> ea .. word + 3
          [] OTHER -> ea .. ea + Size(op) - 1

Aligned(op, ea) == op \in {"LWL", "LWR", "SWL", "SWR"} \/ ea % Size(op) = 0

LoadOps  == {"LB", "LBU", "LH", "LHU", "LW", "LWL", "LWR"}
StoreOps == {"SB", "SH", "SW", "SWL", "SWR"}

(* Byte k of the register after a load. *)
LoadedByte(i, ea, k) ==
    LET m == IF i.op = "LWL" THEN ea - 3 + k ELSE ea + k
        top == vmem[ea + Size(i.op) - 1]
    IN  IF m \in Touched(i.op, ea) THEN vmem[m]
        ELSE CASE i.op \in {"LWL", "LWR"} -> ByteOf(gpr[i.rt], k)
               [] i.op \in {"LB", "LH"} ->
                    IF top >= Bytes(1) \div 2 THEN Bytes(1) - 1 ELSE 0
               [] OTHER -> 0

Access(i) ==
    LET ea == ToWord(gpr[i.rs] + i.extra)
        touched == Touched(i.op, ea)
        ok == /\ Aligned(i.op, ea)
              /\ touched \subseteq (IF i.op \in LoadOps THEN DOMAIN vmem ELSE writable)
    IN  IF ~ok THEN Trap
        ELSE /\ IF i.op \in LoadOps
                THEN /\ Put(i.rt, FromDigits([k \in 0 .. 3 |-> LoadedByte(i, ea, k)],
                                          4, ByteBits))
                     /\ UNCHANGED vmem
                ELSE /\ vmem' = [m \in DOMAIN vmem |->
                                   IF m \in touched
                                   THEN ByteOf(gpr[i.rt], RegByteAt(i.op, ea, m))
                                   ELSE vmem[m]]
                     /\ UNCHANGED gpr
             /\ Step
             /\ UNCHANGED << hi, lo, writable >>

-----------------------------------------------------------------------------
Obey(i) ==
    /\ ~stopped
    /\ CASE i.op \in RegOps \cup ImmOps -> Compute(i)
         [] i.op \in {"MULT", "MULTU", "DIV", "DIVU", "MTHI", "MTLO"} -> HiLo(i)
         [] i.op \in BranchOps \cup JumpOps -> Jump(i)
         [] i.op \in LoadOps \cup StoreOps -> Access(i)
         [] OTHER -> Trap

(* Nothing can be fetched at pc. *)
NoFetch == (pc % 4 # 0 \/ ~(pc .. pc + 3 \subseteq DOMAIN vmem)) /\ ~stopped /\ Trap

(* The kernel returns from a system call to the instruction after it, with *)
(* an answer in register 2.                                                *)
Return ==
    /\ stopped
    /\ stopped' = FALSE
    /\ pc' = npc
    /\ npc' = ToWord(npc + 4)
    /\ \A r \in DOMAIN gpr : r # 2 => gpr'[r] = gpr[r]
    /\ UNCHANGED << hi, lo, vmem, writable >>
=============================================================================
