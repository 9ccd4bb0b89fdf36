------------------------------- MODULE Decode -------------------------------
(***************************************************************************)
(* Instruction::Decode of machine/mipssim.cc with the tables of            *)
(* machine/mipssim.h, and the encoding of the MIPS to compare it with.  An *)
(* instruction word is the pair of its halves, the higher first, as TLC's  *)
(* integers have no 32 bits to spare.                                      *)
(***************************************************************************)
EXTENDS Integers, Sequences

Half == 0 .. 2^16 - 1

(* opTable, by bits 31:26. *)
opTable == <<
    "SPECIAL", "BCOND", "J",     "JAL",   "BEQ",   "BNE",   "BLEZ",  "BGTZ",
    "ADDI",    "ADDIU", "SLTI",  "SLTIU", "ANDI",  "ORI",   "XORI",  "LUI",
    "UNIMP",   "UNIMP", "UNIMP", "UNIMP", "RES",   "RES",   "RES",   "RES",
    "RES",     "RES",   "RES",   "RES",   "RES",   "RES",   "RES",   "RES",
    "LB",      "LH",    "LWL",   "LW",    "LBU",   "LHU",   "LWR",   "RES",
    "SB",      "SH",    "SWL",   "SW",    "RES",   "RES",   "SWR",   "RES",
    "UNIMP",   "UNIMP", "UNIMP", "UNIMP", "RES",   "RES",   "RES",   "RES",
    "UNIMP",   "UNIMP", "UNIMP", "UNIMP", "RES",   "RES",   "RES",   "RES" >>

Format(field) == CASE field = 0 -> "RFMT" [] field \in {2, 3} -> "JFMT" [] OTHER -> "IFMT"

(* specialTable, by bits 5:0; all further ones are reserved. *)
specialTable == <<
    "SLL",  "RES",   "SRL",  "SRA",  "SLLV",    "RES",   "SRLV", "SRAV",
    "JR",   "JALR",  "RES",  "RES",  "SYSCALL", "UNIMP", "RES",  "RES",
    "MFHI", "MTHI",  "MFLO", "MTLO", "RES",     "RES",   "RES",  "RES",
    "MULT", "MULTU", "DIV",  "DIVU", "RES",     "RES",   "RES",  "RES",
    "ADD",  "ADDU",  "SUB",  "SUBU", "AND",     "OR",    "XOR",  "NOR",
    "RES",  "RES",   "SLT",  "SLTU" >>

(* Mutant: 0x8000 alone is not sign-extended. *)
ImmediateLate(lo) == IF lo > 32768 THEN lo - 65536 ELSE lo

Immediate(lo) == IF lo >= 32768 THEN lo - 65536 ELSE lo

(* What the format makes of the rest of the word. *)
ExtraField(format, hi, lo) ==
    CASE format = "IFMT" -> Immediate(lo)
      [] format = "RFMT" -> (lo \div 64) % 32
      [] format = "JFMT" -> (hi % 1024) * 65536 + lo

OpField(first, rt, funct) ==
    CASE first = "SPECIAL" ->
           IF funct < Len(specialTable) THEN specialTable[funct + 1] ELSE "RES"
      [] first = "BCOND" ->
           (CASE rt = 0 -> "BLTZ" [] rt = 1 -> "BGEZ" [] rt = 16 -> "BLTZAL"
              [] rt = 17 -> "BGEZAL" [] OTHER -> "UNIMP")
      [] OTHER -> first

(* Instruction::Decode. *)
Decode(value) ==
    LET hi    == value[1]
        lo    == value[2]
        field == hi \div 1024
        rt    == hi % 32
    IN  [value |-> value, rs |-> (hi \div 32) % 32, rt |-> rt, rd |-> lo \div 2048,
         extra |-> ExtraField(Format(field), hi, lo),
         op |-> OpField(opTable[field + 1], rt, lo % 64)]

(* The numbers OP_ADD .. OP_RES: the operation with each; "" has none. *)
opCodes == <<
    "ADD",    "ADDI",   "ADDIU",  "ADDU",   "AND",    "ANDI",   "BEQ",    "BGEZ",
    "BGEZAL", "BGTZ",   "BLEZ",   "BLTZ",   "BLTZAL", "BNE",    "",       "DIV",
    "DIVU",   "J",      "JAL",    "JALR",   "JR",     "LB",     "LBU",    "LH",
    "LHU",    "LUI",    "LW",     "LWL",    "LWR",    "",       "MFHI",   "MFLO",
    "",       "MTHI",   "MTLO",   "MULT",   "MULTU",  "NOR",    "OR",     "ORI",
    "RFE",    "SB",     "SH",     "SLL",    "SLLV",   "SLT",    "SLTI",   "SLTIU",
    "SLTU",   "SRA",    "SRAV",   "SRL",    "SRLV",   "SUB",    "SUBU",   "SW",
    "SWL",    "SWR",    "XOR",    "XORI",   "SYSCALL", "UNIMP",  "RES" >>

(* opStrings, by that number: the fields the trace shows. *)
opStrings ==
    LET None  == {}
        Regs  == {"RD", "RS", "RT"}
        Imm   == {"RT", "RS", "EXTRA"}
        Cond  == {"RS", "EXTRA"}
        Pair  == {"RS", "RT"}
        Addr  == {"EXTRA"}
        Link  == {"RD", "RS"}
        Upper == {"RT", "EXTRA"}
        From  == {"RD"}
        To    == {"RS"}
        Shift == {"RD", "RT", "EXTRA"}
    IN  <<
    Regs,  Imm,   Imm,   Regs,  Regs,  Imm,   Imm,   Cond,
    Cond,  Cond,  Cond,  Cond,  Cond,  Imm,   None,  Pair,
    Pair,  Addr,  Addr,  Link,  Link,  Imm,   Imm,   Imm,
    Imm,   Upper, Imm,   Imm,   Imm,   None,  From,  From,
    None,  To,    To,    Pair,  Pair,  Regs,  Regs,  Imm,
    None,  Imm,   Imm,   Shift, Regs,  Regs,  Imm,   Imm,
    Regs,  Shift, Regs,  Shift, Regs,  Regs,  Regs,  Imm,
    Imm,   Imm,   Regs,  Imm,   None,  None,  None >>

Args(op) == opStrings[CHOOSE n \in DOMAIN opCodes : opCodes[n] = op]

(* TypeToReg, for the fields that are shown. *)
TypeToReg(reg, i) ==
    CASE reg = "RS" -> i.rs [] reg = "RT" -> i.rt [] reg = "RD" -> i.rd
      [] reg = "EXTRA" -> i.extra

-----------------------------------------------------------------------------
(* The encoding, from the manual of the architecture. *)
FunctionCode ==
    [SLL |-> 0, SRL |-> 2, SRA |-> 3, SLLV |-> 4, SRLV |-> 6, SRAV |-> 7, JR |-> 8,
     JALR |-> 9, SYSCALL |-> 12, MFHI |-> 16, MTHI |-> 17, MFLO |-> 18, MTLO |-> 19,
     MULT |-> 24, MULTU |-> 25, DIV |-> 26, DIVU |-> 27, ADD |-> 32, ADDU |-> 33,
     SUB |-> 34, SUBU |-> 35, AND |-> 36, OR |-> 37, XOR |-> 38, NOR |-> 39,
     SLT |-> 42, SLTU |-> 43]
BranchCode == [BLTZ |-> 0, BGEZ |-> 1, BLTZAL |-> 16, BGEZAL |-> 17]
JumpCode == [J |-> 2, JAL |-> 3]
MajorCode ==
    [BEQ |-> 4, BNE |-> 5, BLEZ |-> 6, BGTZ |-> 7, ADDI |-> 8, ADDIU |-> 9, SLTI |-> 10,
     SLTIU |-> 11, ANDI |-> 12, ORI |-> 13, XORI |-> 14, LUI |-> 15, LB |-> 32, LH |-> 33,
     LWL |-> 34, LW |-> 35, LBU |-> 36, LHU |-> 37, LWR |-> 38, SB |-> 40, SH |-> 41,
     SWL |-> 42, SW |-> 43, SWR |-> 46]

Encoded == DOMAIN FunctionCode \cup DOMAIN BranchCode \cup DOMAIN JumpCode \cup DOMAIN MajorCode

Assemble(op, rs, rt, rd, extra) ==
    CASE op \in DOMAIN FunctionCode ->
           << (rs * 32) + rt, (rd * 2048) + (extra * 64) + FunctionCode[op] >>
      [] op \in DOMAIN BranchCode -> << 1024 + (rs * 32) + BranchCode[op], extra % 65536 >>
      [] op \in DOMAIN JumpCode -> << (JumpCode[op] * 1024) + (extra \div 65536), extra % 65536 >>
      [] op \in DOMAIN MajorCode -> << (MajorCode[op] * 1024) + (rs * 32) + rt, extra % 65536 >>

(* The word that belongs to what the trace shows of i. *)
Reassembled(i) ==
    LET Shown(reg) == IF reg \in Args(i.op) THEN TypeToReg(reg, i) ELSE 0
    IN  Assemble(i.op, Shown("RS"), Shown("RT"), Shown("RD"), Shown("EXTRA"))
=============================================================================
