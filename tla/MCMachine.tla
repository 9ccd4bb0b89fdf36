----------------------------- MODULE MCMachine -----------------------------
(* A small instance of Machine for TLC: bytes of two bits, a few registers,*)
(* pages of eight bytes, and two instructions after every start.           *)
EXTENDS Machine, TLC

CONSTANTS Base, Operand, Call  \* the values of r4, r5 and r2 at the start

I(op, rs, rt, rd, extra) == Assemble(op, rs, rt, rd, extra)

(* 15 and 16 are what the rd field of 32767 and of -32768 names. *)
MCGPR == {0, 2, 4, 5, 15, 16, 31}

(* Every operation; loads into r2 and r5 and uses of them, pairs of LWL    *)
(* and LWR, branches both ways, targets that fault.                        *)
MCInstructionWord ==
    {I(op, 4, 5, 2, 0) : op \in RdOps \ {"SLL", "SRA", "SRL", "MFHI", "MFLO"}}
      \cup {I(op, 0, 0, 2, 0) : op \in {"MFHI", "MFLO"}}
      \cup {I(op, 0, 5, 2, 3) : op \in {"SLL", "SRA", "SRL"}}
      \cup {I(op, 4, 2, 0, x) : op \in RtOps \ {"LUI"}, x \in {3, -3}}
      \cup {I("LUI", 0, 2, 0, x) : x \in {3, -3}}
      \cup {I(op, 4, 5, 2, 0) : op \in {"ADD", "SUB"}}
      \cup {I("ADD", 2, 2, 0, 0), I("ADDU", 2, 5, 4, 0)}
      \cup {I("ADDI", 4, 5, 0, x) : x \in {3, -3}}
      \cup {I("ADDIU", 4, 5, 0, x) : x \in {32767, -32768}}
      \cup {I(op, 4, IF op \in {"BEQ", "BNE"} THEN 5 ELSE 0, 0, -1) :
               op \in BranchOps}
      \cup {I("BGEZAL", 31, 0, 0, 2), I("J", 0, 0, 0, 3), I("JAL", 0, 0, 0, 1),
            I("JR", 4, 0, 0, 0), I("JALR", 5, 0, 31, 0), I("JALR", 4, 0, 4, 0)}
      \cup {I(op, 4, 5, 0, 0) : op \in {"MULT", "MULTU", "DIV", "DIVU"}}
      \cup {I("MTHI", 4, 0, 0, 0), I("MTLO", 5, 0, 0, 0)}
      \cup {I(op, 4, r, 0, 0) : op \in {"LB", "LBU", "LH", "LHU", "LW"}, r \in {2}}
      \cup {I("LW", 4, 5, 0, 0), I("LW", 4, 0, 0, 0), I("LW", 0, 4, 0, 4)}
      \cup {I("LWL", 4, 5, 0, 3), I("LWR", 4, 5, 0, 0)}
      \cup {I(op, 4, 5, 0, 0) : op \in {"SB", "SH", "SW"}}
      \cup {I("SWL", 4, 5, 0, 3), I("SWR", 4, 5, 0, 0)}
      \cup {I("SYSCALL", 0, 0, 0, 0)}
      \cup {<< 16 * 1024, 0 >>, << 1024 + 2, 5 >>, << 20 * 1024, 9 >>, << 0, 13 >>, << 0, 63 >>}

Entry(frame, valid, readOnly) ==
    [physicalPage |-> frame, valid |-> valid, readOnly |-> readOnly,
     use |-> FALSE, dirty |-> FALSE]

(* The table AddrSpace builds, and one with what a pager would add: frames *)
(* in another order, a read-only page, an absent one and a bad frame.      *)
MCPageTables ==
    {[p \in 0 .. 2 |-> Entry(p, TRUE, FALSE)],
     (0 :> Entry(0, TRUE, FALSE) @@ 1 :> Entry(2, TRUE, TRUE)
        @@ 2 :> Entry(1, TRUE, FALSE) @@ 3 :> Entry(1, FALSE, FALSE)
        @@ 4 :> Entry(7, TRUE, FALSE))}

(* r2 is SC_Add, or another call with one choice of its arguments. *)
MCInitGPR ==
    {[r \in MCGPR |-> IF r = 4 THEN a ELSE IF r = 5 THEN b
                      ELSE IF r = 2 THEN c ELSE 0] :
        << a, b, c >> \in (Base \X Operand \X {SC_Add})
                            \cup ({127} \X {3} \X Call)}
=============================================================================
