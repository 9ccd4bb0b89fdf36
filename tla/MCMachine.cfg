\* r4 takes the ends of the signed and the unsigned range and addresses of
\* each kind of page, aligned and not; r5 the ends again.
CONSTANTS
    ByteBits = 2
    GPR <- MCGPR
    InstructionWord <- MCInstructionWord
    NoInstr = NoInstr
    PageSize = 8
    NumPhysPages = 3
    PageTables <- MCPageTables
    InitGPR <- MCInitGPR
    Answer = {0, 77}
    MaxInstr = 2
    Base = {0, 127, 128, 255, 9, 18, 29, 34}
    Operand = {2, 130, 255}
    Call = {0, 1, 45, 46}
SPECIFICATION Spec
CHECK_DEADLOCK FALSE
INVARIANTS KernelView DecodeExact
PROPERTY ProgrammersModel
