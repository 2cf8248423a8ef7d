---------------------------- MODULE MC_Programs ----------------------------
(***************************************************************************)
(* The small programs the model-checking runs load: words of XLEN bits,    *)
(* images of four instructions, so that the image is the whole address     *)
(* space and every target, backward, forward or misaligned, is in it.      *)
(***************************************************************************)
EXTENDS CPU_pkg, ALU

(* Instruction constructors; the fields a format lacks are 0.              *)
Ins(op, func3, rd, rs1, rs2, imm) ==
  [op |-> op, func3 |-> func3, ir30 |-> FALSE,
   rd |-> rd, rs1 |-> rs1, rs2 |-> rs2,
   imm |-> imm % WordMod, U_Type |-> 0]
Upper(op, rd, imm) == [Ins(op, 0, rd, 0, 0, 0) EXCEPT !.U_Type = imm]

ADDI(rd, rs1, imm) == Ins("OP_IMM", 0, rd, rs1, 0, imm)
ADD(rd, rs1, rs2)  == Ins("OP", 0, rd, rs1, rs2, 0)
SUB(rd, rs1, rs2)  == [Ins("OP", 0, rd, rs1, rs2, 0) EXCEPT !.ir30 = TRUE]
LUI(rd, imm)       == Upper("LUI", rd, imm)
AUIPC(rd, imm)     == Upper("AUIPC", rd, imm)
LB(rd, rs1, imm)   == Ins("LOAD", 0, rd, rs1, 0, imm)
LW(rd, rs1, imm)   == Ins("LOAD", 2, rd, rs1, 0, imm)
LBU(rd, rs1, imm)  == Ins("LOAD", 4, rd, rs1, 0, imm)
SB(rs2, rs1, imm)  == Ins("STORE", 0, 0, rs1, rs2, imm)
SW(rs2, rs1, imm)  == Ins("STORE", 2, 0, rs1, rs2, imm)
BEQ(rs1, rs2, imm) == Ins("BRANCH", 0, 0, rs1, rs2, imm)
BLT(rs1, rs2, imm) == Ins("BRANCH", 4, 0, rs1, rs2, imm)
JAL(rd, imm)       == Ins("JAL", 0, rd, 0, 0, imm)
JALR(rd, rs1, imm) == Ins("JALR", 0, rd, rs1, 0, imm)
ECALL              == Ins("SYSTEM", 0, 0, 0, 0, 0)
NOP                == Ins("FENCE", 0, 0, 0, 0, 0)

(* All programs of four instructions from a pool.                          *)
ProgramsFrom(pool) == [0 .. 3 -> pool]

(* The ALU as a table, so that TLC computes each result once.              *)
AluTable == [f \in AluOp |-> [a \in Word |-> [b \in Word |-> Result(f, a, b)]]]
AluFromTable(f, a, b) == AluTable[f][a][b]

(* What synthesis may leave of the decoder's 'X for an unused slot: the    *)
(* zeros a simulator behaves like, or a word that claims to read, load and *)
(* write.  Neither jumps, stores or traps.                                 *)
Claims == [ZeroControl EXCEPT !.RF_WE = TRUE, !.memRDEN = TRUE,
             !.RF_SEL = "DATA_IN", !.rs1_used = TRUE, !.rs2_used = TRUE]
InertControls == {ZeroControl, Claims}
=============================================================================
