------------------------------ MODULE CPU_pkg ------------------------------
(***************************************************************************)
(* The types of the RV32I pipeline: words, register numbers, instructions  *)
(* and the control word that the decoder drives (rtl/CPU_pkg.sv).          *)
(*                                                                         *)
(* An instruction word is the record of the fields the core slices out of  *)
(* it.  rd, rs1 and rs2 are present whatever the format, as the bits are:  *)
(* a LUI has "rs1" bits although it reads no register, which is what the   *)
(* rs1_used and rs2_used flags of the decoder are for.  imm is the I, S, B *)
(* or J immediate of Immediate_Generator, whichever the opcode's format    *)
(* selects; U_Type is the upper immediate, which JAL puts on the ALU too.  *)
(***************************************************************************)
EXTENDS Integers

CONSTANTS
  WordMod,   \* number of words: 2^32 in the RTL
  NREG       \* number of registers: 32 in the RTL

ASSUME WordAssumption == WordMod \in Nat \ {0}
ASSUME RegAssumption  == NREG \in Nat \ {0}

Word    == 0 .. WordMod - 1
RegAddr == 0 .. NREG - 1

(* Wrong on purpose, for the mutation runs: a carry that is not cut off.   *)
Add_Carries(a, b) == a + b

(* 32-bit addition, and $signed(). *)
Add(a, b) == (a + b) % WordMod
Signed(a) == IF 2 * a >= WordMod THEN a - WordMod ELSE a

AluOp == {"ADD", "SUB", "AND", "OR", "XOR", "SLL", "SRL", "SRA",
          "SLT", "SLTU", "LUI_COPY"}

(* The opcodes Control_Unit_Decoder lists; any other, the all-zero word of *)
(* a cleared pipeline register included, is UNKNOWN.                       *)
Opcode == {"LUI", "AUIPC", "JAL", "JALR", "LOAD", "OP_IMM", "OP", "STORE",
           "BRANCH", "FENCE", "SYSTEM"}

Instr == [op : Opcode \cup {"UNKNOWN"}, func3 : 0 .. 7, ir30 : BOOLEAN,
          rd : RegAddr, rs1 : RegAddr, rs2 : RegAddr, imm : Word,
          U_Type : Word]

ZeroWord == [op |-> "UNKNOWN", func3 |-> 0, ir30 |-> FALSE,
             rd |-> 0, rs1 |-> 0, rs2 |-> 0, imm |-> 0,
             U_Type |-> 0]

Control == [ALU_FUN  : AluOp,
            srcA_SEL : {"rs1", "U_TYPE"},
            srcB_SEL : {"rs2", "I_TYPE", "S_TYPE", "PC"},
            RF_SEL   : {"PC4", "CSR", "DATA_IN", "ALU"},
            RF_WE    : BOOLEAN, memWE   : BOOLEAN, memRDEN     : BOOLEAN,
            branch_i : BOOLEAN, jal_i   : BOOLEAN, jalr_i      : BOOLEAN,
            rs1_used : BOOLEAN, rs2_used: BOOLEAN, system_call : BOOLEAN]

(* The control word of a register cleared with '0.                         *)
ZeroControl == [ALU_FUN |-> "ADD", srcA_SEL |-> "rs1", srcB_SEL |-> "rs2",
                RF_SEL |-> "PC4", RF_WE |-> FALSE, memWE |-> FALSE,
                memRDEN |-> FALSE, branch_i |-> FALSE, jal_i |-> FALSE,
                jalr_i |-> FALSE, rs1_used |-> FALSE, rs2_used |-> FALSE,
                system_call |-> FALSE]
=============================================================================
