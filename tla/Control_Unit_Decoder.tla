------------------------ MODULE Control_Unit_Decoder ------------------------
(***************************************************************************)
(* The decoder: opcode, func3 and ir30 to a control word.                  *)
(*                                                                         *)
(* For an opcode it does not list, the RTL assigns 'X to every output but  *)
(* system_call.  A simulator carries the X, and every `if` on it is false; *)
(* synthesis takes it as a don't care and may wire any value.  The set     *)
(* UnknownControl holds the control words the build may drive there.       *)
(***************************************************************************)
EXTENDS CPU_pkg

CONSTANT UnknownControl

ASSUME UnknownControlAssumption ==
  /\ UnknownControl \subseteq Control
  /\ UnknownControl # {}
  /\ \A c \in UnknownControl : ~c.system_call

(* func3 (and ir30 where it matters) of the I- and R-type ALU opcodes.     *)
AluFun(func3, alt) ==
  CASE func3 = 0 -> "ADD"
    [] func3 = 1 -> "SLL"
    [] func3 = 2 -> "SLT"
    [] func3 = 3 -> "SLTU"
    [] func3 = 4 -> "XOR"
    [] func3 = 5 -> IF alt THEN "SRA" ELSE "SRL"
    [] func3 = 6 -> "OR"
    [] func3 = 7 -> "AND"

(* The listed opcodes, output by output; what an opcode does not set is 0. *)
Decode(i) ==
  [ALU_FUN  |-> CASE i.op = "LUI"    -> "LUI_COPY"
                  [] i.op = "OP_IMM" -> AluFun(i.func3, i.ir30)
                  [] i.op = "OP"     -> IF i.func3 = 0 /\ i.ir30 THEN "SUB"
                                        ELSE AluFun(i.func3, i.ir30)
                  [] i.op \notin {"LUI", "OP_IMM", "OP"} -> "ADD",
   srcA_SEL |-> IF i.op \in {"LUI", "AUIPC", "JAL"} THEN "U_TYPE" ELSE "rs1",
   srcB_SEL |-> CASE i.op \in {"AUIPC", "JAL"}   -> "PC"
                  [] i.op \in {"LOAD", "OP_IMM"} -> "I_TYPE"
                  [] i.op = "STORE"              -> "S_TYPE"
                  [] OTHER                       -> "rs2",
   RF_SEL   |-> CASE i.op \in {"LUI", "AUIPC", "OP_IMM", "OP"} -> "ALU"
                  [] i.op = "LOAD"                             -> "DATA_IN"
                  [] OTHER                                     -> "PC4",
   RF_WE    |-> i.op \in {"LUI", "AUIPC", "JAL", "JALR", "LOAD", "OP_IMM", "OP"},
   memWE    |-> i.op = "STORE",
   memRDEN  |-> i.op = "LOAD",
   branch_i |-> i.op = "BRANCH",
   jal_i    |-> i.op = "JAL",
   jalr_i   |-> i.op = "JALR",
   rs1_used |-> i.op \in {"JALR", "LOAD", "OP_IMM", "OP", "STORE", "BRANCH"},
   rs2_used |-> i.op \in {"OP", "STORE", "BRANCH"},
   system_call |-> i.op = "SYSTEM" /\ i.func3 = 0]

(* The control words the decoder may drive for instruction word i.         *)
ControlOf(i) == IF i.op \in Opcode THEN {Decode(i)} ELSE UnknownControl
=============================================================================
