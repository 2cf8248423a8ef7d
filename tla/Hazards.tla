------------------------------ MODULE Hazards ------------------------------
(***************************************************************************)
(* The combinational units that steer the pipeline: Forwarding_Unit,       *)
(* PC_Decoder, Branch_Condition_Generator and HazardUnit.  mem and wb are  *)
(* the EX/MEM and MEM/WB registers, addr and used the number of an operand *)
(* register of the EX instruction and whether it is read at all.           *)
(***************************************************************************)
EXTENDS CPU_pkg

(* Wrong on purpose, for the mutation runs: a stall comparator without the *)
(* enables of the MEM instruction.                                         *)
LoadUse_NoEnable(addr, used, mem) == used /\ addr = mem.reg_write_addr

(* Cases 2 and 4: the operand is the destination of the load in MEM.       *)
LoadUse(addr, used, mem) ==
  used /\ mem.RF_WE /\ mem.memRDEN /\ addr = mem.reg_write_addr

(* Cases 1, 3, 5 and 6: a MEM result wins over a WB result, and a match    *)
(* on x0 selects the constant 0.                                           *)
MatchMEM(addr, used, mem) ==
  used /\ mem.RF_WE /\ ~mem.memRDEN /\ addr = mem.reg_write_addr

MatchWB(addr, used, wb) ==
  used /\ wb.RF_WE /\ addr = wb.reg_write_addr

(* Wrong on purpose, for the mutation runs: the older result wins.         *)
ForwardSel_WBFirst(addr, used, mem, wb) ==
  CASE MatchWB(addr, used, wb) -> IF addr = 0 THEN "ZERO" ELSE "WB"
    [] ~MatchWB(addr, used, wb) /\ MatchMEM(addr, used, mem)
                               -> IF addr = 0 THEN "ZERO" ELSE "MEM"
    [] OTHER                   -> "NONE"

(* Wrong on purpose, for the mutation runs: a write to x0 is forwarded     *)
(* like any other.                                                         *)
ForwardSel_NoZero(addr, used, mem, wb) ==
  CASE MatchMEM(addr, used, mem) -> "MEM"
    [] ~MatchMEM(addr, used, mem) /\ MatchWB(addr, used, wb) -> "WB"
    [] OTHER -> "NONE"

ForwardSel(addr, used, mem, wb) ==
  CASE MatchMEM(addr, used, mem) -> IF addr = 0 THEN "ZERO" ELSE "MEM"
    [] ~MatchMEM(addr, used, mem) /\ MatchWB(addr, used, wb)
                                 -> IF addr = 0 THEN "ZERO" ELSE "WB"
    [] OTHER                     -> "NONE"

(* The branch comparison that func3 selects.                               *)
BranchTaken(func3, rs1, rs2) ==
  CASE func3 = 0 -> rs1 = rs2
    [] func3 = 1 -> rs1 # rs2
    [] func3 = 4 -> Signed(rs1) < Signed(rs2)
    [] func3 = 5 -> ~(Signed(rs1) < Signed(rs2))
    [] func3 = 6 -> rs1 < rs2
    [] func3 = 7 -> ~(rs1 < rs2)
    [] OTHER     -> FALSE

(* PC_Decoder: more than one of the three flags selects PC+4.              *)
SelectPC(c, func3, rs1, rs2) ==
  CASE c.branch_i /\ ~c.jal_i /\ ~c.jalr_i
         -> IF BranchTaken(func3, rs1, rs2) THEN "BRANCH" ELSE "PC4"
    [] c.jal_i /\ ~c.branch_i /\ ~c.jalr_i -> "JAL"
    [] c.jalr_i /\ ~c.branch_i /\ ~c.jal_i -> "JALR"
    [] OTHER                               -> "PC4"

(* Wrong on purpose, for the mutation runs: a JALR redirects the fetch     *)
(* without a flush.                                                        *)
HazardFlush_NotJalr(stall, c, sel) ==
  ~stall /\ (c.jal_i \/ (c.branch_i /\ sel = "BRANCH") \/ c.system_call)

(* HazardUnit: both flush outputs carry the same value.                    *)
HazardFlush(stall, c, sel) ==
  ~stall /\ (c.jal_i \/ c.jalr_i \/ (c.branch_i /\ sel = "BRANCH")
             \/ c.system_call)
=============================================================================
