------------------------------ MODULE CPU_TOP ------------------------------
(***************************************************************************)
(* The five-stage pipeline of rtl/CPU_TOP.sv.                              *)
(*                                                                         *)
(* A behaviour is the sequence of states between rising clock edges.  The  *)
(* variables are the flip-flops (the IMEM output latch, the four pipeline  *)
(* registers, the register file, halt_sig) and the two inputs RST and      *)
(* DATA_IN.  A wire is a state function of them, named as in the RTL.  An  *)
(* edge is the conjunction of one operator per always_ff block, all of     *)
(* them reading the state before the edge.                                 *)
(*                                                                         *)
(*   PC -> [ir, PC_USED] -> if_id_q -> id_ex_q -> ex_mem_q -> mem_wb_q     *)
(*                                                                         *)
(* The register file is written at the edge that ends MEM; mem_wb_q only   *)
(* feeds the forwarding muxes.                                             *)
(***************************************************************************)
EXTENDS Control_Unit_Decoder, Hazards

CONSTANTS
  Alu(_, _, _),  \* the ALU: operation, srcA, srcB to a word
  IMEM_WORDS,    \* instructions in IMEM: 8192 in the RTL
  Images,        \* the programs $readmemh may load
  JunkWords,     \* what a register may hold before it is first written
  BusData,       \* what the data bus may return
  XWord          \* the word the build wires to the 'X leg of the write mux

ASSUME AluAssumption ==
  \A f \in AluOp, a \in Word, b \in Word : Alu(f, a, b) \in Word
ASSUME ImemAssumption == IMEM_WORDS \in Nat \ {0}

(* A word without a known opcode is the all-zero word of an unused slot.   *)
ASSUME ImagesAssumption ==
  /\ Images \subseteq [0 .. IMEM_WORDS - 1 -> Instr]
  /\ \A m \in Images : \A a \in 0 .. IMEM_WORDS - 1 :
        m[a].op = "UNKNOWN" => m[a] = ZeroWord
ASSUME DataAssumption ==
  /\ JunkWords \subseteq Word
  /\ BusData \subseteq Word
  /\ XWord \in Word

VARIABLES
  instruction_memory,  \* IMEM contents, never written after $readmemh
  ir, PC_USED,         \* the IMEM latch: instruction and its address
  if_id_q,             \* [PC, ir]
  id_ex_q,             \* [PC, ir, ctl, rs1, rs2]
  ex_mem_q,            \* what the MEM stage keeps of the instruction
  mem_wb_q,            \* what the WB stage keeps of it
  registers,           \* Reg_File
  halt_sig,            \* the pipeline has trapped
  RST, DATA_IN         \* inputs

flops == <<instruction_memory, ir, PC_USED, if_id_q, id_ex_q, ex_mem_q,
           mem_wb_q, registers, halt_sig>>
vars  == <<flops, RST, DATA_IN>>

-----------------------------------------------------------------------------
(* The '0 of each pipeline register.                                       *)
IfId0  == [PC |-> 0, ir |-> ZeroWord]
IdEx0  == [PC |-> 0, ir |-> ZeroWord, ctl |-> ZeroControl,
           rs1 |-> 0, rs2 |-> 0]
ExMem0 == [PC |-> 0, RF_WE |-> FALSE, memRDEN |-> FALSE, RF_SEL |-> "PC4",
           reg_write_addr |-> 0, ALU_result |-> 0, func3 |-> 0,
           trap |-> FALSE]
MemWb0 == [RF_WE |-> FALSE, reg_write_addr |-> 0, REG_write_data |-> 0,
           trap |-> FALSE]

(* IMEM reads by word address; the address bits above the index are cut.   *)
FetchFrom(memory, pc) == memory[(pc \div 4) % IMEM_WORDS]
Fetch(pc) == FetchFrom(instruction_memory, pc)

(* Reg_File's read ports: x0 is forced to 0 on the output.                 *)
RegRead(r) == IF r = 0 THEN 0 ELSE registers[r]

-----------------------------------------------------------------------------
(* EX-stage wires.                                                         *)
STALL == \/ LoadUse(id_ex_q.ir.rs1, id_ex_q.ctl.rs1_used, ex_mem_q)
         \/ LoadUse(id_ex_q.ir.rs2, id_ex_q.ctl.rs2_used, ex_mem_q)

Forwarded(addr, used, held) ==
  LET sel == ForwardSel(addr, used, ex_mem_q, mem_wb_q)
  IN  CASE sel = "ZERO" -> 0
        [] sel = "MEM"  -> ex_mem_q.ALU_result
        [] sel = "WB"   -> mem_wb_q.REG_write_data
        [] sel = "NONE" -> held

real_rs1 == Forwarded(id_ex_q.ir.rs1, id_ex_q.ctl.rs1_used, id_ex_q.rs1)
real_rs2 == Forwarded(id_ex_q.ir.rs2, id_ex_q.ctl.rs2_used, id_ex_q.rs2)

srcA == IF id_ex_q.ctl.srcA_SEL = "U_TYPE" THEN id_ex_q.ir.U_Type ELSE real_rs1
srcB == CASE id_ex_q.ctl.srcB_SEL = "rs2" -> real_rs2
          [] id_ex_q.ctl.srcB_SEL = "PC"  -> id_ex_q.PC
          [] id_ex_q.ctl.srcB_SEL \in {"I_TYPE", "S_TYPE"} -> id_ex_q.ir.imm

ALU_result == Alu(id_ex_q.ctl.ALU_FUN, srcA, srcB)

PC_SEL == SelectPC(id_ex_q.ctl, id_ex_q.ir.func3, real_rs1, real_rs2)
FLUSH  == HazardFlush(STALL, id_ex_q.ctl, PC_SEL)

ClearBit0(a) == a - (a % 2)
jalr   == ClearBit0(Add(id_ex_q.ir.imm, real_rs1))
branch == Add(id_ex_q.PC, id_ex_q.ir.imm)
jal    == Add(id_ex_q.PC, id_ex_q.ir.imm)

(* The bus outputs.  mem_data is the size and the sign of the access.      *)
mem_data     == id_ex_q.ir.func3
DATA_ADDRESS == ALU_result
DATA_OUT     == real_rs2
IOBUS_RDEN   == id_ex_q.ctl.memRDEN
IOBUS_WE     == id_ex_q.ctl.memWE /\ ~STALL

(* Wrong on purpose, for the mutation runs: the PC mux ignores RST; a trap *)
(* in MEM does not stop the fetch.                                         *)
PC_NoReset == CASE PC_SEL = "PC4"    -> Add(PC_USED, 4)
                [] PC_SEL = "JALR"   -> jalr
                [] PC_SEL = "BRANCH" -> branch
                [] PC_SEL = "JAL"    -> jal
freeze_NotMEM == id_ex_q.ctl.system_call \/ mem_wb_q.trap \/ halt_sig

(* Program_Counter and the condition that stops the fetch.                 *)
PC == CASE RST                     -> 0
        [] ~RST /\ PC_SEL = "PC4"    -> Add(PC_USED, 4)
        [] ~RST /\ PC_SEL = "JALR"   -> jalr
        [] ~RST /\ PC_SEL = "BRANCH" -> branch
        [] ~RST /\ PC_SEL = "JAL"    -> jal

freeze == id_ex_q.ctl.system_call \/ ex_mem_q.trap \/ mem_wb_q.trap \/ halt_sig

(* The write-back mux, evaluated in MEM.                                   *)
write_data == CASE ex_mem_q.RF_SEL = "PC4"     -> Add(ex_mem_q.PC, 4)
                [] ex_mem_q.RF_SEL = "CSR"     -> XWord
                [] ex_mem_q.RF_SEL = "DATA_IN" -> DATA_IN
                [] ex_mem_q.RF_SEL = "ALU"     -> ex_mem_q.ALU_result

-----------------------------------------------------------------------------
(* The always_ff blocks.                                                   *)

(* IMEM: the flush and the stall come before the freeze; there is no reset.*)
LatchFetch ==
  \/ /\ ~STALL /\ (FLUSH \/ ~freeze)
     /\ ir' = Fetch(PC) /\ PC_USED' = PC
  \/ /\ STALL
     /\ UNCHANGED <<ir, PC_USED>>
  \/ /\ ~STALL /\ ~FLUSH /\ freeze
     /\ ir' = ZeroWord /\ UNCHANGED PC_USED

LatchIfId ==
  \/ /\ RST \/ FLUSH
     /\ if_id_q' = IfId0
  \/ /\ ~RST /\ ~FLUSH /\ STALL
     /\ UNCHANGED if_id_q
  \/ /\ ~RST /\ ~FLUSH /\ ~STALL
     /\ if_id_q' = [PC |-> PC_USED, ir |-> ir]

(* Wrong on purpose, for the mutation runs: a stalled ID/EX holds its      *)
(* operands too.                                                           *)
LatchIdEx_HoldsOperands ==
  \/ /\ RST \/ FLUSH
     /\ id_ex_q' = IdEx0
  \/ /\ ~RST /\ ~FLUSH /\ STALL
     /\ UNCHANGED id_ex_q
  \/ /\ ~RST /\ ~FLUSH /\ ~STALL
     /\ \E c \in ControlOf(if_id_q.ir) :
          id_ex_q' = [PC  |-> if_id_q.PC, ir |-> if_id_q.ir, ctl |-> c,
                      rs1 |-> RegRead(if_id_q.ir.rs1),
                      rs2 |-> RegRead(if_id_q.ir.rs2)]

(* A stalled ID/EX holds the instruction but captures the forwarded        *)
(* operands.                                                               *)
LatchIdEx ==
  \/ /\ RST \/ FLUSH
     /\ id_ex_q' = IdEx0
  \/ /\ ~RST /\ ~FLUSH /\ STALL
     /\ id_ex_q' = [id_ex_q EXCEPT !.rs1 = real_rs1, !.rs2 = real_rs2]
  \/ /\ ~RST /\ ~FLUSH /\ ~STALL
     /\ \E c \in ControlOf(if_id_q.ir) :
          id_ex_q' = [PC  |-> if_id_q.PC, ir |-> if_id_q.ir, ctl |-> c,
                      rs1 |-> RegRead(if_id_q.ir.rs1),
                      rs2 |-> RegRead(if_id_q.ir.rs2)]

(* Wrong on purpose, for the mutation runs: a stall holds EX/MEM as it     *)
(* holds the stages before it.                                             *)
LatchExMem_Holds ==
  \/ /\ RST
     /\ ex_mem_q' = ExMem0
  \/ /\ ~RST /\ STALL
     /\ UNCHANGED ex_mem_q
  \/ /\ ~RST /\ ~STALL
     /\ ex_mem_q' = [PC             |-> id_ex_q.PC,
                     RF_WE          |-> id_ex_q.ctl.RF_WE,
                     memRDEN        |-> id_ex_q.ctl.memRDEN,
                     RF_SEL         |-> id_ex_q.ctl.RF_SEL,
                     reg_write_addr |-> id_ex_q.ir.rd,
                     ALU_result     |-> ALU_result,
                     func3          |-> id_ex_q.ir.func3,
                     trap           |-> id_ex_q.ctl.system_call]

LatchExMem ==
  \/ /\ RST \/ STALL
     /\ ex_mem_q' = ExMem0
  \/ /\ ~RST /\ ~STALL
     /\ ex_mem_q' = [PC             |-> id_ex_q.PC,
                     RF_WE          |-> id_ex_q.ctl.RF_WE,
                     memRDEN        |-> id_ex_q.ctl.memRDEN,
                     RF_SEL         |-> id_ex_q.ctl.RF_SEL,
                     reg_write_addr |-> id_ex_q.ir.rd,
                     ALU_result     |-> ALU_result,
                     func3          |-> id_ex_q.ir.func3,
                     trap           |-> id_ex_q.ctl.system_call]

(* Wrong on purpose, for the mutation runs: WB keeps the ALU result of a   *)
(* load.                                                                   *)
LatchMemWb_AluResult ==
  \/ /\ RST
     /\ mem_wb_q' = MemWb0 /\ UNCHANGED halt_sig
  \/ /\ ~RST /\ (halt_sig \/ mem_wb_q.trap)
     /\ halt_sig' = TRUE /\ UNCHANGED mem_wb_q
  \/ /\ ~RST /\ ~halt_sig /\ ~mem_wb_q.trap
     /\ mem_wb_q' = [RF_WE          |-> ex_mem_q.RF_WE,
                     reg_write_addr |-> ex_mem_q.reg_write_addr,
                     REG_write_data |-> ex_mem_q.ALU_result,
                     trap           |-> ex_mem_q.trap]
     /\ UNCHANGED halt_sig

(* One block drives mem_wb_q and halt_sig; its reset leaves halt_sig alone.*)
LatchMemWb ==
  \/ /\ RST
     /\ mem_wb_q' = MemWb0 /\ UNCHANGED halt_sig
  \/ /\ ~RST /\ (halt_sig \/ mem_wb_q.trap)
     /\ halt_sig' = TRUE /\ UNCHANGED mem_wb_q
  \/ /\ ~RST /\ ~halt_sig /\ ~mem_wb_q.trap
     /\ mem_wb_q' = [RF_WE          |-> ex_mem_q.RF_WE,
                     reg_write_addr |-> ex_mem_q.reg_write_addr,
                     REG_write_data |-> write_data,
                     trap           |-> ex_mem_q.trap]
     /\ UNCHANGED halt_sig

(* Reg_File: not reset, not gated by RST.                                  *)
WriteRegister ==
  registers' = IF ex_mem_q.RF_WE /\ ex_mem_q.reg_write_addr # 0
               THEN [registers EXCEPT ![ex_mem_q.reg_write_addr] = write_data]
               ELSE registers

Edge == /\ LatchFetch
        /\ LatchIfId
        /\ LatchIdEx
        /\ LatchExMem
        /\ LatchMemWb
        /\ WriteRegister
        /\ UNCHANGED instruction_memory

-----------------------------------------------------------------------------
(* The state a completed reset leaves: both benches hold RST from time 0.  *)
InitFlops ==
  /\ instruction_memory \in Images
  /\ ir = Fetch(0)
  /\ PC_USED = 0
  /\ if_id_q = IfId0
  /\ id_ex_q = IdEx0
  /\ ex_mem_q = ExMem0
  /\ mem_wb_q = MemWb0
  /\ registers \in [RegAddr -> JunkWords]
  /\ halt_sig = FALSE

(* The core on its own: RST and the bus do what they like at every edge.   *)
Init == InitFlops /\ RST \in BOOLEAN /\ DATA_IN \in BusData
Next == Edge /\ RST' \in BOOLEAN /\ DATA_IN' \in BusData
Spec == Init /\ [][Next]_vars
-----------------------------------------------------------------------------
(* Properties.                                                             *)

(* Every register holds a value of its type.                               *)
IdEx  == [PC : Word, ir : Instr, ctl : Control, rs1 : Word, rs2 : Word]
ExMem == [PC : Word, RF_WE : BOOLEAN, memRDEN : BOOLEAN,
          RF_SEL : {"PC4", "CSR", "DATA_IN", "ALU"},
          reg_write_addr : RegAddr, ALU_result : Word, func3 : 0 .. 7,
          trap : BOOLEAN]
MemWb == [RF_WE : BOOLEAN, reg_write_addr : RegAddr, REG_write_data : Word,
          trap : BOOLEAN]
TypeOK ==
  /\ instruction_memory \in Images
  /\ ir \in Instr
  /\ PC_USED \in Word
  /\ if_id_q \in [PC : Word, ir : Instr]
  /\ id_ex_q \in IdEx
  /\ ex_mem_q \in ExMem
  /\ mem_wb_q \in MemWb
  /\ registers \in [RegAddr -> Word]
  /\ halt_sig \in BOOLEAN
  /\ RST \in BOOLEAN
  /\ DATA_IN \in Word

(* The value program order gives register r for the instruction in EX: the *)
(* older instructions have all reached MEM or finished.                    *)
WritesInMEM(r) == ex_mem_q.RF_WE /\ ex_mem_q.reg_write_addr = r
ArchReg(r) == CASE r = 0                       -> 0
                [] r # 0 /\ WritesInMEM(r)     -> write_data
                [] r # 0 /\ ~WritesInMEM(r)    -> registers[r]

(* Forwarding_Unit "fixes RAW hazards": an instruction that leaves EX      *)
(* computes with the youngest older value of each register it reads,       *)
(* through stalls, flushes, resets and a trap that stops mem_wb_q.         *)
OperandsCurrent ==
  ~STALL =>
    /\ id_ex_q.ctl.rs1_used => real_rs1 = ArchReg(id_ex_q.ir.rs1)
    /\ id_ex_q.ctl.rs2_used => real_rs2 = ArchReg(id_ex_q.ir.rs2)

(* The MEM forward carries ALU_result, which for JAL and JALR is not the   *)
(* link the register receives: no instruction that reads a register may be *)
(* in EX behind one.                                                       *)
LinkNotForwarded ==
  ex_mem_q.RF_WE /\ ex_mem_q.RF_SEL = "PC4" /\ ex_mem_q.reg_write_addr # 0
    => ~id_ex_q.ctl.rs1_used /\ ~id_ex_q.ctl.rs2_used

(* What WB would forward is what the register file holds, although the two *)
(* are written by different blocks and only one of them stops on a trap.   *)
WriteBackCoherent ==
  mem_wb_q.RF_WE /\ mem_wb_q.reg_write_addr # 0
    => registers[mem_wb_q.reg_write_addr] = mem_wb_q.REG_write_data

(* A load-use stall costs one cycle: the squashed EX/MEM cannot raise the  *)
(* stall again, whatever the held instruction reads.                       *)
StallLastsOneCycle == [][STALL => ~STALL']_vars

(* A second reset edge fetches address 0, whatever the first one caught in *)
(* EX (a jump, a stalled instruction) - unless the core has halted.        *)
PipelineClear == /\ if_id_q = IfId0   /\ id_ex_q = IdEx0
                 /\ ex_mem_q = ExMem0 /\ mem_wb_q = MemWb0
ResetRestarts ==
  [][RST /\ PipelineClear /\ ~halt_sig => PC_USED' = 0 /\ ir' = Fetch(0)]_vars

(* CPU_TOP.sv's comment on the trap: it lasts "forever or until reset".    *)
ResetClearsHalt == [][RST => ~halt_sig']_vars

-----------------------------------------------------------------------------
(* The inductive invariant behind OperandsCurrent.                         *)
Real(i)     == i.op # "UNKNOWN"
WritesReg   == ex_mem_q.RF_WE /\ ex_mem_q.reg_write_addr # 0
Frozen      == mem_wb_q.trap \/ halt_sig   \* mem_wb_q no longer follows MEM

(* An unused slot is the zero word, and ID/EX holds what its instruction   *)
(* decodes to.                                                             *)
SlotsDecoded ==
  /\ \A i \in {ir, if_id_q.ir, id_ex_q.ir} : ~Real(i) => i = ZeroWord
  /\ \/ id_ex_q.ctl \in ControlOf(id_ex_q.ir)
     \/ id_ex_q.ir = ZeroWord /\ id_ex_q.ctl = ZeroControl

(* The three kinds of register write; a link has nothing behind it.        *)
MemWrites ==
  WritesReg =>
    \/ ex_mem_q.RF_SEL = "ALU" /\ ~ex_mem_q.memRDEN
    \/ ex_mem_q.RF_SEL = "DATA_IN" /\ ex_mem_q.memRDEN
    \/ ex_mem_q.RF_SEL = "PC4" /\ ~ex_mem_q.memRDEN /\ id_ex_q.ctl = ZeroControl

(* Behind a trap in MEM come two empty slots.                              *)
TrapShadow ==
  ex_mem_q.trap => /\ ~ex_mem_q.RF_WE
                   /\ if_id_q.ir = ZeroWord
                   /\ id_ex_q.ir = ZeroWord /\ id_ex_q.ctl = ZeroControl

(* Once mem_wb_q has stopped it forwards nothing, and what is still        *)
(* fetched runs so far apart that nothing has to be forwarded.             *)
FrozenSpacing ==
  Frozen => /\ ~mem_wb_q.RF_WE
            /\ Real(ir) => ~Real(if_id_q.ir) /\ ~Real(id_ex_q.ir)
            /\ Real(if_id_q.ir) => ~Real(id_ex_q.ir) /\ ~WritesReg
            /\ Real(id_ex_q.ir) => ~WritesReg

(* The operand held in ID/EX is current unless WB is about to replace it.  *)
HeldCurrent(addr, used, held) ==
  used /\ ~MatchWB(addr, used, mem_wb_q) => held = RegRead(addr)
HeldOperands ==
  /\ HeldCurrent(id_ex_q.ir.rs1, id_ex_q.ctl.rs1_used, id_ex_q.rs1)
  /\ HeldCurrent(id_ex_q.ir.rs2, id_ex_q.ctl.rs2_used, id_ex_q.rs2)

OperandInv == /\ TypeOK
              /\ SlotsDecoded
              /\ MemWrites
              /\ TrapShadow
              /\ FrozenSpacing
              /\ WriteBackCoherent
              /\ HeldOperands
=============================================================================
