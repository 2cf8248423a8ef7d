------------------------------ MODULE CPU_Core ------------------------------
(***************************************************************************)
(* CPU_TOP with RST low and the data memory it expects: a read enabled at  *)
(* an edge is answered, sized and extended for the instruction that made   *)
(* it, before the next edge; a write enabled at an edge is done at it.     *)
(* Under that contract the pipeline implements RV32I.                      *)
(*                                                                         *)
(* Images holds programs without unknown opcodes in which the word three   *)
(* after an ECALL or EBREAK does nothing: the core still executes that one *)
(* (see HaltFreezesState).                                                 *)
(***************************************************************************)
EXTENDS CPU_TOP

CONSTANTS MemRead(_, _, _), MemWrite(_, _, _, _), Memories

VARIABLE dmem   \* the data memory behind the bus

coreVars == <<vars, dmem>>

BusRead  == IF IOBUS_RDEN
            THEN DATA_IN' = MemRead(dmem, DATA_ADDRESS, mem_data)
            ELSE DATA_IN' \in BusData
BusWrite == dmem' = IF IOBUS_WE
                    THEN MemWrite(dmem, DATA_ADDRESS, DATA_OUT, mem_data)
                    ELSE dmem

CoreInit == InitFlops /\ RST = FALSE /\ DATA_IN \in BusData /\ dmem \in Memories
CoreNext == Edge /\ BusRead /\ BusWrite /\ RST' = FALSE
CoreSpec == CoreInit /\ [][CoreNext]_coreVars

(* The clock runs freely.                                                  *)
FairCoreSpec == CoreSpec /\ WF_coreVars(CoreNext)

-----------------------------------------------------------------------------
(* The refinement mapping: the sequential machine has executed what has    *)
(* left EX.  Its next instruction is the oldest one that has not, and its  *)
(* registers are those an instruction in EX must see.                      *)
Trapped == ex_mem_q.trap \/ mem_wb_q.trap \/ halt_sig

ArchPC == CASE Trapped                            -> -1
            [] ~Trapped /\ Real(id_ex_q.ir)       -> id_ex_q.PC
            [] ~Trapped /\ ~Real(id_ex_q.ir) /\ Real(if_id_q.ir)
                                                  -> if_id_q.PC
            [] ~Trapped /\ ~Real(id_ex_q.ir) /\ ~Real(if_id_q.ir)
                                                  -> PC_USED

ISA == INSTANCE RV32I WITH program <- instruction_memory, pc <- ArchPC,
                           x <- [r \in RegAddr |-> ArchReg(r)], mem <- dmem

(* Programs run as RV32I says: each instruction takes effect exactly once, *)
(* in program order, the two behind a taken branch, a jump or a trap never *)
(* do, and whatever the pipeline does in between is invisible.             *)
ImplementsISA == ISA!ArchSpec

(* And they make progress: no sequence of stalls and flushes holds a       *)
(* program up for ever.                                                    *)
ProgramProgresses == ISA!Progress

(* tests.mk: the core freezes on ECALL and EBREAK.  Once halt_sig is up no *)
(* register changes and nothing is stored.                                 *)
HaltFreezesState == [][halt_sig => UNCHANGED <<registers, dmem>>]_coreVars

-----------------------------------------------------------------------------
(* What ImplementsISA needs of the constants.                              *)

(* No opcode of a program is unknown.                                      *)
KnownPrograms ==
  \A m \in Images, pc \in Word : FetchFrom(m, pc).op \in Opcode

(* What the slot of i, decoded as c, changes: nothing.                     *)
Inert(c, i) == /\ c.RF_WE => i.rd = 0
               /\ ~c.memWE /\ ~c.branch_i /\ ~c.jal_i /\ ~c.jalr_i /\ ~c.system_call
Quiet(i)    == Real(i) => Inert(Decode(i), i)

(* The word three after one that traps does nothing.                       *)
QuietBehindTraps ==
  \A m \in Images, pc \in Word :
    Decode(FetchFrom(m, pc)).system_call
      => Quiet(FetchFrom(m, Add(Add(Add(pc, 4), 4), 4)))

(* The decoder's 'X does nothing in an unused slot.                        *)
InertUnknowns == \A c \in UnknownControl : Inert(c, ZeroWord)

AluAddsAndCopies ==
  \A a, b \in Word : Alu("ADD", a, b) = Add(a, b) /\ Alu("LUI_COPY", a, b) = a

RefinementAssumptions ==
  KnownPrograms /\ QuietBehindTraps /\ InertUnknowns /\ AluAddsAndCopies

-----------------------------------------------------------------------------
(* The inductive invariant behind ImplementsISA.                           *)

(* Until a trap leaves EX, the three stages before it hold successive      *)
(* words of the program, from the oldest instruction on without a gap.     *)
FetchOrder ==
  ~Trapped =>
    /\ ir = Fetch(PC_USED)
    /\ Real(if_id_q.ir) => /\ if_id_q.ir = Fetch(if_id_q.PC)
                           /\ PC_USED = Add(if_id_q.PC, 4)
    /\ Real(id_ex_q.ir) => /\ Real(if_id_q.ir)
                           /\ id_ex_q.ir = Fetch(id_ex_q.PC)
                           /\ if_id_q.PC = Add(id_ex_q.PC, 4)

(* Behind it nothing that is still in the pipe changes anything.           *)
TrapIsLast ==
  Trapped => ~WritesReg /\ Quiet(ir) /\ Quiet(if_id_q.ir) /\ Inert(id_ex_q.ctl, id_ex_q.ir)

CoreInv == OperandInv /\ FetchOrder /\ TrapIsLast /\ ~RST
=============================================================================
