--------------------------- MODULE CPU_Core_proofs ---------------------------
(***************************************************************************)
(* The pipeline implements RV32I, for every word size, register count,     *)
(* image size, set of programs and data memory: the proof of ImplementsISA.*)
(***************************************************************************)
EXTENDS CPU_Core, CPU_TOP_proofs

CONSTANT DataMemories   \* every state the data memory may take

(* The memory keeps to words.  A RAM of words does if a load and a store   *)
(* make words of words.                                                    *)
MemoryTyped ==
  /\ Memories \subseteq DataMemories
  /\ \A m \in DataMemories, a \in Word, f \in 0 .. 7 :
       /\ MemRead(m, a, f) \in Word
       /\ \A d \in Word : MemWrite(m, a, d, f) \in DataMemories

Assumptions == RefinementAssumptions /\ MemoryTyped

-----------------------------------------------------------------------------
(* The control word of the slot in EX.                                     *)
LEMMA ControlInEX ==
  ASSUME Assumptions, TypeOK, SlotsDecoded
  PROVE  /\ Real(id_ex_q.ir) => id_ex_q.ctl = Decode(id_ex_q.ir)
         /\ ~Real(id_ex_q.ir) => Inert(id_ex_q.ctl, id_ex_q.ir)
<1>1. id_ex_q.ir \in Instr
  BY DEF TypeOK, IdEx
<1>2. CASE Real(id_ex_q.ir)
  BY <1>1, <1>2 DEF Real, SlotsDecoded, ControlOf, Instr, ZeroWord
<1>3. CASE ~Real(id_ex_q.ir)
  <2>1. id_ex_q.ir = ZeroWord
    BY <1>3 DEF SlotsDecoded
  <2>2. CASE id_ex_q.ctl = ZeroControl
    BY <1>3, <2>1, <2>2 DEF Inert, ZeroControl, ZeroWord
  <2>3. CASE id_ex_q.ctl \in ControlOf(id_ex_q.ir)
    BY <1>3, <2>1, <2>3 DEF Real, ControlOf, Opcode, Assumptions, RefinementAssumptions, InertUnknowns
  <2>4. QED BY <1>3, <2>2, <2>3 DEF SlotsDecoded
<1>4. QED BY <1>2, <1>3

(* Any word that is fetched is one of the program.                         *)
LEMMA FetchIsKnown ==
  ASSUME Assumptions, instruction_memory \in Images, NEW pc \in Word
  PROVE  Real(Fetch(pc)) /\ Fetch(pc) \in Instr
BY FetchType DEF Assumptions, RefinementAssumptions, KnownPrograms, Fetch, Real, Opcode

(* An inert slot in EX neither redirects the fetch nor flushes.            *)
LEMMA InertGoesOn ==
  ASSUME Inert(id_ex_q.ctl, id_ex_q.ir)
  PROVE  ~FLUSH /\ PC_SEL = "PC4" /\ ~IOBUS_WE
BY DEF Inert, FLUSH, HazardFlush, PC_SEL, SelectPC, IOBUS_WE

(* The fetch, when the core has not trapped.                               *)
LEMMA FetchGoesOn ==
  ASSUME ~Trapped, Edge, ~RST, ~STALL
  PROVE  /\ ir' = Fetch(PC) /\ PC_USED' = PC
         /\ instruction_memory' = instruction_memory
<1>1. freeze => FLUSH
  BY DEF Trapped, freeze, FLUSH, HazardFlush
<1>2. QED BY <1>1 DEF Edge, LatchFetch

(* Whether the core has trapped, an edge later.                            *)
LEMMA TrappedStep ==
  ASSUME TypeOK, Edge, ~RST
  PROVE  Trapped' <=> Trapped \/ (~STALL /\ id_ex_q.ctl.system_call)
<1>1. ex_mem_q'.trap <=> ~STALL /\ id_ex_q.ctl.system_call
  BY DEF Edge, LatchExMem, ExMem0
<1>2. mem_wb_q'.trap \/ halt_sig' <=> ex_mem_q.trap \/ mem_wb_q.trap \/ halt_sig
  BY EdgeMemWb DEF Frozen
<1>3. QED BY <1>1, <1>2 DEF Trapped

(* An edge at which nothing redirects the fetch.                           *)
LEMMA SequentialFetch ==
  ASSUME TypeOK, ~RST, ~STALL, ~FLUSH
  PROVE  PC = Add(PC_USED, 4)
<1>1. PC_SEL = "PC4"
  BY DEF FLUSH, HazardFlush, PC_SEL, SelectPC
<1>2. QED BY <1>1 DEF PC

(* A stall keeps the address of the instruction in EX, too.                *)
LEMMA CapturedPC ==
  ASSUME TypeOK, id_ex_q' = [id_ex_q EXCEPT !.rs1 = real_rs1, !.rs2 = real_rs2]
  PROVE  id_ex_q'.PC = id_ex_q.PC
BY DEF TypeOK, IdEx

LEMMA FetchOrderStep ==
  ASSUME Assumptions, CoreInv, Edge
  PROVE  FetchOrder'
<1> USE DEF CoreInv, OperandInv
<1> SUFFICES ASSUME ~Trapped'
             PROVE  /\ ir' = FetchFrom(instruction_memory', PC_USED')
                    /\ Real(if_id_q'.ir) =>
                         /\ if_id_q'.ir = FetchFrom(instruction_memory', if_id_q'.PC)
                         /\ PC_USED' = Add(if_id_q'.PC, 4)
                    /\ Real(id_ex_q'.ir) =>
                         /\ Real(if_id_q'.ir)
                         /\ id_ex_q'.ir = FetchFrom(instruction_memory', id_ex_q'.PC)
                         /\ if_id_q'.PC = Add(id_ex_q'.PC, 4)
  BY DEF FetchOrder, Fetch, FetchFrom, Real, Add
<1>1. ~Trapped
  BY TrappedStep
<1>2. instruction_memory' = instruction_memory
  BY DEF Edge
<1>3. ~Real(ZeroWord)
  BY DEF Real, ZeroWord
<1>4. CASE STALL
  <2>1. ~FLUSH
    BY <1>4, FlushNoStall
  <2>2. /\ UNCHANGED <<ir, PC_USED, if_id_q>>
        /\ id_ex_q'.ir = id_ex_q.ir /\ id_ex_q'.PC = id_ex_q.PC
    BY <1>4, <2>1, EdgeIdEx, CapturedOperands, CapturedPC
  <2>3. QED BY <1>1, <1>2, <2>2 DEF FetchOrder, Fetch
<1>5. CASE ~STALL
  <2>1. ir' = Fetch(PC) /\ PC_USED' = PC
    BY <1>1, <1>5, FetchGoesOn
  <2>2. CASE FLUSH
    <3>1. if_id_q'.ir = ZeroWord /\ id_ex_q'.ir = ZeroWord
      BY <2>2, EdgeIdEx DEF IfId0, IdEx0
    <3>2. QED BY <1>2, <1>3, <2>1, <3>1 DEF Fetch
  <2>3. CASE ~FLUSH
    <3>1. PC_USED' = Add(PC_USED, 4)
      BY <1>5, <2>1, <2>3, SequentialFetch
    <3>2. /\ if_id_q'.ir = ir /\ if_id_q'.PC = PC_USED
          /\ id_ex_q'.ir = if_id_q.ir /\ id_ex_q'.PC = if_id_q.PC
      BY <1>5, <2>3, EdgeIdEx
    <3>3. ir = Fetch(PC_USED) /\ Real(ir)
      BY <1>1, FetchIsKnown DEF FetchOrder, TypeOK
    <3>4. QED BY <1>1, <1>2, <2>1, <3>1, <3>2, <3>3 DEF FetchOrder, Fetch
  <2>4. QED BY <2>2, <2>3
<1>6. QED BY <1>4, <1>5

(* A trap finds two words behind it, which it flushes, and fetches the     *)
(* third, which does nothing; then the fetch is frozen.                    *)
LEMMA TrapIsLastStep ==
  ASSUME Assumptions, CoreInv, Edge
  PROVE  TrapIsLast'
<1> USE DEF CoreInv, OperandInv
<1> SUFFICES ASSUME Trapped'
             PROVE  /\ ~WritesReg' /\ Quiet(ir') /\ Quiet(if_id_q'.ir)
                    /\ Inert(id_ex_q'.ctl, id_ex_q'.ir)
  BY DEF TrapIsLast, Quiet, Inert, Real, Decode
<1>1. Quiet(ZeroWord) /\ Inert(ZeroControl, ZeroWord)
  BY DEF Quiet, Real, Inert, ZeroWord, ZeroControl
<1>2. CASE Trapped
  <2>1. ~FLUSH /\ freeze
    BY <1>2, InertGoesOn DEF TrapIsLast, Trapped, freeze
  <2>2. ~WritesReg'
    <3>1. CASE ex_mem_q' = ExMem0
      BY <3>1 DEF WritesReg, ExMem0
    <3>2. CASE ex_mem_q' # ExMem0
      BY <1>2, <3>2, EdgeExMem DEF TrapIsLast, WritesReg, Inert
    <3>3. QED BY <3>1, <3>2
  <2>3. CASE STALL
    BY <1>2, <2>1, <2>2, <2>3, EdgeIdEx, CapturedOperands DEF TrapIsLast
  <2>4. CASE ~STALL
    <3>1. ir' = ZeroWord
      BY <2>1, <2>4, FreezeStopsFetch
    <3>2. PICK c \in ControlOf(if_id_q.ir) :
            /\ id_ex_q'.ctl = c /\ id_ex_q'.ir = if_id_q.ir /\ if_id_q'.ir = ir
      BY <2>1, <2>4, EdgeIdEx
    <3>3. Inert(c, if_id_q.ir)
      <4>1. CASE Real(if_id_q.ir)
        <5>1. c = Decode(if_id_q.ir)
          BY <4>1 DEF TypeOK, ControlOf, Instr, Real
        <5>2. QED BY <1>2, <4>1, <5>1 DEF TrapIsLast, Quiet
      <4>2. CASE ~Real(if_id_q.ir)
        <5>1. if_id_q.ir = ZeroWord /\ c \in UnknownControl
          BY <4>2 DEF SlotsDecoded, ControlOf, Real, Opcode
        <5>2. QED BY <5>1 DEF Assumptions, RefinementAssumptions, InertUnknowns
      <4>3. QED BY <4>1, <4>2
    <3>4. QED BY <1>1, <1>2, <2>2, <3>1, <3>2, <3>3 DEF TrapIsLast
  <2>5. QED BY <2>3, <2>4
<1>3. CASE ~Trapped
  <2>1. ~STALL /\ id_ex_q.ctl.system_call
    BY <1>3, TrappedStep
  <2>2. FLUSH
    BY <2>1 DEF FLUSH, HazardFlush
  <2>3. Real(id_ex_q.ir) /\ id_ex_q.ctl = Decode(id_ex_q.ir)
    BY <2>1, ControlInEX DEF Inert
  <2>4. PC = Add(PC_USED, 4)
    BY <2>1, <2>3 DEF PC, PC_SEL, SelectPC, Decode
  <2>5. ir' = Fetch(Add(Add(Add(id_ex_q.PC, 4), 4), 4)) /\ id_ex_q.ir = Fetch(id_ex_q.PC)
    BY <1>3, <2>1, <2>3, <2>4, FetchGoesOn DEF FetchOrder
  <2>6. Quiet(ir')
    BY <2>1, <2>3, <2>5 DEF Assumptions, RefinementAssumptions, QuietBehindTraps, Fetch, TypeOK, IdEx
  <2>7. if_id_q'.ir = ZeroWord /\ id_ex_q'.ir = ZeroWord /\ id_ex_q'.ctl = ZeroControl
    BY <2>2, EdgeIdEx DEF IfId0, IdEx0
  <2>8. ~WritesReg'
    BY <2>1, EdgeExMem, IdExFacts DEF WritesReg, ExMem0
  <2>9. QED BY <1>1, <2>6, <2>7, <2>8
<1>4. QED BY <1>2, <1>3

-----------------------------------------------------------------------------
(* The invariant, with the type of the data memory.                        *)
TypedCoreInv == CoreInv /\ dmem \in DataMemories

LEMMA CoreInvInit ==
  ASSUME Assumptions, CoreInit
  PROVE  TypedCoreInv
<1>1. OperandInv
  BY InitOperandInv, DataAssumption DEF CoreInit
<1>2. ~Trapped /\ ~Real(ZeroWord)
  BY DEF CoreInit, InitFlops, ExMem0, MemWb0, Trapped, Real, ZeroWord
<1>3. FetchOrder
  BY <1>2 DEF FetchOrder, CoreInit, InitFlops, IfId0, IdEx0
<1>4. TrapIsLast
  BY <1>2 DEF TrapIsLast
<1>5. QED
  BY <1>1, <1>3, <1>4
  DEF TypedCoreInv, CoreInv, CoreInit, Assumptions, MemoryTyped

(* The data bus, as the core sees it at an edge.                           *)
LEMMA BusStep ==
  ASSUME Assumptions, TypeOK, dmem \in DataMemories, BusRead, BusWrite
  PROVE  DATA_IN' \in Word /\ dmem' \in DataMemories
<1>1. DATA_ADDRESS \in Word /\ DATA_OUT \in Word /\ mem_data \in 0 .. 7
  BY WireTypes DEF DATA_ADDRESS, DATA_OUT, mem_data, TypeOK, IdEx, Instr
<1>2. QED
  BY <1>1, DataAssumption DEF BusRead, BusWrite, Assumptions, MemoryTyped

LEMMA CoreInvStep ==
  ASSUME Assumptions, TypedCoreInv, [CoreNext]_coreVars
  PROVE  TypedCoreInv'
<1> USE DEF TypedCoreInv, CoreInv
<1>1. CASE CoreNext
  <2>1. DATA_IN' \in Word /\ dmem' \in DataMemories
    BY <1>1, BusStep DEF CoreNext, OperandInv
  <2>2. OperandInv'
    BY <1>1, <2>1, EdgeOperandInv DEF CoreNext
  <2>3. QED
    BY <1>1, <2>1, <2>2, FetchOrderStep, TrapIsLastStep DEF CoreNext
<1>2. CASE UNCHANGED coreVars
  <2> USE <1>2 DEF coreVars, vars, flops
  <2>1. OperandInv'
    BY DEF OperandInv, TypeOK, SlotsDecoded, MemWrites, WritesReg, TrapShadow,
       FrozenSpacing, Frozen, WriteBackCoherent, HeldOperands, HeldCurrent, RegRead
  <2>2. FetchOrder' /\ TrapIsLast'
    BY DEF FetchOrder, TrapIsLast, Trapped, Fetch, WritesReg
  <2>3. QED
    BY <2>1, <2>2
<1>3. QED
  BY <1>1, <1>2

-----------------------------------------------------------------------------
(* A register, as the sequential machine sees it, changes when an          *)
(* instruction that writes it leaves EX.                                   *)
LEMMA ArchRegStep ==
  ASSUME TypeOK, Edge, NEW r \in RegAddr
  PROVE  /\ r = 0 => ArchReg(r)' = 0 /\ ArchReg(r) = 0
         /\ r # 0 /\ WritesInMEM(r)' => ArchReg(r)' = write_data'
         /\ r # 0 /\ ~WritesInMEM(r)' => ArchReg(r)' = ArchReg(r)
BY EdgeRegister DEF ArchReg

LEMMA NoWriteKeepsX ==
  ASSUME TypeOK, Edge, ~WritesReg'
  PROVE  UNCHANGED [r \in RegAddr |-> ArchReg(r)]
<1>1. ASSUME NEW r \in RegAddr
      PROVE  ArchReg(r)' = ArchReg(r)
  BY <1>1, ArchRegStep DEF WritesReg, WritesInMEM
<1>2. QED BY <1>1

(* What leaves EX for register rd, with value v.                           *)
LEMMA WriteSetsX ==
  ASSUME TypeOK, Edge, NEW rd \in RegAddr, ex_mem_q'.RF_WE,
         ex_mem_q'.reg_write_addr = rd
  PROVE  [r \in RegAddr |-> ArchReg(r)]' =
           [[r \in RegAddr |-> ArchReg(r)] EXCEPT
              ![rd] = IF rd = 0 THEN 0 ELSE write_data']
<1>1. ASSUME NEW r \in RegAddr
      PROVE  ArchReg(r)' = IF r = rd THEN IF rd = 0 THEN 0 ELSE write_data'
                           ELSE ArchReg(r)
  BY <1>1, ArchRegStep DEF WritesInMEM
<1>2. QED BY <1>1

-----------------------------------------------------------------------------
(* A stall, an unused slot in EX and a trapped core are invisible.         *)
LEMMA StallIsInvisible ==
  ASSUME TypedCoreInv, CoreNext, STALL
  PROVE  UNCHANGED ISA!archVars
<1> USE DEF TypedCoreInv, CoreInv, OperandInv, CoreNext
<1>1. ~FLUSH
  BY FlushNoStall
<1>2. /\ UNCHANGED <<PC_USED, if_id_q, instruction_memory>>
      /\ id_ex_q'.ir = id_ex_q.ir /\ id_ex_q'.PC = id_ex_q.PC
      /\ ex_mem_q' = ExMem0
  BY <1>1, EdgeIdEx, CapturedOperands, CapturedPC DEF Edge
<1>3. Trapped' <=> Trapped
  BY TrappedStep
<1>4. ArchPC' = ArchPC
  BY <1>2, <1>3 DEF ArchPC, Real
<1>5. UNCHANGED [r \in RegAddr |-> ArchReg(r)]
  BY <1>2, NoWriteKeepsX DEF WritesReg, ExMem0
<1>6. dmem' = dmem
  BY DEF BusWrite, IOBUS_WE
<1>7. QED
  BY <1>2, <1>4, <1>5, <1>6 DEF ISA!archVars

(* An instruction in EX that does nothing reaches MEM without effect.      *)
LEMMA InertIsInvisible ==
  ASSUME TypedCoreInv, CoreNext, ~STALL, Inert(id_ex_q.ctl, id_ex_q.ir)
  PROVE  UNCHANGED <<instruction_memory, [r \in RegAddr |-> ArchReg(r)], dmem>>
<1> USE DEF TypedCoreInv, CoreInv, OperandInv, CoreNext
<1>1. ~WritesReg'
  BY EdgeExMem DEF Inert, WritesReg, ExMem0
<1>2. dmem' = dmem
  BY InertGoesOn DEF BusWrite
<1>3. QED
  BY <1>1, <1>2, NoWriteKeepsX DEF Edge

LEMMA TrappedIsInvisible ==
  ASSUME TypedCoreInv, CoreNext, ~STALL, Trapped
  PROVE  UNCHANGED ISA!archVars
<1> USE DEF TypedCoreInv, CoreInv, OperandInv, CoreNext
<1>1. Trapped'
  BY TrappedStep
<1>2. ArchPC' = ArchPC
  BY <1>1 DEF ArchPC
<1>3. QED
  BY <1>2, InertIsInvisible DEF ISA!archVars, TrapIsLast

LEMMA UnusedSlotIsInvisible ==
  ASSUME Assumptions, TypedCoreInv, CoreNext, ~STALL, ~Trapped, ~Real(id_ex_q.ir)
  PROVE  UNCHANGED ISA!archVars
<1> USE DEF TypedCoreInv, CoreInv, OperandInv, CoreNext
<1>1. Inert(id_ex_q.ctl, id_ex_q.ir)
  BY ControlInEX
<1>2. ~FLUSH
  BY <1>1, InertGoesOn
<1>3. ~Trapped'
  BY <1>1, TrappedStep DEF Inert
<1>4. /\ if_id_q' = [PC |-> PC_USED, ir |-> ir]
      /\ id_ex_q'.ir = if_id_q.ir /\ id_ex_q'.PC = if_id_q.PC
  BY <1>2, EdgeIdEx
<1>5. Real(ir)
  BY FetchIsKnown DEF FetchOrder, TypeOK
<1>6. ArchPC' = ArchPC
  BY <1>3, <1>4, <1>5 DEF ArchPC, Real
<1>7. QED
  BY <1>1, <1>6, InertIsInvisible DEF ISA!archVars

-----------------------------------------------------------------------------
(* The instruction that leaves EX is the sequential machine's next, decoded*)
(* and with the operands the machine would read.                           *)
Executes == /\ Assumptions /\ TypedCoreInv /\ CoreNext
            /\ ~STALL /\ ~Trapped /\ Real(id_ex_q.ir)

LEMMA CurrentInEX ==
  ASSUME Executes
  PROVE  /\ ArchPC = id_ex_q.PC /\ ArchPC \in Word /\ ArchPC # ISA!Halted
         /\ ISA!Current = id_ex_q.ir
         /\ id_ex_q.ir \in Instr /\ id_ex_q.ir.op \in Opcode
         /\ id_ex_q.ctl = Decode(id_ex_q.ir)
         /\ id_ex_q.ctl.rs1_used => real_rs1 = ISA!A
         /\ id_ex_q.ctl.rs2_used => real_rs2 = ISA!B
<1> USE DEF Executes, TypedCoreInv, CoreInv, OperandInv
<1>1. /\ id_ex_q.PC \in Word /\ id_ex_q.ir \in Instr
      /\ id_ex_q.ir.rs1 \in RegAddr /\ id_ex_q.ir.rs2 \in RegAddr
  BY DEF TypeOK, IdEx, Instr
<1>2. ArchPC = id_ex_q.PC /\ ArchPC # ISA!Halted
  BY <1>1 DEF ArchPC, ISA!Halted, Word
<1>3. ISA!Current = id_ex_q.ir
  BY <1>2 DEF ISA!Current, FetchOrder, Fetch, FetchFrom
<1>4. OperandsCurrent
  BY InvOperandsCurrent
<1>5. QED
  BY <1>1, <1>2, <1>3, <1>4, ControlInEX
  DEF OperandsCurrent, ISA!A, ISA!B, Real, Instr

(* Where the machine goes next: to the following word or, when the two     *)
(* stages behind are flushed, to the address the PC mux selects.           *)
LEMMA NextArchPC ==
  ASSUME Executes
  PROVE  /\ id_ex_q.ctl.system_call => ArchPC' = ISA!Halted
         /\ ~id_ex_q.ctl.system_call /\ ~FLUSH => ArchPC' = Add(ArchPC, 4)
         /\ ~id_ex_q.ctl.system_call /\ FLUSH => ArchPC' = PC
<1> USE DEF Executes, TypedCoreInv, CoreInv, OperandInv, CoreNext
<1>1. Trapped' <=> id_ex_q.ctl.system_call
  BY TrappedStep
<1>2. ArchPC = id_ex_q.PC
  BY DEF ArchPC
<1>3. CASE id_ex_q.ctl.system_call
  BY <1>1, <1>3 DEF ArchPC, ISA!Halted
<1>4. CASE ~id_ex_q.ctl.system_call /\ ~FLUSH
  <2>1. id_ex_q'.ir = if_id_q.ir /\ id_ex_q'.PC = if_id_q.PC
    BY <1>4, EdgeIdEx
  <2>2. QED
    BY <1>1, <1>2, <1>4, <2>1 DEF ArchPC, Real, FetchOrder
<1>5. CASE ~id_ex_q.ctl.system_call /\ FLUSH
  <2>1. if_id_q'.ir = ZeroWord /\ id_ex_q'.ir = ZeroWord
    BY <1>5, EdgeIdEx DEF IfId0, IdEx0
  <2>2. PC_USED' = PC
    BY FetchGoesOn
  <2>3. QED
    BY <1>1, <1>5, <2>1, <2>2 DEF ArchPC, Real, ZeroWord
<1>6. QED
  BY <1>3, <1>4, <1>5

(* What the machine writes to rd: by the write-back mux, an edge later.    *)
LEMMA NextArchX ==
  ASSUME Executes
  PROVE  /\ id_ex_q.ctl.RF_WE /\ id_ex_q.ctl.RF_SEL = "PC4"
              => ISA!Result2Rd(Add(ArchPC, 4))
         /\ id_ex_q.ctl.RF_WE /\ id_ex_q.ctl.RF_SEL = "ALU"
              => ISA!Result2Rd(ALU_result)
         /\ id_ex_q.ctl.RF_WE /\ id_ex_q.ctl.RF_SEL = "DATA_IN"
              => ISA!Result2Rd(DATA_IN')
         /\ ~id_ex_q.ctl.RF_WE => UNCHANGED [r \in RegAddr |-> ArchReg(r)]
<1> USE DEF Executes, TypedCoreInv, CoreInv, OperandInv, CoreNext
<1>1. /\ ex_mem_q'.PC = id_ex_q.PC /\ ex_mem_q'.ALU_result = ALU_result
      /\ (ex_mem_q'.RF_WE <=> id_ex_q.ctl.RF_WE)
      /\ ex_mem_q'.RF_SEL = id_ex_q.ctl.RF_SEL
      /\ ex_mem_q'.reg_write_addr = id_ex_q.ir.rd
  BY DEF Edge, LatchExMem
<1>2. CASE ~id_ex_q.ctl.RF_WE
  BY <1>1, <1>2, NoWriteKeepsX DEF WritesReg
<1>3. CASE id_ex_q.ctl.RF_WE
  <2>1. ISA!Result2Rd(write_data')
    <3>1. ISA!Current = id_ex_q.ir /\ id_ex_q.ir.rd \in RegAddr
      BY CurrentInEX DEF Instr
    <3>2. QED
      BY <1>1, <1>3, <3>1, WriteSetsX DEF ISA!Result2Rd
  <2>2. /\ id_ex_q.ctl.RF_SEL = "PC4" => write_data' = Add(ArchPC, 4)
        /\ id_ex_q.ctl.RF_SEL = "ALU" => write_data' = ALU_result
        /\ id_ex_q.ctl.RF_SEL = "DATA_IN" => write_data' = DATA_IN'
    BY <1>1, CurrentInEX DEF write_data, Add
  <2>3. QED
    BY <1>3, <2>1, <2>2
<1>4. QED
  BY <1>2, <1>3

(* The decoder, output by output: what c enables and selects for word i.   *)
Enables(c, i) ==
  /\ c.RF_WE <=> i.op \in {"LUI", "AUIPC", "JAL", "JALR", "LOAD", "OP_IMM", "OP"}
  /\ c.memWE <=> i.op = "STORE"
  /\ c.memRDEN <=> i.op = "LOAD"
  /\ c.branch_i <=> i.op = "BRANCH"
  /\ c.jal_i <=> i.op = "JAL"
  /\ c.jalr_i <=> i.op = "JALR"
  /\ c.rs1_used <=> i.op \in {"JALR", "LOAD", "OP_IMM", "OP", "STORE", "BRANCH"}
  /\ c.rs2_used <=> i.op \in {"OP", "STORE", "BRANCH"}
  /\ c.system_call <=> i.op = "SYSTEM" /\ i.func3 = 0
Selects(c, i) ==
  /\ i.op = "LUI" => c.ALU_FUN = "LUI_COPY"
  /\ i.op = "OP_IMM" => c.ALU_FUN = AluFun(i.func3, i.ir30)
  /\ i.op = "OP" => c.ALU_FUN = IF i.func3 = 0 /\ i.ir30 THEN "SUB"
                                ELSE AluFun(i.func3, i.ir30)
  /\ i.op \in {"AUIPC", "LOAD", "STORE"} => c.ALU_FUN = "ADD"
  /\ c.srcA_SEL = "U_TYPE" <=> i.op \in {"LUI", "AUIPC", "JAL"}
  /\ i.op = "AUIPC" => c.srcB_SEL = "PC"
  /\ i.op \in {"LOAD", "OP_IMM"} => c.srcB_SEL = "I_TYPE"
  /\ i.op = "STORE" => c.srcB_SEL = "S_TYPE"
  /\ i.op \in {"LUI", "OP"} => c.srcB_SEL = "rs2"
  /\ i.op \in {"LUI", "AUIPC", "OP_IMM", "OP"} => c.RF_SEL = "ALU"
  /\ i.op = "LOAD" => c.RF_SEL = "DATA_IN"
  /\ i.op \in {"JAL", "JALR"} => c.RF_SEL = "PC4"

LEMMA ControlFields ==
  ASSUME Executes
  PROVE  /\ Enables(id_ex_q.ctl, id_ex_q.ir)
         /\ Selects(id_ex_q.ctl, id_ex_q.ir)
<1>1. ASSUME NEW i
      PROVE  Enables(Decode(i), i)
  BY Zenon DEF Enables, Decode
<1>2. ASSUME NEW i
      PROVE  Selects(Decode(i), i)
  BY DEF Selects, Decode
<1>3. QED BY <1>1, <1>2, CurrentInEX

(* What an instruction other than a store leaves alone.                    *)
LEMMA NoStoreKeepsMemory ==
  ASSUME Executes
  PROVE  /\ instruction_memory' = instruction_memory
         /\ id_ex_q.ir.op # "STORE" => dmem' = dmem
<1>1. id_ex_q.ir.op # "STORE" => ~IOBUS_WE
  BY ControlFields DEF Enables, IOBUS_WE
<1>2. QED BY <1>1 DEF Executes, CoreNext, Edge, BusWrite

(* An instruction that redirects nothing goes on to the following word.    *)
LEMMA GoesOn ==
  ASSUME Executes, ~FLUSH, ~id_ex_q.ctl.system_call
  PROVE  ISA!PcPlus4
BY NextArchPC DEF ISA!PcPlus4, ISA!Add, Add

LEMMA PlainGoesOn ==
  ASSUME Executes, id_ex_q.ir.op \notin {"JAL", "JALR", "BRANCH", "SYSTEM"}
  PROVE  ISA!PcPlus4
<1>1. ~FLUSH /\ ~id_ex_q.ctl.system_call
  BY ControlFields DEF Enables, FLUSH, HazardFlush
<1>2. QED BY <1>1, GoesOn

(* The operations the decoder selects are RV32I's.                         *)
LEMMA DecodedOperation ==
  ASSUME NEW i \in Instr
  PROVE  AluFun(i.func3, i.ir30) = ISA!ImmOperation(i)
<1>1. i.func3 \in 0 .. 7
  BY DEF Instr
<1>2. QED
  BY <1>1 DEF AluFun, ISA!ImmOperation, ISA!Operation

(* What a step of the machine reads, in terms of the wires of EX.          *)
LEMMA WiresInEX ==
  ASSUME Executes
  PROVE  /\ real_rs1 \in Word /\ real_rs2 \in Word /\ ArchPC \in Word
         /\ id_ex_q.ir.imm \in Word /\ id_ex_q.ir.U_Type \in Word
         /\ id_ex_q.ir.func3 \in 0 .. 7
         /\ AluAddsAndCopies /\ ~RST /\ ~STALL
  BY WireTypes, CurrentInEX
  DEF Instr, Executes, Assumptions, RefinementAssumptions, TypedCoreInv, CoreInv, OperandInv

(* The instructions that write what the ALU computes.                      *)
LEMMA ComputeStep ==
  ASSUME Executes, id_ex_q.ir.op \in {"LUI", "AUIPC", "OP_IMM", "OP"}
  PROVE  ISA!Lui \/ ISA!Auipc \/ ISA!OpImm \/ ISA!Op
<1> DEFINE i == id_ex_q.ir
<1>1. /\ i \in Instr /\ ISA!Current = i
      /\ ArchPC = id_ex_q.PC /\ ArchPC \in Word /\ ArchPC # ISA!Halted
  BY CurrentInEX
<1>2. ISA!PcPlus4 /\ UNCHANGED <<instruction_memory, dmem>>
  BY PlainGoesOn, NoStoreKeepsMemory
<1>3. ISA!Result2Rd(ALU_result)
  BY NextArchX, ControlFields DEF Enables, Selects
<1>4. CASE i.op = "LUI"
  <2>1. ALU_result = i.U_Type
    BY <1>4, ControlFields, WiresInEX
    DEF Selects, ALU_result, srcA, srcB, AluAddsAndCopies
  <2>2. QED BY <1>1, <1>2, <1>3, <1>4, <2>1 DEF ISA!Lui, ISA!Fetched
<1>5. CASE i.op = "AUIPC"
  <2>1. ALU_result = Add(i.U_Type, ArchPC)
    BY <1>1, <1>5, ControlFields, WiresInEX
    DEF Selects, ALU_result, srcA, srcB, AluAddsAndCopies
  <2>2. Add(i.U_Type, ArchPC) = ISA!Add(ArchPC, i.U_Type)
    BY WiresInEX DEF Add, ISA!Add, Word
  <2>3. QED BY <1>1, <1>2, <1>3, <1>5, <2>1, <2>2 DEF ISA!Auipc, ISA!Fetched
<1>6. CASE i.op = "OP_IMM"
  <2>1. id_ex_q.ctl.ALU_FUN = ISA!ImmOperation(i)
    BY <1>1, <1>6, ControlFields, DecodedOperation DEF Selects
  <2>2. srcA = ISA!A /\ srcB = i.imm
    BY <1>6, ControlFields, CurrentInEX DEF Enables, Selects, srcA, srcB
  <2>3. QED
    BY <1>1, <1>2, <1>3, <1>6, <2>1, <2>2 DEF ALU_result, ISA!OpImm, ISA!Fetched
<1>7. CASE i.op = "OP"
  <2>1. id_ex_q.ctl.ALU_FUN = ISA!RegOperation(i)
    BY <1>1, <1>7, ControlFields, DecodedOperation DEF Selects, ISA!RegOperation
  <2>2. srcA = ISA!A /\ srcB = ISA!B
    BY <1>7, ControlFields, CurrentInEX DEF Enables, Selects, srcA, srcB
  <2>3. QED
    BY <1>1, <1>2, <1>3, <1>7, <2>1, <2>2 DEF ALU_result, ISA!Op, ISA!Fetched
<1>8. QED BY <1>4, <1>5, <1>6, <1>7

(* The address both loads and stores put on the bus.                       *)
LEMMA BusAddress ==
  ASSUME Executes, id_ex_q.ir.op \in {"LOAD", "STORE"}
  PROVE  DATA_ADDRESS = ISA!Add(ISA!A, id_ex_q.ir.imm)
<1>1. srcA = ISA!A /\ srcA \in Word /\ srcB = id_ex_q.ir.imm
  BY ControlFields, CurrentInEX, WiresInEX DEF Enables, Selects, srcA, srcB
<1>2. ALU_result = Add(srcA, srcB)
  BY <1>1, ControlFields, WiresInEX DEF Selects, ALU_result, AluAddsAndCopies
<1>3. QED
  BY <1>1, <1>2 DEF DATA_ADDRESS, Add, ISA!Add

LEMMA LoadStep ==
  ASSUME Executes, id_ex_q.ir.op = "LOAD"
  PROVE  ISA!Load
<1>1. DATA_IN' = MemRead(dmem, ISA!Add(ISA!A, id_ex_q.ir.imm), id_ex_q.ir.func3)
  BY BusAddress, ControlFields
  DEF Enables, Executes, CoreNext, BusRead, IOBUS_RDEN, mem_data
<1>2. ISA!Result2Rd(DATA_IN')
  BY NextArchX, ControlFields DEF Enables, Selects
<1>3. ISA!PcPlus4 /\ UNCHANGED <<instruction_memory, dmem>>
  BY PlainGoesOn, NoStoreKeepsMemory
<1>4. QED
  BY <1>1, <1>2, <1>3, CurrentInEX DEF ISA!Load, ISA!Fetched

LEMMA StoreStep ==
  ASSUME Executes, id_ex_q.ir.op = "STORE"
  PROVE  ISA!Store
<1>1. DATA_OUT = ISA!B
  BY ControlFields, CurrentInEX DEF Enables, DATA_OUT
<1>2. dmem' = MemWrite(dmem, ISA!Add(ISA!A, id_ex_q.ir.imm), ISA!B, id_ex_q.ir.func3)
  BY <1>1, BusAddress, ControlFields
  DEF Enables, Executes, CoreNext, BusWrite, IOBUS_WE, mem_data
<1>3. UNCHANGED <<instruction_memory, [r \in RegAddr |-> ArchReg(r)]>>
  BY NextArchX, NoStoreKeepsMemory, ControlFields DEF Enables
<1>4. ISA!PcPlus4
  BY PlainGoesOn
<1>5. QED
  BY <1>2, <1>3, <1>4, CurrentInEX DEF ISA!Store, ISA!Fetched

(* A jump flushes the two stages behind it and fetches its target.         *)
LEMMA JumpStep ==
  ASSUME Executes, id_ex_q.ir.op \in {"JAL", "JALR"}
  PROVE  ISA!Jal \/ ISA!Jalr
<1>1. /\ ISA!Current = id_ex_q.ir /\ ArchPC = id_ex_q.PC
      /\ ArchPC # ISA!Halted
  BY CurrentInEX
<1>2. ISA!Result2Rd(ISA!Add(ArchPC, 4))
  BY NextArchX, ControlFields DEF Enables, Selects, Add, ISA!Add
<1>3. UNCHANGED <<instruction_memory, dmem>>
  BY NoStoreKeepsMemory
<1>4. ArchPC' = PC
  BY NextArchPC, ControlFields, WiresInEX DEF Enables, FLUSH, HazardFlush
<1>5. CASE id_ex_q.ir.op = "JAL"
  <2>1. PC = ISA!Add(ArchPC, id_ex_q.ir.imm)
    BY <1>1, <1>5, ControlFields, WiresInEX
    DEF Enables, PC, PC_SEL, SelectPC, jal, Add, ISA!Add
  <2>2. QED BY <1>1, <1>2, <1>3, <1>4, <1>5, <2>1 DEF ISA!Jal, ISA!Fetched
<1>6. CASE id_ex_q.ir.op = "JALR"
  <2>1. PC_SEL = "JALR" /\ real_rs1 = ISA!A
    BY <1>6, ControlFields, CurrentInEX DEF Enables, PC_SEL, SelectPC
  <2>2. PC = ClearBit0(Add(id_ex_q.ir.imm, real_rs1))
    BY <2>1, WiresInEX DEF PC, jalr
  <2>3. Add(id_ex_q.ir.imm, real_rs1) = ISA!Add(ISA!A, id_ex_q.ir.imm)
    BY <2>1, WiresInEX DEF Add, ISA!Add, Word
  <2>4. QED
    BY <1>1, <1>2, <1>3, <1>4, <1>6, <2>2, <2>3
    DEF ISA!Jalr, ISA!Fetched, ClearBit0
<1>7. QED BY <1>5, <1>6

LEMMA BranchStep ==
  ASSUME Executes, id_ex_q.ir.op = "BRANCH"
  PROVE  ISA!Branch
<1> DEFINE taken == BranchTaken(id_ex_q.ir.func3, real_rs1, real_rs2)
<1>1. /\ ISA!Current = id_ex_q.ir /\ ArchPC = id_ex_q.PC
      /\ ArchPC # ISA!Halted /\ real_rs1 = ISA!A /\ real_rs2 = ISA!B
  BY CurrentInEX, ControlFields DEF Enables
<1>2. UNCHANGED <<instruction_memory, dmem, [r \in RegAddr |-> ArchReg(r)]>>
  BY NextArchX, NoStoreKeepsMemory, ControlFields DEF Enables
<1>3. taken <=> ISA!Taken(id_ex_q.ir.func3, ISA!A, ISA!B)
  <2>1. Signed(real_rs1) \in Int /\ Signed(real_rs2) \in Int
    BY WiresInEX, WordAssumption DEF Signed, Word
  <2>2. ISA!Signed(real_rs1) = Signed(real_rs1) /\ ISA!Signed(real_rs2) = Signed(real_rs2)
    BY DEF ISA!Signed, Signed
  <2>3. QED
    BY <1>1, <2>1, <2>2, WiresInEX DEF BranchTaken, ISA!Taken, Word
<1>4. PC_SEL = IF taken THEN "BRANCH" ELSE "PC4"
  BY ControlFields DEF Enables, PC_SEL, SelectPC
<1>5. CASE taken
  <2>1. FLUSH /\ PC = ISA!Add(ArchPC, id_ex_q.ir.imm)
    BY <1>1, <1>4, <1>5, ControlFields, WiresInEX
    DEF Enables, FLUSH, HazardFlush, PC, branch, Add, ISA!Add
  <2>2. ArchPC' = ISA!Add(ArchPC, id_ex_q.ir.imm)
    BY <2>1, NextArchPC, ControlFields DEF Enables
  <2>3. QED BY <1>1, <1>2, <1>3, <1>5, <2>2 DEF ISA!Branch, ISA!Fetched
<1>6. CASE ~taken
  <2>1. ISA!PcPlus4
    BY <1>4, <1>6, GoesOn, ControlFields DEF Enables, FLUSH, HazardFlush
  <2>2. QED BY <1>1, <1>2, <1>3, <1>6, <2>1 DEF ISA!Branch, ISA!Fetched
<1>7. QED BY <1>5, <1>6

LEMMA SystemStep ==
  ASSUME Executes, id_ex_q.ir.op \in {"FENCE", "SYSTEM"}
  PROVE  ISA!Nop \/ ISA!SystemCall
<1>1. ISA!Current = id_ex_q.ir /\ ArchPC # ISA!Halted
  BY CurrentInEX
<1>2. UNCHANGED <<instruction_memory, dmem, [r \in RegAddr |-> ArchReg(r)]>>
  BY NextArchX, NoStoreKeepsMemory, ControlFields DEF Enables
<1>3. CASE id_ex_q.ctl.system_call
  BY <1>1, <1>2, <1>3, NextArchPC, ControlFields
  DEF Enables, ISA!SystemCall, ISA!Fetched
<1>4. CASE ~id_ex_q.ctl.system_call
  <2>1. ISA!PcPlus4
    BY <1>4, GoesOn, ControlFields DEF Enables, FLUSH, HazardFlush
  <2>2. QED BY <1>1, <1>2, <1>4, <2>1, ControlFields
    DEF Enables, ISA!Nop, ISA!Fetched
<1>5. QED BY <1>3, <1>4

-----------------------------------------------------------------------------
(* One instruction of the sequential machine, or nothing it can see.       *)
LEMMA CoreStepRefines ==
  ASSUME Assumptions, TypedCoreInv, [CoreNext]_coreVars
  PROVE  ISA!ArchNext \/ UNCHANGED ISA!archVars
<1>1. CASE UNCHANGED coreVars
  BY <1>1 DEF coreVars, vars, flops, ISA!archVars, ArchPC, Trapped, Real,
     ArchReg, WritesInMEM, write_data, Add
<1>2. CASE CoreNext /\ STALL
  BY <1>2, StallIsInvisible
<1>3. CASE CoreNext /\ ~STALL /\ Trapped
  BY <1>3, TrappedIsInvisible
<1>4. CASE CoreNext /\ ~STALL /\ ~Trapped /\ ~Real(id_ex_q.ir)
  BY <1>4, UnusedSlotIsInvisible
<1>5. CASE CoreNext /\ ~STALL /\ ~Trapped /\ Real(id_ex_q.ir)
  <2>1. Executes
    BY <1>5 DEF Executes
  <2>2. id_ex_q.ir.op \in Opcode
    BY <2>1, CurrentInEX
  <2>3. QED
    BY <2>1, <2>2, ComputeStep, LoadStep, StoreStep, JumpStep, BranchStep,
       SystemStep DEF Opcode, ISA!ArchNext
<1>6. QED BY <1>1, <1>2, <1>3, <1>4, <1>5

LEMMA CoreInitRefines ==
  ASSUME CoreInit
  PROVE  ISA!ArchInit
<1> USE DEF CoreInit, InitFlops
<1>1. ~Trapped /\ ~Real(id_ex_q.ir) /\ ~Real(if_id_q.ir)
  BY DEF Trapped, Real, ExMem0, MemWb0, IdEx0, IfId0, ZeroWord
<1>2. ArchPC = 0
  BY <1>1 DEF ArchPC
<1>3. \A r \in RegAddr : ArchReg(r) = IF r = 0 THEN 0 ELSE registers[r]
  BY DEF ArchReg, WritesInMEM, ExMem0
<1>4. [r \in RegAddr |-> ArchReg(r)] =
        [r \in RegAddr |-> IF r = 0 THEN 0 ELSE registers[r]]
  BY <1>3
<1>5. QED
  BY <1>2, <1>4 DEF ISA!ArchInit, ISA!RegAddr, RegAddr

(* The pipeline implements RV32I: for every program of known instructions  *)
(* whose traps have a quiet third successor, every word size, ALU that     *)
(* adds and copies, inert don't-care and memory, what CPU_TOP does between *)
(* two edges is one instruction of the sequential machine or invisible.    *)
THEOREM PipelineImplementsISA ==
  ASSUME Assumptions
  PROVE  CoreSpec => ImplementsISA
<1>1. CoreInit => TypedCoreInv /\ ISA!ArchInit
  BY CoreInvInit, CoreInitRefines
<1>2. TypedCoreInv /\ [CoreNext]_coreVars
        => TypedCoreInv' /\ [ISA!ArchNext]_ISA!archVars
  BY CoreInvStep, CoreStepRefines
<1>3. QED
  BY <1>1, <1>2, PTL DEF CoreSpec, ImplementsISA, ISA!ArchSpec

(* For those programs the core does freeze on a trap: it is the word three *)
(* behind the trap, and nothing else, that can still change a register or  *)
(* the memory.                                                             *)
THEOREM QuietHaltFreezesState ==
  ASSUME Assumptions
  PROVE  CoreSpec => HaltFreezesState
<1>1. CoreInit => TypedCoreInv
  BY CoreInvInit
<1>2. TypedCoreInv /\ [CoreNext]_coreVars
        => [halt_sig => UNCHANGED <<registers, dmem>>]_coreVars
  <2> SUFFICES ASSUME TypedCoreInv, CoreNext, halt_sig
               PROVE  UNCHANGED <<registers, dmem>>
    OBVIOUS
  <2>1. ~WritesReg /\ Inert(id_ex_q.ctl, id_ex_q.ir)
    BY DEF TypedCoreInv, CoreInv, TrapIsLast, Trapped
  <2>2. registers' = registers
    BY <2>1 DEF CoreNext, Edge, WriteRegister, WritesReg
  <2>3. dmem' = dmem
    BY <2>1, InertGoesOn DEF CoreNext, BusWrite
  <2>4. QED BY <2>2, <2>3
<1>3. TypedCoreInv /\ [CoreNext]_coreVars => TypedCoreInv'
  BY CoreInvStep
<1>4. QED BY <1>1, <1>2, <1>3, PTL DEF CoreSpec, HaltFreezesState
=============================================================================
