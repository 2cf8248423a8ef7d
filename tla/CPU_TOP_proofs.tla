--------------------------- MODULE CPU_TOP_proofs ---------------------------
(***************************************************************************)
(* Proofs about CPU_TOP for every word size, register count, program, ALU  *)
(* and decoder don't-care.  One step lemma per conjunct of OperandInv, each*)
(* about Edge with any inputs, so that a module that composes CPU_TOP with *)
(* an environment can use them too.                                        *)
(***************************************************************************)
EXTENDS CPU_TOP, TLAPS

(* Addition stays within a word.                                           *)
LEMMA AddType == \A a \in Word : Add(a, 4) \in Word
                               /\ \A b \in Word : Add(a, b) \in Word
  BY WordAssumption DEF Add, Word

(* Clearing bit 0 stays within a word.                                     *)
LEMMA ClearBit0Type == \A a \in Word : ClearBit0(a) \in Word
  BY WordAssumption DEF ClearBit0, Word

(* The unused instruction and control words are typed.                     *)
LEMMA ZeroType == ZeroWord \in Instr /\ ZeroControl \in Control /\ 0 \in Word
                  /\ 0 \in RegAddr
  BY WordAssumption, RegAssumption
  DEF ZeroWord, ZeroControl, Instr, Control, Opcode, AluOp, Word, RegAddr

(* The decoder's func3 table selects an ALU operation.                     *)
LEMMA AluFunType ==
  ASSUME NEW func3 \in 0 .. 7, NEW alt \in BOOLEAN
  PROVE  AluFun(func3, alt) \in AluOp
  BY DEF AluFun, AluOp

(* What the decoder does with a known opcode.                              *)
LEMMA DecodeFacts ==
  ASSUME NEW i \in Instr, i.op \in Opcode
  PROVE  /\ Decode(i) \in Control
         /\ Decode(i).system_call => ~Decode(i).RF_WE
         /\ Decode(i).RF_WE =>
              \/ Decode(i).RF_SEL = "ALU" /\ ~Decode(i).memRDEN
              \/ Decode(i).RF_SEL = "DATA_IN" /\ Decode(i).memRDEN
              \/ Decode(i).RF_SEL = "PC4" /\ ~Decode(i).memRDEN
                 /\ (Decode(i).jal_i \/ Decode(i).jalr_i)
<1>1. i.func3 \in 0 .. 7 /\ i.ir30 \in BOOLEAN
  BY DEF Instr
<1>2. Decode(i).ALU_FUN \in AluOp
  BY <1>1, AluFunType DEF Decode, AluOp, Opcode
<1>3. Decode(i) \in Control
  BY <1>2 DEF Decode, Control
<1>4. QED
  BY <1>3 DEF Decode

(* The same of any instruction word: an unknown one does not trap.         *)
LEMMA ControlFacts ==
  ASSUME NEW i \in Instr, NEW c \in ControlOf(i)
  PROVE  /\ c \in Control
         /\ c.system_call => ~c.RF_WE
         /\ Real(i) /\ c.RF_WE =>
              \/ c.RF_SEL = "ALU" /\ ~c.memRDEN
              \/ c.RF_SEL = "DATA_IN" /\ c.memRDEN
              \/ c.RF_SEL = "PC4" /\ ~c.memRDEN /\ (c.jal_i \/ c.jalr_i)
<1>1. CASE i.op \in Opcode
  BY <1>1, DecodeFacts DEF ControlOf
<1>2. CASE i.op \notin Opcode
  BY <1>2, UnknownControlAssumption DEF ControlOf, Real, Instr
<1>3. QED
  BY <1>1, <1>2

(* TypeOK without the inputs.                                              *)
FlopTypes ==
  /\ instruction_memory \in Images
  /\ ir \in Instr
  /\ PC_USED \in Word
  /\ if_id_q \in [PC : Word, ir : Instr]
  /\ id_ex_q \in IdEx
  /\ ex_mem_q \in ExMem
  /\ mem_wb_q \in MemWb
  /\ registers \in [RegAddr -> Word]
  /\ halt_sig \in BOOLEAN

LEMMA TypesSplit == TypeOK <=> FlopTypes /\ RST \in BOOLEAN /\ DATA_IN \in Word
BY DEF TypeOK, FlopTypes

(* The wires are words.                                                    *)
LEMMA ForwardedType ==
  ASSUME FlopTypes, NEW addr, NEW used, NEW held \in Word
  PROVE  Forwarded(addr, used, held) \in Word
BY ZeroType DEF Forwarded, ForwardSel, FlopTypes, ExMem, MemWb

LEMMA OperandTypes ==
  ASSUME FlopTypes
  PROVE  real_rs1 \in Word /\ real_rs2 \in Word /\ ALU_result \in Word
<1>1. id_ex_q \in IdEx
  BY DEF FlopTypes
<1>2. real_rs1 \in Word /\ real_rs2 \in Word
  BY <1>1, ForwardedType DEF real_rs1, real_rs2, IdEx
<1>3. /\ id_ex_q.ir.imm \in Word /\ id_ex_q.ir.U_Type \in Word
      /\ id_ex_q.PC \in Word /\ id_ex_q.ctl \in Control
  BY <1>1 DEF IdEx, Instr
<1>4. srcA \in Word /\ srcB \in Word
  BY <1>2, <1>3 DEF srcA, srcB, Control
<1>5. QED BY <1>2, <1>3, <1>4, AluAssumption DEF ALU_result, Control

LEMMA WireTypes ==
  ASSUME TypeOK
  PROVE  /\ real_rs1 \in Word /\ real_rs2 \in Word
         /\ ALU_result \in Word
         /\ write_data \in Word
         /\ PC \in Word
<1>1. /\ id_ex_q \in IdEx /\ ex_mem_q \in ExMem /\ PC_USED \in Word
      /\ RST \in BOOLEAN /\ DATA_IN \in Word
  BY DEF TypeOK
<1>2. real_rs1 \in Word /\ real_rs2 \in Word /\ ALU_result \in Word
  BY OperandTypes, TypesSplit
<1>3. id_ex_q.ir.imm \in Word /\ id_ex_q.PC \in Word
  BY <1>1 DEF IdEx, Instr
<1>4. write_data \in Word
  <2>1. Add(ex_mem_q.PC, 4) \in Word
    BY <1>1, AddType DEF ExMem
  <2>2. QED
    BY <1>1, <2>1, DataAssumption DEF write_data, ExMem
<1>5. PC \in Word
  <2>1. jalr \in Word /\ branch \in Word /\ jal \in Word /\ Add(PC_USED, 4) \in Word
    BY <1>1, <1>2, <1>3, AddType, ClearBit0Type DEF jalr, branch, jal
  <2>2. PC_SEL \in {"PC4", "JALR", "BRANCH", "JAL"}
    BY DEF PC_SEL, SelectPC
  <2>3. QED
    BY <1>1, <2>1, <2>2, ZeroType DEF PC
<1>6. QED
  BY <1>2, <1>4, <1>5

(* The fetch reads a word of the image, the zero word if it is unknown.    *)
LEMMA FetchType ==
  ASSUME instruction_memory \in Images, NEW pc \in Word
  PROVE  /\ Fetch(pc) \in Instr
         /\ ~Real(Fetch(pc)) => Fetch(pc) = ZeroWord
<1>1. (pc \div 4) % IMEM_WORDS \in 0 .. IMEM_WORDS - 1
  BY ImemAssumption DEF Word
<1>2. QED
  BY <1>1, ImagesAssumption DEF Fetch, FetchFrom, Real

(* Type correctness is preserved by an edge, whatever the inputs become.   *)
LEMMA EdgeFlopTypes ==
  ASSUME TypeOK, Edge
  PROVE  FlopTypes'
<1> USE ZeroType
<1>1. instruction_memory' \in Images
  BY DEF TypeOK, Edge
<1>2. ir' \in Instr /\ PC_USED' \in Word
  BY WireTypes, FetchType DEF TypeOK, Edge, LatchFetch
<1>3. (if_id_q \in [PC : Word, ir : Instr])'
  BY DEF TypeOK, Edge, LatchIfId, IfId0
<1>4. (id_ex_q \in IdEx)'
  <2>1. IdEx0 \in IdEx
    BY DEF IdEx0, IdEx
  <2>2. \A r \in RegAddr : RegRead(r) \in Word
    BY DEF TypeOK, RegRead
  <2>3. id_ex_q \in IdEx /\ if_id_q.PC \in Word /\ if_id_q.ir \in Instr
    BY DEF TypeOK
  <2>4. if_id_q.ir.rs1 \in RegAddr /\ if_id_q.ir.rs2 \in RegAddr
    BY <2>3 DEF Instr
  <2>5. CASE id_ex_q' = IdEx0
    BY <2>1, <2>5
  <2>6. CASE id_ex_q' = [id_ex_q EXCEPT !.rs1 = real_rs1, !.rs2 = real_rs2]
    BY <2>3, <2>6, WireTypes DEF IdEx
  <2>7. ASSUME NEW c \in ControlOf(if_id_q.ir),
               id_ex_q' = [PC  |-> if_id_q.PC, ir |-> if_id_q.ir, ctl |-> c,
                           rs1 |-> RegRead(if_id_q.ir.rs1),
                           rs2 |-> RegRead(if_id_q.ir.rs2)]
        PROVE  (id_ex_q \in IdEx)'
    BY <2>2, <2>3, <2>4, <2>7, ControlFacts DEF IdEx
  <2>8. QED
    BY <2>5, <2>6, <2>7 DEF Edge, LatchIdEx
<1>5. (ex_mem_q \in ExMem)'
  <2>1. ExMem0 \in ExMem
    BY DEF ExMem0, ExMem
  <2>2. id_ex_q \in IdEx
    BY DEF TypeOK
  <2>3. QED
    BY <2>1, <2>2, WireTypes DEF Edge, LatchExMem, IdEx, Instr, Control, ExMem
<1>6. (mem_wb_q \in MemWb /\ halt_sig \in BOOLEAN)'
  <2>1. MemWb0 \in MemWb
    BY DEF MemWb0, MemWb
  <2>2. /\ ex_mem_q \in ExMem /\ mem_wb_q \in MemWb /\ halt_sig \in BOOLEAN
        /\ write_data \in Word
    BY WireTypes DEF TypeOK
  <2>3. [RF_WE |-> ex_mem_q.RF_WE, reg_write_addr |-> ex_mem_q.reg_write_addr,
         REG_write_data |-> write_data, trap |-> ex_mem_q.trap] \in MemWb
    BY <2>2 DEF ExMem, MemWb
  <2>4. QED
    BY <2>1, <2>2, <2>3 DEF Edge, LatchMemWb
<1>7. (registers \in [RegAddr -> Word])'
  BY WireTypes DEF TypeOK, Edge, WriteRegister, ExMem
<1>8. QED
  BY <1>1, <1>2, <1>3, <1>4, <1>5, <1>6, <1>7 DEF FlopTypes

LEMMA EdgeType ==
  ASSUME TypeOK, Edge, RST' \in BOOLEAN, DATA_IN' \in Word
  PROVE  TypeOK'
BY EdgeFlopTypes DEF TypeOK, FlopTypes

(* The state a reset leaves is typed.                                      *)
LEMMA InitType ==
  ASSUME InitFlops, RST \in BOOLEAN, DATA_IN \in Word
  PROVE  TypeOK
<1> USE ZeroType
<1>1. ir \in Instr
  BY FetchType DEF InitFlops
<1>2. if_id_q \in [PC : Word, ir : Instr] /\ id_ex_q \in IdEx
  BY DEF InitFlops, IfId0, IdEx0, IdEx
<1>3. ex_mem_q \in ExMem /\ mem_wb_q \in MemWb
  BY DEF InitFlops, ExMem0, ExMem, MemWb0, MemWb
<1>4. registers \in [RegAddr -> Word]
  BY DataAssumption DEF InitFlops
<1>5. QED
  BY <1>1, <1>2, <1>3, <1>4 DEF InitFlops, TypeOK

(* Every flip-flop of the core keeps its type, whatever is loaded, read    *)
(* from the bus, or done with RST.                                         *)
THEOREM TypeCorrect == Spec => []TypeOK
<1>1. Init => TypeOK
  BY InitType, DataAssumption DEF Init
<1>2. TypeOK /\ [Next]_vars => TypeOK'
  <2>1. CASE Next
    BY <2>1, EdgeType, DataAssumption DEF Next
  <2>2. CASE UNCHANGED vars
    BY <2>2 DEF TypeOK, vars, flops
  <2>3. QED
    BY <2>1, <2>2
<1>3. QED
  BY <1>1, <1>2, PTL DEF Spec

-----------------------------------------------------------------------------
(* The three ways an edge treats ID/EX.                                    *)
LEMMA EdgeIdEx ==
  ASSUME Edge
  PROVE  \/ /\ RST \/ FLUSH
            /\ if_id_q' = IfId0 /\ id_ex_q' = IdEx0
         \/ /\ ~RST /\ ~FLUSH /\ STALL
            /\ UNCHANGED <<ir, PC_USED, if_id_q>>
            /\ id_ex_q' = [id_ex_q EXCEPT !.rs1 = real_rs1, !.rs2 = real_rs2]
            /\ ex_mem_q' = ExMem0
         \/ /\ ~RST /\ ~FLUSH /\ ~STALL
            /\ if_id_q' = [PC |-> PC_USED, ir |-> ir]
            /\ \E c \in ControlOf(if_id_q.ir) :
                 id_ex_q' = [PC  |-> if_id_q.PC, ir |-> if_id_q.ir, ctl |-> c,
                             rs1 |-> RegRead(if_id_q.ir.rs1),
                             rs2 |-> RegRead(if_id_q.ir.rs2)]
BY DEF Edge, LatchFetch, LatchIfId, LatchIdEx, LatchExMem

(* A flush is never raised together with a stall.                          *)
LEMMA FlushNoStall == FLUSH => ~STALL
  BY DEF FLUSH, HazardFlush

(* A stall leaves the fields of ID/EX other than the operands alone.       *)
LEMMA CapturedOperands ==
  ASSUME TypeOK, id_ex_q' = [id_ex_q EXCEPT !.rs1 = real_rs1, !.rs2 = real_rs2]
  PROVE  /\ id_ex_q'.ir = id_ex_q.ir /\ id_ex_q'.ctl = id_ex_q.ctl
         /\ id_ex_q'.rs1 = real_rs1 /\ id_ex_q'.rs2 = real_rs2
BY DEF TypeOK, IdEx

(* An edge fetches, decodes, holds or clears; each leaves every slot with  *)
(* the zero word or a known instruction and ID/EX with its control word.   *)
LEMMA SlotsDecodedStep ==
  ASSUME TypeOK, SlotsDecoded, Edge
  PROVE  SlotsDecoded'
<1>1. Real(ir') \/ ir' = ZeroWord
  <2>1. CASE ir' = Fetch(PC)
    BY <2>1, FetchType, WireTypes DEF TypeOK
  <2>2. CASE ir' = ir
    BY <2>2 DEF SlotsDecoded
  <2>3. QED
    BY <2>1, <2>2 DEF Edge, LatchFetch
<1>2. CASE if_id_q' = IfId0 /\ id_ex_q' = IdEx0
  BY <1>1, <1>2 DEF SlotsDecoded, IfId0, IdEx0
<1>3. CASE /\ UNCHANGED if_id_q
           /\ id_ex_q' = [id_ex_q EXCEPT !.rs1 = real_rs1, !.rs2 = real_rs2]
  BY <1>1, <1>3, CapturedOperands DEF SlotsDecoded
<1>4. CASE /\ if_id_q' = [PC |-> PC_USED, ir |-> ir]
           /\ \E c \in ControlOf(if_id_q.ir) :
                id_ex_q' = [PC  |-> if_id_q.PC, ir |-> if_id_q.ir, ctl |-> c,
                            rs1 |-> RegRead(if_id_q.ir.rs1),
                            rs2 |-> RegRead(if_id_q.ir.rs2)]
  BY <1>1, <1>4 DEF SlotsDecoded
<1>5. QED
  BY <1>2, <1>3, <1>4, EdgeIdEx

(* What SlotsDecoded says of the instruction in EX: a register write is one*)
(* of three kinds, a trap writes nothing, an unused slot names only x0.    *)
LEMMA IdExFacts ==
  ASSUME TypeOK, SlotsDecoded
  PROVE  LET c == id_ex_q.ctl IN
         /\ c.system_call => ~c.RF_WE
         /\ c.RF_WE /\ id_ex_q.ir.rd # 0 =>
              \/ c.RF_SEL = "ALU" /\ ~c.memRDEN
              \/ c.RF_SEL = "DATA_IN" /\ c.memRDEN
              \/ c.RF_SEL = "PC4" /\ ~c.memRDEN /\ (c.jal_i \/ c.jalr_i)
         /\ ~Real(id_ex_q.ir) =>
              id_ex_q.ir.rd = 0 /\ id_ex_q.ir.rs1 = 0 /\ id_ex_q.ir.rs2 = 0
<1>1. id_ex_q.ir \in Instr
  BY DEF TypeOK, IdEx
<1>2. ~Real(id_ex_q.ir) =>
        id_ex_q.ir.rd = 0 /\ id_ex_q.ir.rs1 = 0 /\ id_ex_q.ir.rs2 = 0
  BY DEF SlotsDecoded, ZeroWord
<1>3. CASE id_ex_q.ctl \in ControlOf(id_ex_q.ir)
  BY <1>1, <1>2, <1>3, ControlFacts
<1>4. CASE id_ex_q.ir = ZeroWord /\ id_ex_q.ctl = ZeroControl
  BY <1>2, <1>4 DEF ZeroControl, ZeroWord
<1>5. QED
  BY <1>2, <1>3, <1>4 DEF SlotsDecoded

(* What reaches EX/MEM.                                                    *)
LEMMA EdgeExMem ==
  ASSUME Edge
  PROVE  \/ ex_mem_q' = ExMem0
         \/ /\ ~RST /\ ~STALL
            /\ (ex_mem_q'.RF_WE <=> id_ex_q.ctl.RF_WE)
            /\ (ex_mem_q'.memRDEN <=> id_ex_q.ctl.memRDEN)
            /\ ex_mem_q'.RF_SEL = id_ex_q.ctl.RF_SEL
            /\ ex_mem_q'.reg_write_addr = id_ex_q.ir.rd
            /\ (ex_mem_q'.trap <=> id_ex_q.ctl.system_call)
BY DEF Edge, LatchExMem

(* A jump or a trap that leaves EX flushes what is behind it.              *)
LEMMA MemWritesStep ==
  ASSUME TypeOK, SlotsDecoded, Edge
  PROVE  MemWrites'
<1>1. CASE ex_mem_q' = ExMem0
  BY <1>1 DEF MemWrites, WritesReg, ExMem0
<1>2. CASE /\ ~RST /\ ~STALL
           /\ (ex_mem_q'.RF_WE <=> id_ex_q.ctl.RF_WE)
           /\ (ex_mem_q'.memRDEN <=> id_ex_q.ctl.memRDEN)
           /\ ex_mem_q'.RF_SEL = id_ex_q.ctl.RF_SEL
           /\ ex_mem_q'.reg_write_addr = id_ex_q.ir.rd
  <2>1. id_ex_q.ctl.jal_i \/ id_ex_q.ctl.jalr_i => FLUSH
    BY <1>2 DEF FLUSH, HazardFlush
  <2>2. FLUSH => id_ex_q'.ctl = ZeroControl
    BY EdgeIdEx DEF IdEx0
  <2>3. QED
    BY <1>2, <2>1, <2>2, IdExFacts DEF MemWrites, WritesReg
<1>3. QED
  BY <1>1, <1>2, EdgeExMem

(* A trap that leaves EX clears the two stages behind it, and a stall or   *)
(* a reset empties MEM.                                                    *)
LEMMA TrapShadowStep ==
  ASSUME TypeOK, SlotsDecoded, Edge
  PROVE  TrapShadow'
<1>1. CASE ex_mem_q' = ExMem0
  BY <1>1 DEF TrapShadow, ExMem0
<1>2. CASE /\ ~RST /\ ~STALL
           /\ (ex_mem_q'.RF_WE <=> id_ex_q.ctl.RF_WE)
           /\ (ex_mem_q'.trap <=> id_ex_q.ctl.system_call)
  <2>1. id_ex_q.ctl.system_call => FLUSH
    BY <1>2 DEF FLUSH, HazardFlush
  <2>2. FLUSH => if_id_q' = IfId0 /\ id_ex_q' = IdEx0
    BY EdgeIdEx
  <2>3. QED
    BY <1>2, <2>1, <2>2, IdExFacts DEF TrapShadow, IfId0, IdEx0
<1>3. QED
  BY <1>1, <1>2, EdgeExMem

(* MEM/WB and halt_sig at an edge.                                         *)
LEMMA EdgeMemWb ==
  ASSUME TypeOK, Edge
  PROVE  \/ RST /\ mem_wb_q' = MemWb0 /\ (halt_sig' <=> halt_sig)
         \/ ~RST /\ Frozen /\ mem_wb_q' = mem_wb_q /\ halt_sig'
         \/ /\ ~RST /\ ~Frozen /\ ~halt_sig'
            /\ (mem_wb_q'.RF_WE <=> ex_mem_q.RF_WE)
            /\ mem_wb_q'.reg_write_addr = ex_mem_q.reg_write_addr
            /\ mem_wb_q'.REG_write_data = write_data
            /\ (mem_wb_q'.trap <=> ex_mem_q.trap)
BY DEF TypeOK, Edge, LatchMemWb, Frozen

(* When the core freezes with nothing in EX to flush, the fetch stops.     *)
LEMMA FreezeStopsFetch ==
  ASSUME Edge, freeze, ~STALL, ~FLUSH
  PROVE  ir' = ZeroWord
BY DEF Edge, LatchFetch

(* Frozen is entered only from a trap in MEM, whose shadow is empty.       *)
LEMMA FrozenSpacingStep ==
  ASSUME TypeOK, SlotsDecoded, TrapShadow, FrozenSpacing, Edge
  PROVE  FrozenSpacing'
<1> SUFFICES ASSUME Frozen'
             PROVE  /\ ~mem_wb_q'.RF_WE
                    /\ Real(ir') => ~Real(if_id_q'.ir) /\ ~Real(id_ex_q'.ir)
                    /\ Real(if_id_q'.ir) => ~Real(id_ex_q'.ir) /\ ~WritesReg'
                    /\ Real(id_ex_q'.ir) => ~WritesReg'
  BY DEF FrozenSpacing, Real
<1>0. ~Real(ZeroWord)
  BY DEF Real, ZeroWord
<1>1. Frozen \/ (~RST /\ ex_mem_q.trap)
  BY EdgeMemWb DEF Frozen, MemWb0
<1>2. ~mem_wb_q'.RF_WE
  BY <1>1, EdgeMemWb DEF FrozenSpacing, TrapShadow, MemWb0, Frozen
<1>3. CASE if_id_q' = IfId0 /\ id_ex_q' = IdEx0
  BY <1>0, <1>2, <1>3 DEF IfId0, IdEx0
<1>4. CASE ~RST /\ ~FLUSH /\ STALL
  <2>1. /\ ir' = ir /\ if_id_q' = if_id_q /\ id_ex_q'.ir = id_ex_q.ir
        /\ ex_mem_q' = ExMem0
    BY <1>4, EdgeIdEx, CapturedOperands
  <2>2. ~WritesReg'
    BY <2>1 DEF WritesReg, ExMem0
  <2>3. Frozen
    BY <1>1, <1>4 DEF TrapShadow, STALL, LoadUse
  <2>4. QED
    BY <1>2, <2>1, <2>2, <2>3 DEF FrozenSpacing
<1>5. CASE ~RST /\ ~FLUSH /\ ~STALL
  <2>1. freeze
    BY <1>1 DEF freeze, Frozen
  <2>2. ir' = ZeroWord /\ if_id_q'.ir = ir /\ id_ex_q'.ir = if_id_q.ir
    BY <1>5, <2>1, FreezeStopsFetch, EdgeIdEx
  <2>3. WritesReg' => Real(id_ex_q.ir)
    BY EdgeExMem, IdExFacts DEF WritesReg, ExMem0
  <2>4. CASE Frozen
    BY <1>0, <1>2, <2>2, <2>3, <2>4 DEF FrozenSpacing
  <2>5. CASE ex_mem_q.trap
    <3>1. ~Real(id_ex_q.ir) /\ ~Real(if_id_q.ir)
      BY <1>0, <2>5 DEF TrapShadow
    <3>2. QED
      BY <1>0, <1>2, <2>2, <2>3, <3>1
  <2>6. QED
    BY <1>1, <2>4, <2>5
<1>6. QED
  BY <1>3, <1>4, <1>5, EdgeIdEx

(* A register other than the one MEM writes keeps its value.               *)
LEMMA EdgeRegister ==
  ASSUME TypeOK, Edge, NEW r \in RegAddr, r # 0
  PROVE  /\ WritesInMEM(r) => registers'[r] = write_data
         /\ ~WritesInMEM(r) => registers'[r] = registers[r]
BY DEF TypeOK, ExMem, Edge, WriteRegister, WritesInMEM

(* The register file and MEM/WB take the same value at the same edge, or   *)
(* MEM/WB is frozen with nothing to forward.                               *)
LEMMA WriteBackCoherentStep ==
  ASSUME TypeOK, FrozenSpacing, WriteBackCoherent, Edge
  PROVE  WriteBackCoherent'
<1>1. ex_mem_q.reg_write_addr \in RegAddr
  BY DEF TypeOK, ExMem
<1>2. CASE ~RST /\ ~Frozen
  BY <1>1, <1>2, EdgeMemWb, EdgeRegister DEF WriteBackCoherent, WritesInMEM
<1>3. CASE RST
  BY <1>3, EdgeMemWb DEF WriteBackCoherent, MemWb0
<1>4. CASE ~RST /\ Frozen
  BY <1>4, EdgeMemWb DEF WriteBackCoherent, FrozenSpacing
<1>5. QED
  BY <1>2, <1>3, <1>4

(* v may stand in ID/EX for register r: it is r's value, or WB forwards.   *)
MayHold(r, v, wb, regs) ==
  ~(wb.RF_WE /\ r = wb.reg_write_addr) => v = (IF r = 0 THEN 0 ELSE regs[r])

(* The invariant in those terms, before and after an edge.                 *)
LEMMA HeldMeans ==
  /\ HeldOperands <=>
       /\ id_ex_q.ctl.rs1_used =>
            MayHold(id_ex_q.ir.rs1, id_ex_q.rs1, mem_wb_q, registers)
       /\ id_ex_q.ctl.rs2_used =>
            MayHold(id_ex_q.ir.rs2, id_ex_q.rs2, mem_wb_q, registers)
  /\ HeldOperands' <=>
       /\ id_ex_q'.ctl.rs1_used =>
            MayHold(id_ex_q'.ir.rs1, id_ex_q'.rs1, mem_wb_q', registers')
       /\ id_ex_q'.ctl.rs2_used =>
            MayHold(id_ex_q'.ir.rs2, id_ex_q'.rs2, mem_wb_q', registers')
BY DEF HeldOperands, HeldCurrent, MatchWB, MayHold, RegRead

(* What the forwarding muxes deliver for a used operand.                   *)
LEMMA ForwardedValue ==
  ASSUME TypeOK, WriteBackCoherent, NEW r \in RegAddr, NEW used \in BOOLEAN, used,
         NEW v, MayHold(r, v, mem_wb_q, registers)
  PROVE  /\ r = 0 => Forwarded(r, used, v) = 0
         /\ MatchMEM(r, used, ex_mem_q) /\ r # 0
              => Forwarded(r, used, v) = ex_mem_q.ALU_result
         /\ ~MatchMEM(r, used, ex_mem_q)
              => Forwarded(r, used, v) = RegRead(r)
<1>1. CASE MatchMEM(r, used, ex_mem_q)
  BY <1>1 DEF Forwarded, ForwardSel
<1>2. CASE ~MatchMEM(r, used, ex_mem_q) /\ MatchWB(r, used, mem_wb_q)
  BY <1>2 DEF Forwarded, ForwardSel, MatchWB, WriteBackCoherent, RegRead
<1>3. CASE ~MatchMEM(r, used, ex_mem_q) /\ ~MatchWB(r, used, mem_wb_q)
  BY <1>3 DEF Forwarded, ForwardSel, MatchWB, MayHold, RegRead
<1>4. QED
  BY <1>1, <1>2, <1>3

(* A value that is register r's may be held over an edge: if the           *)
(* instruction in MEM overwrites r, WB will forward what it wrote, and a   *)
(* frozen mem_wb_q has no such write to miss.                              *)
LEMMA HeldOverEdge ==
  ASSUME TypeOK, Edge, ~RST, NEW r \in RegAddr, NEW v, v = RegRead(r),
         r # 0 /\ Frozen => ~WritesInMEM(r)
  PROVE  MayHold(r, v, mem_wb_q', registers')
<1>1. CASE r = 0
  BY <1>1 DEF MayHold, RegRead
<1>2. CASE r # 0 /\ ~WritesInMEM(r)
  BY <1>2, EdgeRegister DEF MayHold, RegRead
<1>3. CASE r # 0 /\ WritesInMEM(r)
  BY <1>3, EdgeMemWb DEF MayHold, WritesInMEM
<1>4. QED
  BY <1>1, <1>2, <1>3

(* The operand a stalled instruction captures in place of the held one.    *)
LEMMA StalledOperand ==
  ASSUME TypeOK, FrozenSpacing, WriteBackCoherent, Edge, ~RST, STALL,
         NEW r \in RegAddr, r # 0 => Real(id_ex_q.ir),
         NEW used \in BOOLEAN, used, NEW v, MayHold(r, v, mem_wb_q, registers)
  PROVE  MayHold(r, Forwarded(r, used, v), mem_wb_q', registers')
<1>1. ex_mem_q.memRDEN
  BY DEF STALL, LoadUse
<1>2. Forwarded(r, used, v) = RegRead(r)
  <2>1. ~MatchMEM(r, used, ex_mem_q)
    BY <1>1 DEF MatchMEM
  <2>2. QED
    BY <2>1, ForwardedValue
<1>3. r # 0 /\ Frozen => ~WritesInMEM(r)
  BY DEF FrozenSpacing, WritesInMEM, WritesReg
<1>4. QED
  BY <1>2, <1>3, HeldOverEdge

(* The operand ID reads.                                                   *)
LEMMA DecodedOperand ==
  ASSUME TypeOK, SlotsDecoded, FrozenSpacing, Edge, ~RST, NEW r \in RegAddr,
         r # 0 => Real(if_id_q.ir)
  PROVE  MayHold(r, RegRead(r), mem_wb_q', registers')
<1>1. r # 0 /\ Frozen => ~WritesInMEM(r)
  BY DEF FrozenSpacing, WritesInMEM, WritesReg
<1>2. QED
  BY <1>1, HeldOverEdge

(* The operands of ID/EX: cleared by a flush, captured by a stall, read    *)
(* by decode; each is current or about to be forwarded from WB.            *)
LEMMA HeldOperandsStep ==
  ASSUME TypeOK, SlotsDecoded, FrozenSpacing, WriteBackCoherent, HeldOperands,
         Edge
  PROVE  HeldOperands'
<1>1. CASE id_ex_q' = IdEx0
  BY <1>1, HeldMeans DEF IdEx0, ZeroControl
<1>2. CASE /\ ~RST /\ STALL
           /\ id_ex_q' = [id_ex_q EXCEPT !.rs1 = real_rs1, !.rs2 = real_rs2]
  <2>1. /\ id_ex_q.ir.rs1 \in RegAddr /\ id_ex_q.ir.rs2 \in RegAddr
        /\ id_ex_q.ctl.rs1_used \in BOOLEAN /\ id_ex_q.ctl.rs2_used \in BOOLEAN
    BY DEF TypeOK, IdEx, Instr, Control
  <2>2. id_ex_q.ctl.rs1_used =>
          MayHold(id_ex_q.ir.rs1, real_rs1, mem_wb_q', registers')
    BY <1>2, <2>1, HeldMeans, StalledOperand, IdExFacts DEF real_rs1
  <2>3. id_ex_q.ctl.rs2_used =>
          MayHold(id_ex_q.ir.rs2, real_rs2, mem_wb_q', registers')
    BY <1>2, <2>1, HeldMeans, StalledOperand, IdExFacts DEF real_rs2
  <2>4. QED
    BY <1>2, <2>2, <2>3, HeldMeans, CapturedOperands
<1>3. CASE /\ ~RST
           /\ \E c \in ControlOf(if_id_q.ir) :
                id_ex_q' = [PC  |-> if_id_q.PC, ir |-> if_id_q.ir, ctl |-> c,
                            rs1 |-> RegRead(if_id_q.ir.rs1),
                            rs2 |-> RegRead(if_id_q.ir.rs2)]
  <2>1. if_id_q.ir.rs1 \in RegAddr /\ if_id_q.ir.rs2 \in RegAddr
    BY DEF TypeOK, Instr
  <2>2. ~Real(if_id_q.ir) => if_id_q.ir.rs1 = 0 /\ if_id_q.ir.rs2 = 0
    BY DEF SlotsDecoded, ZeroWord
  <2>3. /\ MayHold(if_id_q.ir.rs1, RegRead(if_id_q.ir.rs1), mem_wb_q', registers')
        /\ MayHold(if_id_q.ir.rs2, RegRead(if_id_q.ir.rs2), mem_wb_q', registers')
    BY <1>3, <2>1, <2>2, DecodedOperand
  <2>4. QED
    BY <1>3, <2>3, HeldMeans
<1>4. QED
  BY <1>1, <1>2, <1>3, EdgeIdEx

-----------------------------------------------------------------------------
(* The invariant holds after reset and over every edge.                    *)
LEMMA InitOperandInv ==
  ASSUME InitFlops, RST \in BOOLEAN, DATA_IN \in Word
  PROVE  OperandInv
<1>1. Real(ir) \/ ir = ZeroWord
  BY FetchType, ZeroType DEF InitFlops
<1>2. SlotsDecoded
  BY <1>1 DEF SlotsDecoded, InitFlops, IfId0, IdEx0
<1>3. MemWrites /\ TrapShadow
  BY DEF MemWrites, WritesReg, TrapShadow, InitFlops, ExMem0
<1>4. FrozenSpacing /\ WriteBackCoherent
  BY DEF FrozenSpacing, Frozen, WriteBackCoherent, InitFlops, MemWb0
<1>5. HeldOperands
  BY DEF HeldOperands, HeldCurrent, InitFlops, IdEx0, ZeroControl
<1>6. QED
  BY <1>2, <1>3, <1>4, <1>5, InitType DEF OperandInv

(* Every edge preserves the invariant, whatever the inputs become.         *)
LEMMA EdgeOperandInv ==
  ASSUME OperandInv, Edge, RST' \in BOOLEAN, DATA_IN' \in Word
  PROVE  OperandInv'
BY EdgeType, SlotsDecodedStep, MemWritesStep, TrapShadowStep,
   FrozenSpacingStep, WriteBackCoherentStep, HeldOperandsStep DEF OperandInv

(* The invariant is inductive, so it holds in every reachable state.       *)
LEMMA OperandInvariant == Spec => []OperandInv
<1>1. Init => OperandInv
  BY InitOperandInv, DataAssumption DEF Init
<1>2. OperandInv /\ [Next]_vars => OperandInv'
  <2>1. CASE Next
    BY <2>1, EdgeOperandInv, DataAssumption DEF Next
  <2>2. CASE UNCHANGED vars
    BY <2>2 DEF vars, flops, OperandInv, TypeOK, SlotsDecoded, MemWrites,
       WritesReg, TrapShadow, FrozenSpacing, Frozen, WriteBackCoherent,
       HeldOperands, HeldCurrent, RegRead
  <2>3. QED
    BY <2>1, <2>2
<1>3. QED
  BY <1>1, <1>2, PTL DEF Spec

-----------------------------------------------------------------------------
(* A used operand of an instruction that leaves EX, port by port.          *)
LEMMA OperandValue ==
  ASSUME TypeOK, SlotsDecoded, MemWrites, WriteBackCoherent,
         NEW r \in RegAddr, NEW used \in BOOLEAN, used,
         NEW v, MayHold(r, v, mem_wb_q, registers),
         ~LoadUse(r, used, ex_mem_q), id_ex_q.ctl # ZeroControl
  PROVE  Forwarded(r, used, v) = ArchReg(r)
<1>1. CASE r = 0
  BY <1>1, ForwardedValue DEF ArchReg
<1>2. CASE r # 0 /\ WritesInMEM(r)
  <2>1. MatchMEM(r, used, ex_mem_q) /\ ~ex_mem_q.memRDEN
    BY <1>2 DEF MatchMEM, LoadUse, WritesInMEM
  <2>2. ex_mem_q.RF_SEL = "ALU"
    BY <1>2, <2>1 DEF MemWrites, WritesReg, WritesInMEM
  <2>3. write_data = ex_mem_q.ALU_result
    BY <2>2 DEF write_data
  <2>4. QED
    BY <1>2, <2>1, <2>3, ForwardedValue DEF ArchReg
<1>3. CASE r # 0 /\ ~WritesInMEM(r)
  <2>1. ~MatchMEM(r, used, ex_mem_q)
    BY <1>3 DEF MatchMEM, WritesInMEM
  <2>2. QED
    BY <1>3, <2>1, ForwardedValue DEF ArchReg, RegRead
<1>4. QED
  BY <1>1, <1>2, <1>3

(* Forwarding is right wherever the invariant holds.                       *)
LEMMA InvOperandsCurrent == OperandInv => OperandsCurrent
<1> SUFFICES ASSUME OperandInv, ~STALL
             PROVE  /\ id_ex_q.ctl.rs1_used => real_rs1 = ArchReg(id_ex_q.ir.rs1)
                    /\ id_ex_q.ctl.rs2_used => real_rs2 = ArchReg(id_ex_q.ir.rs2)
  BY DEF OperandsCurrent
<1> USE DEF OperandInv
<1>1. /\ id_ex_q.ir.rs1 \in RegAddr /\ id_ex_q.ir.rs2 \in RegAddr
      /\ id_ex_q.ctl.rs1_used \in BOOLEAN /\ id_ex_q.ctl.rs2_used \in BOOLEAN
  BY DEF TypeOK, IdEx, Instr, Control
<1>2. /\ ~LoadUse(id_ex_q.ir.rs1, id_ex_q.ctl.rs1_used, ex_mem_q)
      /\ ~LoadUse(id_ex_q.ir.rs2, id_ex_q.ctl.rs2_used, ex_mem_q)
  BY DEF STALL
<1>3. id_ex_q.ctl.rs1_used \/ id_ex_q.ctl.rs2_used => id_ex_q.ctl # ZeroControl
  BY DEF ZeroControl
<1>4. id_ex_q.ctl.rs1_used => real_rs1 = ArchReg(id_ex_q.ir.rs1)
  BY <1>1, <1>2, <1>3, HeldMeans, OperandValue DEF real_rs1
<1>5. id_ex_q.ctl.rs2_used => real_rs2 = ArchReg(id_ex_q.ir.rs2)
  BY <1>1, <1>2, <1>3, HeldMeans, OperandValue DEF real_rs2
<1>6. QED
  BY <1>4, <1>5

(* Forwarding, stalling and the freeze on a trap together: whatever the    *)
(* program, the bus and RST do, an instruction computes with the youngest  *)
(* older value of each register it reads.                                  *)
THEOREM OperandsAreCurrent == Spec => []OperandsCurrent
BY InvOperandsCurrent, OperandInvariant, PTL

(* A JAL or JALR in MEM, whose ALU result is not its link, has no reader   *)
(* of registers behind it in EX.                                           *)
THEOREM LinksAreNotForwarded == Spec => []LinkNotForwarded
<1>1. OperandInv => LinkNotForwarded
  BY DEF OperandInv, MemWrites, WritesReg, LinkNotForwarded, ZeroControl
<1>2. QED
  BY <1>1, OperandInvariant, PTL

(* What WB forwards is what the register file holds.                       *)
THEOREM WriteBackIsCoherent == Spec => []WriteBackCoherent
<1>1. OperandInv => WriteBackCoherent
  BY DEF OperandInv
<1>2. QED
  BY <1>1, OperandInvariant, PTL

(* After a trap has stopped MEM/WB, two instructions that are still in the *)
(* pipe are never close enough for one to need a forward from the other.   *)
THEOREM FrozenIsSpaced == Spec => []FrozenSpacing
<1>1. OperandInv => FrozenSpacing
  BY DEF OperandInv
<1>2. QED
  BY <1>1, OperandInvariant, PTL

(* A stall squashes what it waits for into WB and clears EX/MEM, so no     *)
(* program, and no don't-care decode, can stall the core twice in a row.   *)
THEOREM StallsLastOneCycle == Spec => StallLastsOneCycle
<1>1. Next => (STALL => ~STALL')
  <2>1. Next /\ STALL => ex_mem_q' = ExMem0
    BY DEF Next, Edge, LatchExMem
  <2>2. QED
    BY <2>1 DEF STALL, LoadUse, ExMem0
<1>2. [Next]_vars => [STALL => ~STALL']_vars
  BY <1>1
<1>3. QED
  BY <1>2, PTL DEF Spec, StallLastsOneCycle

(* The second edge of a reset always fetches address 0.                    *)
THEOREM ResetAlwaysRestarts == Spec => ResetRestarts
<1>1. Next => (RST /\ PipelineClear /\ ~halt_sig
                 => PC_USED' = 0 /\ ir' = Fetch(0))
  <2> SUFFICES ASSUME Next, RST, PipelineClear, ~halt_sig
               PROVE  PC_USED' = 0 /\ ir' = Fetch(0)
    OBVIOUS
  <2>1. ~STALL /\ ~freeze
    BY DEF PipelineClear, STALL, LoadUse, freeze, ExMem0, MemWb0, IdEx0,
       ZeroControl
  <2>2. PC = 0
    BY DEF PC
  <2>3. QED
    BY <2>1, <2>2 DEF Next, Edge, LatchFetch
<1>2. [Next]_vars => [RST /\ PipelineClear /\ ~halt_sig
                        => PC_USED' = 0 /\ ir' = Fetch(0)]_vars
  BY <1>1
<1>3. QED
  BY <1>2, PTL DEF Spec, ResetRestarts
=============================================================================
