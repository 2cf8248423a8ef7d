------------------------- MODULE MCU_WRAPPER_proofs -------------------------
(***************************************************************************)
(* Proofs about the board, for every memory, map, program and ALU, and for *)
(* a button and pins that do what they like.                               *)
(***************************************************************************)
EXTENDS MCU_WRAPPER, CPU_TOP_proofs, CPU_Bench_proofs

(* A falling clk_50, or one that stays low, moves nothing that it clocks.  *)
LEMMA QuietUnlessRising ==
  ASSUME CoreClock, ~Rising
  PROVE  UNCHANGED <<flops, region_q, devices>>
BY DEF CoreClock

(* As RoutedInv, with the devices.                                         *)
BoardRoutedInv == /\ ex_mem_q.memRDEN => region_q = Region(LoadAddress)
                  /\ DATA_IN = BoardIOBUS_in

(* data_out hangs on the RAM's word and on what is in EX, MEM and WB.      *)
LEMMA WiresUnchanged ==
  ASSUME UNCHANGED <<flops, memReadWord>>
  PROVE  /\ UNCHANGED <<id_ex_q, ex_mem_q, IOBUS_RDEN, IOBUS_WE, DATA_ADDRESS>>
         /\ DATA_IN' = DATA_IN => UNCHANGED data_out
<1>1. UNCHANGED <<id_ex_q, ex_mem_q, mem_wb_q, memReadWord>>
  BY DEF flops
<1>2. UNCHANGED <<real_rs1, real_rs2, mem_data>>
  BY <1>1 DEF real_rs1, real_rs2, Forwarded, mem_data
<1>3. UNCHANGED DATA_ADDRESS
  BY <1>1, <1>2 DEF DATA_ADDRESS, ALU_result, srcA, srcB
<1>4. UNCHANGED <<IOBUS_RDEN, IOBUS_WE>>
  BY <1>1 DEF IOBUS_RDEN, IOBUS_WE, STALL
<1>5. UNCHANGED data_out
  BY <1>1, <1>2, <1>3 DEF data_out
<1>6. QED BY <1>1, <1>3, <1>4, <1>5

LEMMA BoardRoutedStep == BoardRoutedInv /\ [BoardNext]_boardVars => BoardRoutedInv'
<1> SUFFICES ASSUME BoardRoutedInv, [BoardNext]_boardVars PROVE BoardRoutedInv'
  OBVIOUS
<1>1. CASE BoardNext
  <2>1. CASE Rising
    <3>1. Edge /\ LatchRegion
      BY <1>1, <2>1 DEF BoardNext, CoreClock
    <3>2. ex_mem_q'.memRDEN => region_q' = Region(ex_mem_q'.ALU_result)
      BY <3>1, AskedIsNextInMEM DEF LatchRegion
    <3>3. QED BY <1>1, <3>2 DEF BoardNext, BoardRoutedInv, LoadAddress, Region
  <2>2. CASE ~Rising
    <3>1. UNCHANGED <<ex_mem_q, region_q>>
      BY <1>1, <2>2, QuietUnlessRising DEF BoardNext, flops
    <3>2. QED BY <1>1, <3>1 DEF BoardNext, BoardRoutedInv, LoadAddress, Region
  <2>3. QED BY <2>1, <2>2
<1>2. CASE UNCHANGED boardVars
  <2>1. UNCHANGED <<flops, ex_mem_q, DATA_IN, memReadWord, region_q, mmio_q>>
    BY <1>2 DEF boardVars, benchVars, vars, flops, devices
  <2>2. UNCHANGED BoardIOBUS_in
    BY <2>1, WiresUnchanged DEF BoardIOBUS_in
  <2>3. QED BY <2>1, <2>2 DEF BoardRoutedInv, LoadAddress, Region
<1>3. QED BY <1>1, <1>2

(* The Interconnect's registered device reply holds still while the load   *)
(* that asked is in MEM, through the board edge in the middle of it.       *)
THEOREM DeviceRepliesHold == BoardSpec => DeviceReplySteady
<1>1. BoardInit => BoardRoutedInv
  BY DEF BoardInit, InitFlops, ExMem0, BoardRoutedInv
<1>2. BoardRoutedInv /\ [BoardNext]_boardVars
      => [Falling /\ LoadInMEM /\ Region(LoadAddress) = "MMIO"
            => DATA_IN' = DATA_IN]_boardVars
  <2> SUFFICES ASSUME BoardRoutedInv, BoardNext, Falling, LoadInMEM,
                      Region(LoadAddress) = "MMIO"
               PROVE  DATA_IN' = DATA_IN
    BY DEF Falling
  <2>1. region_q = "MMIO"
    BY DEF BoardRoutedInv, LoadInMEM
  <2>2. UNCHANGED <<region_q, mmio_q>>
    BY QuietUnlessRising DEF BoardNext, Falling, Rising, devices
  <2>3. BoardIOBUS_in = mmio_q /\ BoardIOBUS_in' = mmio_q'
    BY <2>1, <2>2 DEF BoardIOBUS_in
  <2>4. QED BY <2>2, <2>3 DEF BoardRoutedInv, BoardNext
<1>3. QED BY <1>1, <1>2, BoardRoutedStep, PTL DEF BoardSpec, DeviceReplySteady

-----------------------------------------------------------------------------
(* The parts of CurrentInv that the two clocks keep.                       *)
BoardCurrentInv == /\ {"ctl", "rs1", "rs2"} \subseteq DOMAIN id_ex_q
                   /\ ~LoadsAndStores(id_ex_q.ctl)
                   /\ QuietLoadReadsCurrentWord

(* The edge that brings the load to MEM reads its word, and no store comes *)
(* with it.                                                                *)
LEMMA RisingReads ==
  ASSUME ~LoadsAndStores(id_ex_q.ctl), Edge, DmemEdge
  PROVE  LoadReadsCurrentWord'
<1> SUFFICES ASSUME ex_mem_q'.RF_WE, ex_mem_q'.memRDEN,
                    Region(ex_mem_q'.ALU_result) = "DMEM"
             PROVE  memReadWord' = memory'[wordAddress(ex_mem_q'.ALU_result)]
  BY DEF LoadReadsCurrentWord, LoadInMEM, LoadAddress, Region, wordAddress
<1>1. /\ IOBUS_RDEN /\ id_ex_q.ctl.RF_WE
      /\ ex_mem_q'.ALU_result = DATA_ADDRESS
  BY AskedIsNextInMEM
<1>2. DMEM_RDEN /\ ~DMEM_WE
  BY <1>1 DEF DMEM_RDEN, DMEM_WE, IOBUS_WE, IOBUS_RDEN, LoadsAndStores
<1>3. QED BY <1>1, <1>2 DEF DmemEdge

(* In the middle of the core cycle the RAM keeps still if EX does not use  *)
(* it.                                                                     *)
LEMMA QuietKeepsWord ==
  ASSUME UNCHANGED flops, DmemEdge, ~(IOBUS_RDEN \/ IOBUS_WE), LoadReadsCurrentWord
  PROVE  LoadReadsCurrentWord'
<1>1. UNCHANGED <<memory, memReadWord, ex_mem_q>>
  BY DEF DmemEdge, DMEM_RDEN, DMEM_WE, flops
<1>2. QED BY <1>1 DEF LoadReadsCurrentWord, LoadInMEM, LoadAddress, Region, wordAddress

(* Whether EX uses the bus hangs on flip-flops of the core clock.          *)
LEMMA BusUseUnchanged ==
  ASSUME UNCHANGED flops
  PROVE  UNCHANGED <<IOBUS_RDEN, IOBUS_WE>>
BY DEF flops, IOBUS_RDEN, IOBUS_WE, STALL

LEMMA BoardCurrentStep ==
  ASSUME \A c \in UnknownControl : ~LoadsAndStores(c)
  PROVE  BoardCurrentInv /\ [BoardNext]_boardVars => BoardCurrentInv'
<1> SUFFICES ASSUME BoardCurrentInv, [BoardNext]_boardVars PROVE BoardCurrentInv'
  OBVIOUS
<1>1. CASE BoardNext
  <2>1. CASE Rising
    <3>1. Edge /\ DmemEdge
      BY <1>1, <2>1 DEF BoardNext, CoreClock
    <3>2. LoadReadsCurrentWord'
      BY <3>1, RisingReads DEF BoardCurrentInv
    <3>3. /\ {"ctl", "rs1", "rs2"} \subseteq DOMAIN id_ex_q'
          /\ ~LoadsAndStores(id_ex_q'.ctl)
      BY <3>1, ApartStep DEF BoardCurrentInv, Edge
    <3>4. QED BY <3>2, <3>3 DEF BoardCurrentInv, QuietLoadReadsCurrentWord
  <2>2. CASE ~Rising
    <3>1. UNCHANGED flops /\ DmemEdge
      BY <1>1, <2>2, QuietUnlessRising DEF BoardNext
    <3>2. UNCHANGED <<id_ex_q, IOBUS_RDEN, IOBUS_WE>>
      BY <3>1, BusUseUnchanged DEF flops
    <3>3. ~clk_50'
      BY <1>1, <2>2 DEF BoardNext, DivideClock, Rising
    <3>4. ~(IOBUS_RDEN \/ IOBUS_WE) => LoadReadsCurrentWord'
      BY <3>1, QuietKeepsWord DEF BoardCurrentInv, QuietLoadReadsCurrentWord
    <3>5. QED BY <3>2, <3>3, <3>4 DEF BoardCurrentInv, QuietLoadReadsCurrentWord
  <2>3. QED BY <2>1, <2>2
<1>2. CASE UNCHANGED boardVars
  <2>1. UNCHANGED <<flops, memory, memReadWord, clk_50>>
    BY <1>2 DEF boardVars, benchVars, vars
  <2>2. UNCHANGED <<id_ex_q, ex_mem_q, IOBUS_RDEN, IOBUS_WE>>
    BY <2>1, BusUseUnchanged DEF flops
  <2>3. LoadReadsCurrentWord' <=> LoadReadsCurrentWord
    BY <2>1, <2>2 DEF LoadReadsCurrentWord, LoadInMEM, LoadAddress, Region, wordAddress
  <2>4. QED BY <2>1, <2>2, <2>3 DEF BoardCurrentInv, QuietLoadReadsCurrentWord
<1>3. QED BY <1>1, <1>2

(* On the board the RAM has an edge in the middle of the core cycle.  The  *)
(* load in MEM has the word in memory when its cycle begins, and when it   *)
(* ends if the instruction behind it leaves the bus alone.                 *)
THEOREM QuietLoadsReadCurrentWords ==
  ASSUME \A c \in UnknownControl : ~LoadsAndStores(c)
  PROVE  BoardSpec => []QuietLoadReadsCurrentWord
<1>1. BoardInit => BoardCurrentInv
  BY DEF BoardInit, InitFlops, IdEx0, ExMem0, ZeroControl, BoardCurrentInv, LoadsAndStores,
         QuietLoadReadsCurrentWord, LoadReadsCurrentWord, LoadInMEM
<1>2. BoardCurrentInv => QuietLoadReadsCurrentWord
  BY DEF BoardCurrentInv
<1>3. QED BY <1>1, <1>2, BoardCurrentStep, PTL DEF BoardSpec

-----------------------------------------------------------------------------
(* What the registers of the board hold, and the bus, are words.           *)
BoardType == /\ FlopTypes /\ RST \in BOOLEAN
             /\ memory \in [0 .. DMEM_WORDS - 1 -> Word]
             /\ memReadWord \in Word /\ mmio_q \in Word
             /\ region_q \in {"DMEM", "MMIO", "NONE"}
             /\ BTNC \in BOOLEAN /\ BTNS \in Word /\ SWITCHES \in Word
             /\ DATA_IN = BoardIOBUS_in

LEMMA RamWords == RamWord = Word /\ Word \subseteq Nat /\ 0 \in Word
BY MapAssumption, WordAssumption DEF RamWord, Word

LEMMA BusTypes ==
  ASSUME FlopTypes
  PROVE  /\ DATA_ADDRESS \in Word /\ DATA_OUT \in Word
         /\ mem_data \in 0 .. 7 /\ byteOffset(DATA_ADDRESS) \in 0 .. 3
         /\ wordAddress(DATA_ADDRESS) \in 0 .. DMEM_WORDS - 1
<1>1. DATA_ADDRESS \in Word /\ DATA_OUT \in Word
  BY OperandTypes DEF DATA_ADDRESS, DATA_OUT
<1>2. mem_data \in 0 .. 7
  BY DEF FlopTypes, IdEx, Instr, mem_data
<1>3. DATA_ADDRESS \in Int
  BY <1>1, RamWords
<1>4. wordAddress(DATA_ADDRESS) \in 0 .. DMEM_WORDS - 1
  BY <1>3, WordAddressTyped
<1>5. byteOffset(DATA_ADDRESS) \in 0 .. 3
  BY <1>3 DEF byteOffset
<1>6. QED BY <1>1, <1>2, <1>4, <1>5

(* The bus carries a word, so that the core's types hold.                  *)
LEMMA BoardTypeOK == BoardType => TypeOK
<1> SUFFICES ASSUME BoardType PROVE TypeOK
  OBVIOUS
<1>1. data_out \in Word
  BY BusTypes, FormatTyped, RamWords DEF data_out, BoardType
<1>2. BoardIOBUS_in \in Word
  BY <1>1, RamWords DEF BoardIOBUS_in, BoardType
<1>3. QED BY <1>2, TypesSplit DEF BoardType

(* A store leaves words in the RAM.                                        *)
LEMMA StoredTyped ==
  ASSUME FlopTypes, memory \in [0 .. DMEM_WORDS - 1 -> Word]
  PROVE  Stored(memory, DATA_ADDRESS, DATA_OUT, mem_data) \in [0 .. DMEM_WORDS - 1 -> Word]
<1> DEFINE a == wordAddress(DATA_ADDRESS)
           o == byteOffset(DATA_ADDRESS)
           s == StoreLanes(memory[a], o, DATA_OUT, mem_data)
<1>1. memory[a] \in RamWord /\ o \in 0 .. 3 /\ mem_data \in 0 .. 7 /\ DATA_OUT \in Int
  <2>1. a \in 0 .. DMEM_WORDS - 1 /\ o \in 0 .. 3 /\ mem_data \in 0 .. 7 /\ DATA_OUT \in Word
    BY BusTypes
  <2>2. memory[a] \in Word
    BY <2>1
  <2>3. QED BY <2>1, <2>2, RamWords
<1>2. s \in RamWord
  BY <1>1, StoreFills
<1>3. QED BY <1>2, RamWords DEF Stored

LEMMA BoardTypeStep ==
  ASSUME BoardType, BoardNext
  PROVE  BoardType'
<1>1. TypeOK /\ FlopTypes
  BY BoardTypeOK, TypesSplit
<1>2. FlopTypes'
  <2>1. CASE Rising
    BY <1>1, <2>1, EdgeFlopTypes DEF BoardNext, CoreClock
  <2>2. CASE ~Rising
    <3>1. UNCHANGED flops
      BY <2>2, QuietUnlessRising DEF BoardNext
    <3>2. QED BY <1>1, <3>1 DEF flops, FlopTypes
  <2>3. QED BY <2>1, <2>2
<1>3. memory' \in [0 .. DMEM_WORDS - 1 -> Word] /\ memReadWord' \in Word
  BY <1>1, StoredTyped, BusTypes DEF BoardType, BoardNext, DmemEdge
<1>4. BTNC' \in BOOLEAN /\ BTNS' \in Word /\ SWITCHES' \in Word
  BY DeviceAssumption DEF BoardNext
<1>5. RST' \in BOOLEAN
  BY DEF BoardNext, SampleButton, BoardType
<1>6. region_q' \in {"DMEM", "MMIO", "NONE"}
  <2>1. DATA_ADDRESS \in Int
    <3>1. DATA_ADDRESS \in Word
      BY <1>1, BusTypes
    <3>2. QED BY <3>1, RamWords
  <2>2. Region(DATA_ADDRESS) \in {"DMEM", "MMIO", "NONE"}
    BY <2>1, MapAssumption, DmemAssumption DEF Region
  <2>3. QED BY <2>2, QuietUnlessRising DEF BoardNext, CoreClock, LatchRegion, BoardType
<1>7. mmio_q' \in Word
  <2>1. DeviceReply(DATA_ADDRESS) \in Word
    BY RamWords DEF DeviceReply, BoardType
  <2>2. QED BY <2>1, QuietUnlessRising DEF BoardNext, CoreClock, LatchReply, BoardType, devices
<1>8. DATA_IN' = BoardIOBUS_in'
  BY DEF BoardNext
<1>9. QED BY <1>2, <1>3, <1>4, <1>5, <1>6, <1>7, <1>8 DEF BoardType

(* No instruction both reads and writes the RAM.                           *)
ReadsAndWrites(c) == c.memRDEN /\ c.memWE

(* The second RAM edge for what is in EX finds its access done.            *)
Repeated ==
  ~clk_50 => /\ DMEM_RDEN => memReadWord = memory[wordAddress(DATA_ADDRESS)]
             /\ DMEM_WE => memory = Stored(memory, DATA_ADDRESS, DATA_OUT, mem_data)

RepeatInv == /\ BoardType
             /\ ~ReadsAndWrites(id_ex_q.ctl)
             /\ Repeated

LEMMA ReadWriteApart ==
  ASSUME \A c \in UnknownControl : ~ReadsAndWrites(c),
         TypeOK, ~ReadsAndWrites(id_ex_q.ctl), Edge
  PROVE  ~ReadsAndWrites(id_ex_q'.ctl)
<1>1. CASE id_ex_q' = IdEx0
  BY <1>1 DEF IdEx0, ZeroControl, ReadsAndWrites
<1>2. CASE id_ex_q' = [id_ex_q EXCEPT !.rs1 = real_rs1, !.rs2 = real_rs2]
  BY <1>2, CapturedOperands
<1>3. ASSUME NEW c \in ControlOf(if_id_q.ir), id_ex_q'.ctl = c
      PROVE  ~ReadsAndWrites(id_ex_q'.ctl)
  <2>1. ~ReadsAndWrites(Decode(if_id_q.ir))
    BY DEF Decode, ReadsAndWrites
  <2>2. QED BY <1>3, <2>1 DEF ControlOf
<1>4. QED BY <1>1, <1>2, <1>3 DEF Edge, LatchIdEx

(* What is on the bus hangs on flip-flops of the core clock.               *)
LEMMA BusUnchanged ==
  ASSUME UNCHANGED flops
  PROVE  UNCHANGED <<DATA_ADDRESS, DATA_OUT, mem_data, DMEM_RDEN, DMEM_WE>>
<1>1. UNCHANGED <<id_ex_q, ex_mem_q, mem_wb_q>>
  BY DEF flops
<1>2. UNCHANGED <<real_rs1, real_rs2, mem_data>>
  BY <1>1 DEF real_rs1, real_rs2, Forwarded, mem_data
<1>3. UNCHANGED <<DATA_ADDRESS, DATA_OUT>>
  BY <1>1, <1>2 DEF DATA_ADDRESS, DATA_OUT, ALU_result, srcA, srcB
<1>4. UNCHANGED <<IOBUS_RDEN, IOBUS_WE>>
  BY BusUseUnchanged
<1>5. UNCHANGED DMEM_RDEN /\ UNCHANGED DMEM_WE
  BY <1>3, <1>4 DEF DMEM_RDEN, DMEM_WE, Region
<1>6. QED BY <1>2, <1>3, <1>5

(* Storing again changes nothing.                                          *)
LEMMA StoredTwice ==
  ASSUME FlopTypes, memory \in [0 .. DMEM_WORDS - 1 -> Word],
         NEW after, after = Stored(memory, DATA_ADDRESS, DATA_OUT, mem_data)
  PROVE  Stored(after, DATA_ADDRESS, DATA_OUT, mem_data) = after
<1> DEFINE a == wordAddress(DATA_ADDRESS)
           o == byteOffset(DATA_ADDRESS)
           s == StoreLanes(memory[a], o, DATA_OUT, mem_data)
<1>1. memory[a] \in RamWord /\ o \in 0 .. 3 /\ mem_data \in 0 .. 7 /\ DATA_OUT \in Int
  <2>1. a \in 0 .. DMEM_WORDS - 1 /\ o \in 0 .. 3 /\ mem_data \in 0 .. 7 /\ DATA_OUT \in Word
    BY BusTypes
  <2>2. memory[a] \in Word
    BY <2>1
  <2>3. QED BY <2>1, <2>2, RamWords
<1>2. StoreLanes(s, o, DATA_OUT, mem_data) = s
  <2>1. PICK word \in RamWord, offset \in 0 .. 3, func3 \in 0 .. 7, data \in Int :
          word = memory[a] /\ offset = o /\ func3 = mem_data /\ data = DATA_OUT
    BY <1>1
  <2>2. PICK t : t = s
    OBVIOUS
  <2>3. t = StoreLanes(word, offset, data, func3)
    BY <2>1, <2>2
  <2>4. Repeats(t, offset, data, func3)
    BY <2>3, StoreFills
  <2> HIDE DEF a, o, s
  <2>5. QED BY <2>1, <2>2, <2>4 DEF Repeats
<1>3. a \in 0 .. DMEM_WORDS - 1
  BY BusTypes
<1>4. after = [memory EXCEPT ![a] = s]
  BY DEF Stored
<1>5. after[a] = s /\ after = [after EXCEPT ![a] = s]
  BY <1>3, <1>4
<1>6. QED BY <1>2, <1>5 DEF Stored

(* The RAM at an edge whose access is done.                                *)
LEMMA RepeatsNothing ==
  ASSUME Repeated, ~clk_50, DmemEdge
  PROVE  UNCHANGED <<memory, memReadWord>>
BY DEF Repeated, DmemEdge

LEMMA RepeatStep ==
  ASSUME \A c \in UnknownControl : ~ReadsAndWrites(c)
  PROVE  RepeatInv /\ [BoardNext]_boardVars => RepeatInv'
<1> SUFFICES ASSUME RepeatInv, [BoardNext]_boardVars PROVE RepeatInv'
  OBVIOUS
<1>1. CASE BoardNext
  <2>1. BoardType'
    BY <1>1, BoardTypeStep DEF RepeatInv
  <2>2. CASE Rising
    <3>1. ~ReadsAndWrites(id_ex_q'.ctl)
      BY <1>1, <2>2, ReadWriteApart, BoardTypeOK DEF RepeatInv, BoardNext, CoreClock
    <3>2. QED BY <2>1, <2>2, <3>1 DEF RepeatInv, Rising, Repeated, ReadsAndWrites
  <2>3. CASE ~Rising
    <3>1. UNCHANGED flops /\ DmemEdge /\ UNCHANGED id_ex_q
      BY <1>1, <2>3, QuietUnlessRising DEF BoardNext, flops
    <3>2. UNCHANGED <<DATA_ADDRESS, DATA_OUT, mem_data, DMEM_RDEN, DMEM_WE>>
      BY <3>1, BusUnchanged
    <3>3. CASE ~clk_50
      <4>1. UNCHANGED <<memory, memReadWord>>
        BY <3>1, <3>3, RepeatsNothing DEF RepeatInv
      <4>2. Repeated'
        BY <3>2, <3>3, <4>1 DEF RepeatInv, Repeated, wordAddress, Stored
      <4>3. QED BY <2>1, <3>1, <4>2 DEF RepeatInv
    <3>4. CASE clk_50
      <4>1. ~(DMEM_RDEN /\ DMEM_WE)
        BY DEF RepeatInv, ReadsAndWrites, DMEM_RDEN, DMEM_WE, IOBUS_RDEN, IOBUS_WE
      <4>2. DMEM_RDEN => memReadWord' = memory'[wordAddress(DATA_ADDRESS)]
        BY <3>1, <4>1 DEF DmemEdge
      <4>3. DMEM_WE => memory' = Stored(memory', DATA_ADDRESS, DATA_OUT, mem_data)
        BY <3>1, StoredTwice DEF DmemEdge, RepeatInv, BoardType
      <4>4. Repeated'
        BY <3>2, <4>2, <4>3 DEF Repeated, wordAddress, Stored
      <4>5. QED BY <2>1, <3>1, <4>4 DEF RepeatInv
    <3>5. QED BY <3>3, <3>4
  <2>4. QED BY <2>2, <2>3
<1>2. CASE UNCHANGED boardVars
  <2>1. UNCHANGED <<flops, id_ex_q, memory, memReadWord, clk_50>>
    BY <1>2 DEF boardVars, benchVars, vars, flops
  <2>2. UNCHANGED <<DATA_ADDRESS, DATA_OUT, mem_data, DMEM_RDEN, DMEM_WE>>
    BY <2>1, BusUnchanged
  <2>3. Repeated'
    BY <2>1, <2>2 DEF RepeatInv, Repeated, wordAddress, Stored
  <2>4. UNCHANGED <<RST, mmio_q, region_q, BTNC, BTNS, SWITCHES, DATA_IN>>
    BY <1>2 DEF boardVars, benchVars, vars, pins, devices
  <2>5. UNCHANGED BoardIOBUS_in
    BY <2>1, <2>4, WiresUnchanged DEF BoardIOBUS_in
  <2>6. FlopTypes'
    BY <2>1 DEF RepeatInv, BoardType, FlopTypes, flops
  <2>7. BoardType'
    BY <2>1, <2>4, <2>5, <2>6 DEF RepeatInv, BoardType
  <2>8. QED BY <2>1, <2>3, <2>7 DEF RepeatInv
<1>3. QED BY <1>1, <1>2

(* DMEM runs on the undivided clock, so each access of the core is done    *)
(* twice, or as often as the button makes it.  All but the first time it   *)
(* changes nothing: the pair of RAM edges is as good as one.               *)
THEOREM LaterEdgesRepeat ==
  ASSUME \A c \in UnknownControl : ~ReadsAndWrites(c)
  PROVE  BoardSpec => LaterRamEdgesRepeat
<1>1. BoardInit => RepeatInv
  <2> SUFFICES ASSUME BoardInit PROVE RepeatInv
    OBVIOUS
  <2>1. DATA_IN = 0 /\ RST \in BOOLEAN
    BY DEF BoardInit, BoardIOBUS_in
  <2>2. FlopTypes
    BY <2>1, RamWords, InitType, TypesSplit DEF BoardInit
  <2>3. BoardType
    BY <2>1, <2>2, RamWords, MapAssumption, DataAssumption, DeviceAssumption
    DEF BoardInit, BoardType
  <2>4. ~ReadsAndWrites(id_ex_q.ctl)
    BY DEF BoardInit, InitFlops, IdEx0, ZeroControl, ReadsAndWrites
  <2>5. QED BY <2>3, <2>4 DEF BoardInit, RepeatInv, Repeated
<1>2. RepeatInv /\ [BoardNext]_boardVars
      => [~clk_50 => UNCHANGED <<memory, memReadWord>>]_boardVars
  BY RepeatsNothing DEF RepeatInv, BoardNext
<1>3. QED BY <1>1, <1>2, RepeatStep, PTL DEF BoardSpec, LaterRamEdgesRepeat
=============================================================================
