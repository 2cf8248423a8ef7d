---------------------------- MODULE MCU_WRAPPER ----------------------------
(***************************************************************************)
(* The board-level machine of rtl/MCU_WRAPPER.sv: the core and the         *)
(* Interconnect on the divided clock clk_50, the DMEM on the board clock   *)
(* CLK, the reset button and the devices.                                  *)
(*                                                                         *)
(* A step is a rising edge of CLK.  clk_50 is a flop of CLK; what it       *)
(* clocks moves in the step in which it rises, and s_reset samples the     *)
(* button in the step in which it falls.  RST of CPU_TOP is s_reset.       *)
(***************************************************************************)
EXTENDS CPU_Bench

CONSTANTS
  LEDS_ADDR, SSEG_ADDR,          \* 0x11000020 and 0x11000040
  SWITCHES_ADDR, BUTTONS_ADDR,   \* the memory map's 0x11000000, 0x11000080
  DeviceMod,                     \* the output registers hold 16 bits
  SwitchWords, ButtonWords       \* what the pins may carry, zero-extended

ASSUME DeviceAssumption ==
  /\ {LEDS_ADDR, SSEG_ADDR} \subseteq {a \in Word : a >= MMIO_BASE}
  /\ LEDS_ADDR # SSEG_ADDR
  /\ SwitchWords \cup ButtonWords \subseteq Word

VARIABLES
  clk_50,                \* the level of the core clock
  BTNC, BTNS, SWITCHES,  \* pins
  mmio_q,                \* Interconnect: the registered device reply
  LEDS, r_SSEG           \* the output registers

s_reset   == RST
pins      == <<BTNC, BTNS, SWITCHES>>
devices   == <<mmio_q, LEDS, r_SSEG>>
boardVars == <<benchVars, clk_50, pins, devices>>

-----------------------------------------------------------------------------
(* Wrong on purpose, for the mutation runs: the divider is stopped by the  *)
(* registered reset.                                                       *)
DivideClock_ByReset == clk_50' = (~s_reset /\ ~clk_50)

(* The clock divider; the button holds it low.                             *)
DivideClock == clk_50' = (~BTNC /\ ~clk_50)
Rising      == ~clk_50 /\ clk_50'
Falling     == clk_50 /\ ~clk_50'

SampleButton == RST' = IF Falling THEN BTNC ELSE RST

(* The Interconnect answers the buttons at the LEDs' address and the       *)
(* switches at the display's.                                              *)
DeviceReply(address) == CASE address = LEDS_ADDR -> BTNS
                          [] address = SSEG_ADDR -> SWITCHES
                          [] address \notin {LEDS_ADDR, SSEG_ADDR} -> 0
LatchReply ==
  mmio_q' = IF IOBUS_RDEN /\ Region(DATA_ADDRESS) = "MMIO"
            THEN DeviceReply(DATA_ADDRESS) ELSE mmio_q

LEDS_WE == IOBUS_WE /\ DATA_ADDRESS = LEDS_ADDR
SSEG_WE == IOBUS_WE /\ DATA_ADDRESS = SSEG_ADDR
WriteDevices ==
  /\ LEDS'   = IF LEDS_WE THEN DATA_OUT % DeviceMod ELSE LEDS
  /\ r_SSEG' = IF SSEG_WE THEN DATA_OUT % DeviceMod ELSE r_SSEG

BoardIOBUS_in == CASE region_q = "DMEM" -> data_out
                   [] region_q = "MMIO" -> mmio_q
                   [] region_q = "NONE" -> 0

(* Wrong on purpose, for the mutation runs: the core moves on the falling  *)
(* edge of its clock; the Interconnect runs on the board clock.            *)
CoreClock_Falling ==
  \/ Falling /\ Edge /\ LatchRegion /\ LatchReply /\ WriteDevices
  \/ ~Falling /\ UNCHANGED <<flops, region_q, devices>>
CoreClock_ReplyOnCLK ==
  /\ LatchReply /\ LatchRegion
  /\ \/ Rising /\ Edge /\ WriteDevices
     \/ ~Rising /\ UNCHANGED <<flops, LEDS, r_SSEG>>

(* What clk_50 clocks.                                                     *)
CoreClock ==
  \/ Rising /\ Edge /\ LatchRegion /\ LatchReply /\ WriteDevices
  \/ ~Rising /\ UNCHANGED <<flops, region_q, devices>>

-----------------------------------------------------------------------------
(* The first core edge under the button held since power-up has just       *)
(* cleared the pipeline.                                                   *)
BoardInit ==
  /\ InitFlops
  /\ clk_50 = TRUE /\ RST = TRUE
  /\ BTNC \in BOOLEAN /\ BTNS \in ButtonWords /\ SWITCHES \in SwitchWords
  /\ memory \in Memories
  /\ memReadWord \in JunkWords
  /\ region_q = "NONE"
  /\ mmio_q = 0 /\ LEDS = 0 /\ r_SSEG = 0
  /\ DATA_IN = BoardIOBUS_in

BoardNext ==
  /\ DivideClock
  /\ SampleButton
  /\ DmemEdge
  /\ CoreClock
  /\ BTNC' \in BOOLEAN /\ BTNS' \in ButtonWords /\ SWITCHES' \in SwitchWords
  /\ DATA_IN' = BoardIOBUS_in'

(* The board clock never stops.                                            *)
BoardSpec == BoardInit /\ [][BoardNext]_boardVars /\ WF_boardVars(BoardNext)

-----------------------------------------------------------------------------
(* Properties.                                                             *)

(* Two RAM edges fall into each core cycle, and any number while the       *)
(* button stops clk_50: the first does the access of the instruction in    *)
(* EX, every later one repeats it, and the one that coincides with the     *)
(* core's edge moves nothing that the core is about to sample.             *)
LaterRamEdgesRepeat ==
  [][~clk_50 => UNCHANGED <<memory, memReadWord>>]_boardVars

(* DMEM.sv registers the word a load asks for.  The board's core finds it  *)
(* at the start of the load's MEM cycle, and still at the end of it if the *)
(* instruction behind does not use the RAM.                                *)
QuietLoadReadsCurrentWord ==
  clk_50 \/ ~(IOBUS_RDEN \/ IOBUS_WE) => LoadReadsCurrentWord

(* A device's reply does not move while the load that asked is in MEM,     *)
(* whatever the pins, the RAM and the address bus do meanwhile.            *)
DeviceReplySteady ==
  [][Falling /\ LoadInMEM /\ Region(LoadAddress) = "MMIO"
       => DATA_IN' = DATA_IN]_boardVars

(* The divider stops for BTNC, and s_reset moves only when it falls: once  *)
(* the button stays up, the core clock runs on and the reset is gone.      *)
ResetReleases == <>[]~BTNC => []<>clk_50 /\ <>[]~s_reset

(* README: "every read and every write happens on the clock edge, and the  *)
(* pipeline inserts no extra wait states for memory".  The word a load in  *)
(* MEM was given is still there when the core takes it.                    *)
LoadKeepsItsWord ==
  [][Falling /\ LoadInMEM /\ Region(LoadAddress) = "DMEM"
       => memReadWord' = memReadWord]_boardVars

(* MCU_WRAPPER_io_tb's FUNC-1: "A high BTNC must show up as s_reset === 1":*)
(* a button that is held gets through.                                     *)
ButtonReachesReset == []<>(BTNC => s_reset)

(* MCU_WRAPPER_tb's TIME-2: the reset lets IMEM "produce a defined ir /    *)
(* PC_USED at address 0 before fetch starts".                              *)
ResetFetchesZero ==
  [][Rising /\ s_reset /\ ~halt_sig
       => PC_USED' = 0 /\ ir' = Fetch(0)]_boardVars

(* The README's memory map: switches and buttons are read at their own     *)
(* addresses.                                                              *)
MemoryMapRead ==
  [][Rising /\ IOBUS_RDEN =>
       /\ DATA_ADDRESS = SWITCHES_ADDR => mmio_q' = SWITCHES
       /\ DATA_ADDRESS = BUTTONS_ADDR  => mmio_q' = BTNS]_boardVars
=============================================================================
