----------------------------- MODULE CPU_Bench -----------------------------
(***************************************************************************)
(* The system of my-tests/tb/riscv_test_CPU_TOP_tb.sv, on which the        *)
(* riscv-tests run: CPU_TOP, the Interconnect and the DMEM on one clock.   *)
(* DATA_IN is a wire here: the word the DMEM registered at the last read,  *)
(* formatted and routed.  MMIO reads return 0, the bench ties the switches *)
(* and the buttons to 0.                                                   *)
(***************************************************************************)
EXTENDS CPU_TOP, DMEM

CONSTANTS
  MMIO_BASE,   \* 0x11000000: addresses from here on are devices
  Memories     \* the data images $readmemh may load

(* A word of the RAM is a word of the core.                                *)
ASSUME MapAssumption ==
  /\ MMIO_BASE \in Nat
  /\ LaneUnit(4) = WordMod
  /\ Memories \subseteq [0 .. DMEM_WORDS - 1 -> Word]

VARIABLES
  memory, memReadWord,  \* DMEM: the RAM, and its registered read word
  region_q              \* Interconnect: where the last read went

benchVars == <<vars, memory, memReadWord, region_q>>

-----------------------------------------------------------------------------
(* Interconnect: the map from addresses to regions, and what it lets       *)
(* through to the DMEM.                                                    *)
Region(address) == CASE address >= MMIO_BASE                       -> "MMIO"
                     [] address < MMIO_BASE /\ address >= DMEM_BASE -> "DMEM"
                     [] address < MMIO_BASE /\ address < DMEM_BASE  -> "NONE"

DMEM_WE   == IOBUS_WE /\ Region(DATA_ADDRESS) = "DMEM"
DMEM_RDEN == IOBUS_RDEN /\ Region(DATA_ADDRESS) = "DMEM"

LatchRegion ==
  region_q' = IF IOBUS_RDEN THEN Region(DATA_ADDRESS) ELSE region_q

(* Wrong on purpose, for the mutation runs: the RAM reads at the address   *)
(* of the instruction in MEM.                                              *)
DmemEdge_LateAddress ==
  /\ memory' = IF DMEM_WE
               THEN Stored(memory, DATA_ADDRESS, DATA_OUT, mem_data)
               ELSE memory
  /\ memReadWord' = IF DMEM_RDEN THEN memory[wordAddress(ex_mem_q.ALU_result)]
                    ELSE memReadWord

(* The read and the write of one edge both see the RAM before it.          *)
DmemEdge ==
  /\ memory' = IF DMEM_WE
               THEN Stored(memory, DATA_ADDRESS, DATA_OUT, mem_data)
               ELSE memory
  /\ memReadWord' = IF DMEM_RDEN THEN memory[wordAddress(DATA_ADDRESS)]
                    ELSE memReadWord

(* data_out is formatted by the size, sign and offset that are on the bus  *)
(* now.                                                                    *)
data_out == Format(memReadWord, byteOffset(DATA_ADDRESS), mem_data)
IOBUS_in_Combinational ==   \* wrong on purpose: routed by the present address
  IF Region(DATA_ADDRESS) = "DMEM" THEN data_out ELSE 0
IOBUS_in == IF region_q = "DMEM" THEN data_out ELSE 0

-----------------------------------------------------------------------------
(* Reset is held from time 0 and released once.                            *)
BenchInit == /\ InitFlops
             /\ RST \in BOOLEAN
             /\ memory \in Memories
             /\ memReadWord \in JunkWords
             /\ region_q = "NONE"
             /\ DATA_IN = IOBUS_in
BenchNext == /\ Edge
             /\ LatchRegion
             /\ DmemEdge
             /\ RST' \in {FALSE, RST}
             /\ DATA_IN' = IOBUS_in'
BenchSpec == BenchInit /\ [][BenchNext]_benchVars

-----------------------------------------------------------------------------
(* Properties, about the load that is in MEM and its address.              *)
LoadInMEM == ex_mem_q.RF_WE /\ ex_mem_q.memRDEN
LoadAddress == ex_mem_q.ALU_result

(* Interconnect.sv's comment on lw followed by sw: the reply is routed by  *)
(* the load's own address, whatever the instruction behind it has put on   *)
(* the bus since.                                                          *)
ReplyRoutedByLoad ==
  LoadInMEM =>
    DATA_IN = IF Region(LoadAddress) = "DMEM" THEN data_out ELSE 0

(* The registered word is the one in memory at the load's address, every   *)
(* older store included, no younger access having replaced it - after a    *)
(* load-use stall too, during which a load in EX reads at a stale address. *)
LoadReadsCurrentWord ==
  LoadInMEM /\ Region(LoadAddress) = "DMEM"
    => memReadWord = memory[wordAddress(LoadAddress)]

(* README: "Loads are sign-extended or zero-extended from the registered   *)
(* word"; DMEM.sv: "Size / sign-extend the registered word using mem_data +*)
(* byte offset".  The load receives its word sized and extended as itself  *)
(* asks.                                                                   *)
LoadsFormatted ==
  LoadInMEM /\ Region(LoadAddress) = "DMEM"
    => DATA_IN = Format(memReadWord, byteOffset(LoadAddress), ex_mem_q.func3)
=============================================================================
