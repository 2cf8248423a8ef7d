-------------------------------- MODULE DMEM --------------------------------
(***************************************************************************)
(* The data RAM (rtl/DMEM.sv): the address arithmetic, the lanes a store   *)
(* writes and the extension of a load, as operators.  A word is four lanes *)
(* of ByteMod values; func3 holds the size (its low two bits, 0 to 2 for   *)
(* byte, half and word) and the sign (4 and up is unsigned).               *)
(***************************************************************************)
EXTENDS Integers

CONSTANTS
  ByteMod,     \* values of a lane: 256 in the RTL
  DMEM_BASE,   \* byte address of word 0: 0x3F60
  DMEM_WORDS   \* words in the RAM: 2048

ASSUME DmemAssumption == /\ ByteMod \in Nat \ {0}
                         /\ DMEM_BASE \in Nat
                         /\ DMEM_WORDS \in Nat \ {0}

(* ByteMod to the power n: the values of n lanes, the weight of lane n.    *)
LaneUnit(n) == CASE n = 0 -> 1
                 [] n = 1 -> ByteMod
                 [] n = 2 -> ByteMod * ByteMod
                 [] n = 3 -> ByteMod * ByteMod * ByteMod
                 [] n = 4 -> ByteMod * ByteMod * ByteMod * ByteMod
Lanes(mem_size) == CASE mem_size = 0 -> 1
                     [] mem_size = 1 -> 2
                     [] mem_size = 2 -> 4

wordAddress(address) == (((address - DMEM_BASE) % LaneUnit(4)) \div 4) % DMEM_WORDS
byteOffset(address)  == address % 4

(* The combinations the two case statements list.                          *)
Aligned(mem_size, offset) ==
  mem_size \in 0 .. 2 /\ offset + Lanes(mem_size) <= 4

LaneField(word, offset, n) == (word \div LaneUnit(offset)) % LaneUnit(n)

SignExtend(v, n) ==
  IF 2 * v >= LaneUnit(n) THEN v + LaneUnit(4) - LaneUnit(n) ELSE v

(* data_out for the registered word.                                       *)
Format(word, offset, func3) ==
  LET size == func3 % 4
      v    == LaneField(word, offset, Lanes(size))
  IN  CASE ~Aligned(size, offset) \/ func3 = 6   -> 0
        [] Aligned(size, offset) /\ func3 \in 0 .. 2 -> SignExtend(v, Lanes(size))
        [] Aligned(size, offset) /\ func3 \in 4 .. 5 -> v

(* The word that a store of data leaves in place of word.                  *)
StoreLanes(word, offset, data, func3) ==
  LET size == func3 % 4
      n    == Lanes(size)
      new  == (data % LaneUnit(n)) - LaneField(word, offset, n)
  IN  IF Aligned(size, offset) THEN word + new * LaneUnit(offset) ELSE word

(* The promise of a data memory: what a load from memory returns, and what *)
(* memory a store leaves.                                                  *)
Loaded(memory, address, func3) ==
  Format(memory[wordAddress(address)], byteOffset(address), func3)

Stored(memory, address, data, func3) ==
  LET a == wordAddress(address)
  IN  [memory EXCEPT ![a] = StoreLanes(@, byteOffset(address), data, func3)]
=============================================================================
