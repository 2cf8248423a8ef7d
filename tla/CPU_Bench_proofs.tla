-------------------------- MODULE CPU_Bench_proofs --------------------------
(***************************************************************************)
(* Proofs about the memory side for every memory, map, word size, program  *)
(* and ALU: what is in MEM, and what was asked of the memory for it, are   *)
(* one instruction; and what DMEM stores is what it loads.                 *)
(***************************************************************************)
EXTENDS CPU_Bench, TLAPS

(* Where the reply comes from is where the load in MEM asked, and the bus  *)
(* carries it.                                                             *)
RoutedInv == /\ ex_mem_q.memRDEN => region_q = Region(LoadAddress)
             /\ DATA_IN = IOBUS_in

(* The instruction that asks at this edge is in MEM after it, unless it is *)
(* squashed.                                                               *)
LEMMA AskedIsNextInMEM ==
  ASSUME Edge
  PROVE  ex_mem_q'.memRDEN =>
           /\ IOBUS_RDEN
           /\ ex_mem_q'.ALU_result = DATA_ADDRESS
           /\ ex_mem_q'.RF_WE = id_ex_q.ctl.RF_WE
BY DEF Edge, LatchExMem, ExMem0, IOBUS_RDEN, DATA_ADDRESS

LEMMA RoutedStep == RoutedInv /\ [BenchNext]_benchVars => RoutedInv'
<1> SUFFICES ASSUME RoutedInv, [BenchNext]_benchVars PROVE RoutedInv'
  OBVIOUS
<1>1. CASE BenchNext
  <2>1. ex_mem_q'.memRDEN => region_q' = Region(ex_mem_q'.ALU_result)
    BY <1>1, AskedIsNextInMEM DEF BenchNext, LatchRegion
  <2>2. DATA_IN' = IOBUS_in'
    BY <1>1 DEF BenchNext
  <2>3. QED BY <2>1, <2>2 DEF RoutedInv, LoadAddress, Region
<1>2. CASE UNCHANGED benchVars
  <2>1. UNCHANGED <<id_ex_q, ex_mem_q, mem_wb_q, DATA_IN, memReadWord, region_q>>
    BY <1>2 DEF benchVars, vars, flops
  <2>2. UNCHANGED <<real_rs1, real_rs2, mem_data>>
    BY <2>1 DEF real_rs1, real_rs2, Forwarded, mem_data
  <2>3. UNCHANGED DATA_ADDRESS
    BY <2>1, <2>2 DEF DATA_ADDRESS, ALU_result, srcA, srcB
  <2>4. UNCHANGED IOBUS_in
    BY <2>1, <2>2, <2>3 DEF IOBUS_in, data_out
  <2>5. QED BY <2>1, <2>4 DEF RoutedInv, LoadAddress, Region
<1>3. QED BY <1>1, <1>2

(* The Interconnect's registered region routes every reply by the address  *)
(* of the load that asked, whatever is on the bus when it arrives.         *)
THEOREM RepliesAreRouted == BenchSpec => []ReplyRoutedByLoad
<1>1. BenchInit => RoutedInv
  BY DEF BenchInit, InitFlops, ExMem0, RoutedInv
<1>2. RoutedInv => ReplyRoutedByLoad
  BY DEF RoutedInv, ReplyRoutedByLoad, LoadInMEM, IOBUS_in
<1>3. QED BY <1>1, <1>2, RoutedStep, PTL DEF BenchSpec

-----------------------------------------------------------------------------
(* No instruction both loads a register and stores; what an empty slot     *)
(* decodes to must not either.                                             *)
LoadsAndStores(c) == c.RF_WE /\ c.memRDEN /\ c.memWE

(* The word of the load in MEM is current; and the shape of ID/EX, which a *)
(* stall only updates.                                                     *)
CurrentInv == /\ {"ctl", "rs1", "rs2"} \subseteq DOMAIN id_ex_q
              /\ ~LoadsAndStores(id_ex_q.ctl)
              /\ LoadReadsCurrentWord

(* The decoder never sets all three.                                       *)
LEMMA DecodedApart ==
  ASSUME \A c \in UnknownControl : ~LoadsAndStores(c),
         NEW i, NEW c \in ControlOf(i)
  PROVE  ~LoadsAndStores(c)
<1>1. ~LoadsAndStores(Decode(i))
  BY DEF Decode, LoadsAndStores
<1>2. QED BY <1>1 DEF ControlOf

(* An edge keeps loads and stores apart in EX.                             *)
LEMMA ApartStep ==
  ASSUME \A c \in UnknownControl : ~LoadsAndStores(c),
         {"ctl", "rs1", "rs2"} \subseteq DOMAIN id_ex_q,
         ~LoadsAndStores(id_ex_q.ctl),
         LatchIdEx
  PROVE  /\ {"ctl", "rs1", "rs2"} \subseteq DOMAIN id_ex_q'
         /\ ~LoadsAndStores(id_ex_q'.ctl)
<1>1. CASE id_ex_q' = IdEx0
  BY <1>1 DEF IdEx0, ZeroControl, LoadsAndStores
<1>2. CASE id_ex_q' = [id_ex_q EXCEPT !.rs1 = real_rs1, !.rs2 = real_rs2]
  <2>1. DOMAIN id_ex_q' = DOMAIN id_ex_q /\ id_ex_q'.ctl = id_ex_q.ctl
    BY <1>2
  <2>2. QED BY <2>1
<1>3. ASSUME NEW c \in ControlOf(if_id_q.ir),
             id_ex_q' = [PC  |-> if_id_q.PC, ir |-> if_id_q.ir, ctl |-> c,
                         rs1 |-> RegRead(if_id_q.ir.rs1),
                         rs2 |-> RegRead(if_id_q.ir.rs2)]
      PROVE  /\ {"ctl", "rs1", "rs2"} \subseteq DOMAIN id_ex_q'
             /\ ~LoadsAndStores(id_ex_q'.ctl)
  BY <1>3, DecodedApart
<1>4. QED BY <1>1, <1>2, <1>3 DEF LatchIdEx

LEMMA CurrentStep ==
  ASSUME \A c \in UnknownControl : ~LoadsAndStores(c)
  PROVE  CurrentInv /\ [BenchNext]_benchVars => CurrentInv'
<1> SUFFICES ASSUME CurrentInv, [BenchNext]_benchVars PROVE CurrentInv'
  OBVIOUS
<1>1. CASE BenchNext
  <2> SUFFICES LoadReadsCurrentWord'
    BY <1>1, ApartStep DEF CurrentInv, BenchNext, Edge
  <2> SUFFICES ASSUME ex_mem_q'.RF_WE, ex_mem_q'.memRDEN,
                      Region(ex_mem_q'.ALU_result) = "DMEM"
               PROVE  memReadWord' = memory'[wordAddress(ex_mem_q'.ALU_result)]
    BY DEF LoadReadsCurrentWord, LoadInMEM, LoadAddress, Region, wordAddress
  <2>1. /\ IOBUS_RDEN /\ id_ex_q.ctl.RF_WE
        /\ ex_mem_q'.ALU_result = DATA_ADDRESS
    BY <1>1, AskedIsNextInMEM DEF BenchNext
  <2>2. DMEM_RDEN
    BY <2>1 DEF DMEM_RDEN
  <2>3. ~DMEM_WE
    BY <2>1 DEF DMEM_WE, IOBUS_WE, IOBUS_RDEN, CurrentInv, LoadsAndStores
  <2>4. QED BY <1>1, <2>1, <2>2, <2>3 DEF BenchNext, DmemEdge
<1>2. CASE UNCHANGED benchVars
  <2>1. UNCHANGED <<id_ex_q, ex_mem_q, memReadWord, memory>>
    BY <1>2 DEF benchVars, vars, flops
  <2>2. QED BY <2>1 DEF CurrentInv, LoadReadsCurrentWord, LoadInMEM, LoadAddress,
                        LoadsAndStores, Region, wordAddress
<1>3. QED BY <1>1, <1>2

(* DMEM's registered word is the one in memory at the load's address when  *)
(* the load is in MEM: what it read while it was stalled, at an address it *)
(* did not have yet, is gone, and no store is younger.                     *)
THEOREM LoadsReadCurrentWords ==
  ASSUME \A c \in UnknownControl : ~LoadsAndStores(c)
  PROVE  BenchSpec => []LoadReadsCurrentWord
<1>1. BenchInit => CurrentInv
  BY DEF BenchInit, InitFlops, IdEx0, ExMem0, ZeroControl, CurrentInv, LoadsAndStores,
         LoadReadsCurrentWord, LoadInMEM
<1>2. CurrentInv => LoadReadsCurrentWord
  BY DEF CurrentInv
<1>3. QED BY <1>1, <1>2, CurrentStep, PTL DEF BenchSpec

-----------------------------------------------------------------------------
(* The lanes of a word, as the digits of a number.                         *)

(* The number a is x times p and r.                                         *)
Digits(a, p, x, r) == x \in Int /\ r \in 0 .. p - 1 /\ a = x * p + r

(* What \div and % compute.                                                *)
LEMMA Division ==
  ASSUME NEW a \in Int, NEW p \in Nat \ {0}
  PROVE  \E x, r : Digits(a, p, x, r) /\ x = a \div p /\ r = a % p
<1>1. PICK x \in Int, r \in 0 .. p - 1 : x = a \div p /\ r = a % p
  OBVIOUS
<1>2. a = x * p + r
  BY <1>1
<1>3. QED BY <1>1, <1>2 DEF Digits

LEMMA Quotient ==
  ASSUME NEW p \in Nat \ {0}, NEW a, NEW x, NEW r, Digits(a, p, x, r)
  PROVE  a \in Int /\ a \div p = x /\ a % p = r
BY DEF Digits

(* The quotient of a number below n * p is below n.                        *)
LEMMA QuotientBelow ==
  ASSUME NEW n \in Nat \ {0}, NEW p \in Nat \ {0}, NEW k, Digits(k, p, n, 0),
         NEW a \in 0 .. k - 1, NEW x, NEW r, Digits(a, p, x, r)
  PROVE  x \in 0 .. n - 1
<1>1. x \in Int /\ r \in 0 .. p - 1 /\ a = x * p + r /\ k = n * p
  BY DEF Digits
<1>2. ~(x <= -1)
  <2> SUFFICES ASSUME x <= -1 PROVE FALSE
    OBVIOUS
  <2>1. x * p <= - p
    BY <1>1
  <2>2. QED BY <1>1, <2>1
<1>3. ~(x >= n)
  <2> SUFFICES ASSUME x >= n PROVE FALSE
    OBVIOUS
  <2>1. x * p >= n * p
    BY <1>1
  <2>2. QED BY <1>1, <2>1
<1>4. QED BY <1>1, <1>2, <1>3

(* Conversely, digits below n and p make up a number below n * p.          *)
LEMMA DigitsBelow ==
  ASSUME NEW n \in Nat \ {0}, NEW p \in Nat \ {0}, NEW k, Digits(k, p, n, 0),
         NEW x \in 0 .. n - 1, NEW r, NEW a, Digits(a, p, x, r)
  PROVE  a \in 0 .. k - 1
<1>1. r \in 0 .. p - 1 /\ a = x * p + r /\ k = n * p
  BY DEF Digits
<1>2. x * p <= (n - 1) * p /\ x * p >= 0
  OBVIOUS
<1>3. (n - 1) * p = k - p
  BY <1>1
<1>4. a \in Int /\ k \in Int
  BY <1>1
<1>5. QED BY <1>1, <1>2, <1>3, <1>4

(* The word w with m for x, which have the digits d and f in one place.    *)
LEMMA DigitReplaced ==
  ASSUME NEW p \in Nat \ {0}, NEW q \in Nat \ {0}, NEW w, NEW x, NEW lo, Digits(w, p, x, lo),
         NEW h, NEW f, Digits(x, q, h, f), NEW m, NEW d, Digits(m, q, h, d)
  PROVE  Digits(w + (d - f) * p, p, m, lo)
<1>1. /\ w = x * p + lo /\ x = h * q + f /\ m = h * q + d
      /\ {x, lo, h, f, m, d} \subseteq Int /\ lo \in 0 .. p - 1
  BY DEF Digits
<1>2. d - f = m - x
  BY <1>1
<1>3. (m - x) * p = m * p - x * p
  BY <1>1
<1>4. w + (m - x) * p = m * p + lo
  BY <1>1, <1>3
<1>5. QED BY <1>1, <1>2, <1>4 DEF Digits

(* The units of adjacent lanes multiply.                                   *)
LEMMA UnitsMultiply ==
  /\ \A a \in 0 .. 4 : LaneUnit(a) \in Nat \ {0}
  /\ \A a, b, c \in 0 .. 4 : c = a + b => LaneUnit(c) = LaneUnit(b) * LaneUnit(a)
<1>1. PICK b \in Nat \ {0} : b = ByteMod
  BY DmemAssumption
<1>2. PICK b2 \in Nat \ {0} : b2 = b * b
  OBVIOUS
<1>3. PICK b3 \in Nat \ {0} : b3 = b * b * b
  OBVIOUS
<1>4. PICK b4 \in Nat \ {0} : b4 = b * b * b * b
  OBVIOUS
<1>5. /\ LaneUnit(0) = 1 /\ LaneUnit(1) = b /\ LaneUnit(2) = b2
      /\ LaneUnit(3) = b3 /\ LaneUnit(4) = b4
  BY <1>1, <1>2, <1>3, <1>4 DEF LaneUnit
<1>6. \A a \in 0 .. 4 : LaneUnit(a) \in Nat \ {0}
  BY <1>5
<1>7. \A a \in 0 .. 4 : LaneUnit(a) = LaneUnit(0) * LaneUnit(a)
                        /\ LaneUnit(a) = LaneUnit(a) * LaneUnit(0)
  BY <1>5, <1>6
<1>8. /\ b2 = b * b /\ b3 = b2 * b /\ b3 = b * b2 /\ b4 = b2 * b2 /\ b4 = b3 * b /\ b4 = b * b3
  BY <1>2, <1>3, <1>4
<1>9. ASSUME NEW a \in 0 .. 4, NEW d \in 0 .. 4, NEW c \in 0 .. 4, c = a + d
      PROVE  LaneUnit(c) = LaneUnit(d) * LaneUnit(a)
  <2>1. CASE a = 0 \/ d = 0
    BY <1>7, <1>9, <2>1
  <2>2. CASE a = 1 /\ d \in 1 .. 3
    BY <1>5, <1>8, <1>9, <2>2
  <2>3. CASE a = 2 /\ d \in 1 .. 2
    BY <1>5, <1>8, <1>9, <2>3
  <2>4. CASE a = 3 /\ d = 1
    BY <1>5, <1>8, <1>9, <2>4
  <2>5. QED BY <1>9, <2>1, <2>2, <2>3, <2>4
<1>10. QED BY <1>6, <1>9
(* A lane that a store may write has room in a word.                       *)
LEMMA LaneUnits ==
  ASSUME NEW size, NEW offset \in 0 .. 3, Aligned(size, offset)
  PROVE  /\ LaneUnit(offset) \in Nat \ {0}
         /\ LaneUnit(Lanes(size)) \in Nat \ {0}
         /\ \E r \in Nat \ {0} : LaneUnit(4) = (r * LaneUnit(Lanes(size))) * LaneUnit(offset)
<1>1. PICK n \in 1 .. 4 : n = Lanes(size) /\ offset + n <= 4
  BY DEF Aligned, Lanes
<1>2. offset + n \in 0 .. 4 /\ 4 - (offset + n) \in 0 .. 4 /\ offset \in 0 .. 4 /\ n \in 0 .. 4
  BY <1>1
<1> DEFINE p == LaneUnit(offset)
           q == LaneUnit(n)
           t == LaneUnit(offset + n)
           r == LaneUnit(4 - (offset + n))
<1>3. /\ p \in Nat \ {0} /\ q \in Nat \ {0} /\ t \in Nat \ {0} /\ r \in Nat \ {0}
      /\ t = q * p
  BY <1>1, <1>2, UnitsMultiply
<1>4. LaneUnit(4) = r * t
  <2>1. PICK a \in 0 .. 4, b \in 0 .. 4 : a = offset + n /\ b = 4 - (offset + n)
    BY <1>2
  <2>2. 4 = a + b /\ 4 \in 0 .. 4
    BY <1>1, <2>1
  <2>3. LaneUnit(4) = LaneUnit(b) * LaneUnit(a)
    BY <2>2, UnitsMultiply
  <2>4. QED BY <2>1, <2>3
<1> HIDE DEF p, q, t, r
<1>5. r * t = (r * q) * p
  BY <1>3
<1>6. QED BY <1>1, <1>3, <1>4, <1>5 DEF p, q

(* A word of the RAM is four lanes.                                        *)
RamWord == 0 .. LaneUnit(4) - 1

(* The lanes that a store writes hold the data.                            *)
Fills(s, offset, data, func3) ==
  Aligned(func3 % 4, offset)
    => LaneField(s, offset, Lanes(func3 % 4)) = data % LaneUnit(Lanes(func3 % 4))

(* The same store once more changes nothing.                               *)
Repeats(s, offset, data, func3) == StoreLanes(s, offset, data, func3) = s

(* What a store leaves is a word of the RAM, filled, and storing again     *)
(* changes nothing.                                                        *)
LEMMA StoreFills ==
  ASSUME NEW word \in RamWord, NEW offset \in 0 .. 3, NEW data \in Int, NEW func3 \in 0 .. 7,
         NEW s, s = StoreLanes(word, offset, data, func3)
  PROVE  /\ s \in RamWord
         /\ Fills(s, offset, data, func3)
         /\ Repeats(s, offset, data, func3)
<1>1. CASE ~Aligned(func3 % 4, offset)
  BY <1>1 DEF StoreLanes, Fills, Repeats
<1>2. CASE Aligned(func3 % 4, offset)
  <2>1. PICK p \in Nat \ {0} : p = LaneUnit(offset)
    BY <1>2, LaneUnits
  <2>2. PICK q \in Nat \ {0} : q = LaneUnit(Lanes(func3 % 4))
    BY <1>2, LaneUnits
  <2>3. PICK r \in Nat \ {0} : LaneUnit(4) = (r * q) * p
    BY <1>2, <2>1, <2>2, LaneUnits
  <2>4. PICK n, k : n = r * q /\ k = n * p
    OBVIOUS
  <2>5. /\ n \in Nat \ {0} /\ k \in Nat /\ Digits(n, q, r, 0) /\ Digits(k, p, n, 0)
        /\ RamWord = 0 .. k - 1
    BY <2>3, <2>4 DEF RamWord, Digits
  <2>6. PICK x, lo : Digits(word, p, x, lo) /\ x = word \div p
    <3>1. word \in Int
      BY <2>5
    <3>2. QED BY <3>1, Division
  <2>7. x \in 0 .. n - 1
    BY <2>5, <2>6, QuotientBelow
  <2>8. PICK h, f : Digits(x, q, h, f) /\ f = x % q
    <3>1. x \in Int
      BY <2>6 DEF Digits
    <3>2. QED BY <3>1, Division
  <2>9. h \in 0 .. r - 1
    BY <2>5, <2>7, <2>8, QuotientBelow
  <2>10. PICK d \in 0 .. q - 1 : d = data % q
    OBVIOUS
  <2>11. PICK m : Digits(m, q, h, d)
    BY <2>9 DEF Digits
  <2>12. m \in 0 .. n - 1
    BY <2>5, <2>9, <2>11, DigitsBelow
  <2>13. s = word + (d - f) * p
    BY <1>2, <2>1, <2>2, <2>6, <2>8, <2>10 DEF StoreLanes, LaneField
  <2>14. Digits(s, p, m, lo)
    BY <2>6, <2>8, <2>11, <2>13, DigitReplaced
  <2>15. s \in 0 .. k - 1
    BY <2>5, <2>12, <2>14, DigitsBelow
  <2>16. s \div p = m /\ m % q = d
    BY <2>11, <2>14, Quotient
  <2>17. StoreLanes(s, offset, data, func3) = s + (d - d) * p
    BY <1>2, <2>1, <2>2, <2>10, <2>16 DEF StoreLanes, LaneField
  <2>18. s + (d - d) * p = s
    BY <2>10, <2>15
  <2>19. Fills(s, offset, data, func3)
    BY <1>2, <2>1, <2>2, <2>10, <2>16 DEF LaneField, Fills
  <2>20. QED BY <2>5, <2>15, <2>17, <2>18, <2>19 DEF Repeats
<1>3. QED BY <1>1, <1>2

(* What a load returns is a word, whatever the size and the sign.          *)
LEMMA FormatTyped ==
  ASSUME NEW word \in RamWord, NEW offset \in 0 .. 3, NEW func3 \in 0 .. 7
  PROVE  Format(word, offset, func3) \in RamWord
<1>0. LaneUnit(4) \in Nat \ {0}
  BY DmemAssumption DEF LaneUnit
<1>1. CASE ~Aligned(func3 % 4, offset) \/ func3 = 6
  BY <1>0, <1>1 DEF Format, RamWord
<1>2. CASE Aligned(func3 % 4, offset) /\ func3 # 6
  <2>1. PICK p \in Nat \ {0} : p = LaneUnit(offset)
    BY <1>2, LaneUnits
  <2>2. PICK q \in Nat \ {0} : q = LaneUnit(Lanes(func3 % 4))
    BY <1>2, LaneUnits
  <2>3. PICK r \in Nat \ {0} : LaneUnit(4) = (r * q) * p
    BY <1>2, <2>1, <2>2, LaneUnits
  <2>4. q <= (r * q) * p
    <3>1. q <= r * q /\ r * q \in Nat \ {0}
      OBVIOUS
    <3>2. r * q <= (r * q) * p
      BY <3>1
    <3>3. QED BY <3>1, <3>2
  <2>5. PICK v \in 0 .. q - 1 : v = (word \div p) % q
    <3>1. word \in Int
      BY <1>0 DEF RamWord
    <3>2. word \div p \in Int
      BY <3>1
    <3>3. QED BY <3>2
  <2>6. q <= LaneUnit(4)
    BY <2>3, <2>4
  <2>7. v \in RamWord /\ SignExtend(v, Lanes(func3 % 4)) \in RamWord
    BY <1>0, <2>2, <2>6 DEF SignExtend, RamWord
  <2>8. func3 \in 0 .. 2 \/ func3 \in 4 .. 5
    BY <1>2 DEF Aligned
  <2>9. v = LaneField(word, offset, Lanes(func3 % 4))
    BY <2>1, <2>2, <2>5 DEF LaneField
  <2>10. QED BY <1>2, <2>7, <2>8, <2>9 DEF Format
<1>3. QED BY <1>1, <1>2


(* What a store to some lanes does to others: nothing.                     *)
LEMMA HigherDigits ==
  ASSUME NEW p \in Nat \ {0}, NEW q \in Nat \ {0}, NEW t \in Nat \ {0},
         NEW w, NEW x, NEW lo, Digits(w, p, x, lo),
         NEW h, NEW f, Digits(x, q, h, f),
         NEW u, u = t * (q * p)
  PROVE  w \div u = h \div t
<1>1. PICK g, e : Digits(h, t, g, e) /\ g = h \div t
  BY Division DEF Digits
<1>2. PICK y : Digits(y, q, e, f)
  <2>1. PICK y \in Int : y = e * q + f
    BY <1>1 DEF Digits
  <2>2. QED BY <1>1, <2>1 DEF Digits
<1>3. PICK z : Digits(z, p, y, lo)
  BY <1>2 DEF Digits
<1>4. PICK k, l : Digits(k, q, t, 0) /\ Digits(l, p, k, 0)
  <2>1. PICK k \in Int : k = t * q
    OBVIOUS
  <2>2. PICK l \in Int : l = k * p
    BY <2>1
  <2>3. QED BY <2>1, <2>2 DEF Digits
<1>5. y \in 0 .. k - 1
  BY <1>1, <1>2, <1>4, DigitsBelow DEF Digits
<1>6. z \in 0 .. l - 1
  BY <1>3, <1>4, <1>5, DigitsBelow DEF Digits
<1>7. /\ w = x * p + lo /\ x = h * q + f /\ h = g * t + e
      /\ y = e * q + f /\ z = y * p + lo /\ {g, e, f, lo, x, h, y, z} \subseteq Int
  BY <1>1, <1>2, <1>3 DEF Digits
<1>8. u = l /\ l \in Nat \ {0}
  BY <1>4 DEF Digits
<1>9. w = g * u + z
  <2>1. x = g * (t * q) + y
    BY <1>7
  <2>2. x * p = g * u + y * p
    BY <1>7, <2>1
  <2>3. QED BY <1>7, <2>2
<1>10. Digits(w, u, g, z)
  BY <1>6, <1>7, <1>8, <1>9 DEF Digits
<1>11. QED BY <1>1, <1>8, <1>10, Quotient

LEMMA LowerDigits ==
  ASSUME NEW p \in Nat \ {0}, NEW q \in Nat \ {0}, NEW t \in Nat \ {0},
         NEW k, Digits(k, p, q, 0), NEW u, Digits(u, k, t, 0),
         NEW w \in Int, NEW y, NEW j, Digits(j, u, y, 0), NEW v, v = w + j
  PROVE  (v \div p) % q = (w \div p) % q
<1>1. PICK x, lo : Digits(w, p, x, lo) /\ x = w \div p
  BY Division
<1>2. PICK h, f : Digits(x, q, h, f) /\ f = x % q
  BY <1>1, Division DEF Digits
<1>3. PICK g \in Int : g = h + y * t
  BY <1>2 DEF Digits
<1>4. PICK i : Digits(i, q, g, f)
  <2>1. PICK i \in Int : i = g * q + f
    BY <1>2 DEF Digits
  <2>2. QED BY <1>2, <1>3, <2>1 DEF Digits
<1>5. Digits(v, p, i, lo)
  <2>1. x \in Int /\ lo \in 0 .. p - 1 /\ w = x * p + lo
    BY <1>1 DEF Digits
  <2>2. h \in Int /\ f \in 0 .. q - 1 /\ x = h * q + f
    BY <1>2 DEF Digits
  <2>3. i = g * q + f /\ i \in Int
    BY <1>2, <1>3, <1>4 DEF Digits
  <2>4. y \in Int /\ j = y * (t * (q * p)) /\ v = w + j
    BY DEF Digits
  <2>5. g * q = h * q + y * (t * q)
    BY <1>3, <2>2, <2>4
  <2>6. i = x + y * (t * q)
    BY <2>2, <2>3, <2>4, <2>5
  <2>7. i * p = x * p + y * (t * (q * p))
    BY <2>1, <2>4, <2>6
  <2>8. v = i * p + lo
    BY <2>1, <2>3, <2>4, <2>7
  <2>9. QED BY <2>1, <2>3, <2>8 DEF Digits
<1>6. QED BY <1>1, <1>2, <1>4, <1>5, Quotient

(* Lanes that do not overlap those of an aligned store keep their values.  *)
LEMMA OtherLanesKept ==
  ASSUME NEW word \in RamWord, NEW offset \in 0 .. 3, NEW data \in Int, NEW func3 \in 0 .. 7,
         Aligned(func3 % 4, offset),
         NEW o \in 0 .. 4, NEW n \in 0 .. 4,
         o + n <= offset \/ (offset + Lanes(func3 % 4) <= o /\ o + n <= 4)
  PROVE  LaneField(StoreLanes(word, offset, data, func3), o, n) = LaneField(word, o, n)
<1>1. PICK c \in 1 .. 4 : c = Lanes(func3 % 4) /\ offset + c <= 4
  BY DEF Aligned, Lanes
<1>2. PICK p \in Nat \ {0}, q \in Nat \ {0} : p = LaneUnit(offset) /\ q = LaneUnit(c)
  <2>1. offset \in 0 .. 4 /\ c \in 0 .. 4
    OBVIOUS
  <2>2. QED BY <2>1, UnitsMultiply
<1>3. word \in Int
  BY UnitsMultiply DEF RamWord
<1>4. PICK x, lo : Digits(word, p, x, lo) /\ x = word \div p
  BY <1>3, Division
<1>5. PICK h, f : Digits(x, q, h, f) /\ f = x % q
  BY <1>4, Division DEF Digits
<1>6. PICK d \in 0 .. q - 1 : d = data % q
  OBVIOUS
<1>7. PICK s : s = word + (d - f) * p /\ s = StoreLanes(word, offset, data, func3)
  BY <1>1, <1>2, <1>4, <1>5, <1>6 DEF StoreLanes, LaneField
<1>8. PICK p2 \in Nat \ {0}, q2 \in Nat \ {0} : p2 = LaneUnit(o) /\ q2 = LaneUnit(n)
  BY UnitsMultiply
<1>9. CASE o + n <= offset
  <2>1. PICK a \in 0 .. 4, e \in 0 .. 4 : a = o + n /\ e = offset - a
    BY <1>9
  <2>2. PICK t \in Nat \ {0} : t = LaneUnit(e)
    BY UnitsMultiply
  <2>3. LaneUnit(a) = q2 * p2
    BY <1>8, <2>1, UnitsMultiply
  <2>4. p = t * LaneUnit(a)
    <3>1. offset \in 0 .. 4 /\ offset = a + e
      BY <2>1
    <3>2. QED BY <1>2, <2>2, <3>1, UnitsMultiply
  <2>5. /\ Digits(LaneUnit(a), p2, q2, 0) /\ Digits(p, LaneUnit(a), t, 0)
    <3>1. PICK k \in Nat \ {0} : k = LaneUnit(a)
      BY UnitsMultiply
    <3>2. Digits(k, p2, q2, 0)
      BY <2>3, <3>1 DEF Digits
    <3>3. Digits(p, k, t, 0)
      BY <2>4, <3>1 DEF Digits
    <3>4. QED BY <3>1, <3>2, <3>3
  <2>6. PICK j : Digits(j, p, d - f, 0) /\ s = word + j
    <3>1. d - f \in Int
      BY <1>5, <1>6 DEF Digits
    <3>2. PICK j \in Int : j = (d - f) * p
      BY <3>1
    <3>3. QED BY <1>7, <3>1, <3>2 DEF Digits
  <2>7. (s \div p2) % q2 = (word \div p2) % q2
    BY <1>3, <2>5, <2>6, LowerDigits
  <2>8. QED BY <1>7, <1>8, <2>7 DEF LaneField
<1>10. CASE offset + c <= o /\ o + n <= 4
  <2>1. PICK a \in 0 .. 4, e \in 0 .. 4 : a = offset + c /\ e = o - a
    BY <1>1, <1>10
  <2>2. PICK t \in Nat \ {0} : t = LaneUnit(e)
    BY UnitsMultiply
  <2>3. LaneUnit(a) = q * p
    <3>1. offset \in 0 .. 4 /\ c \in 0 .. 4
      OBVIOUS
    <3>2. QED BY <1>2, <2>1, <3>1, UnitsMultiply
  <2>4. p2 = t * LaneUnit(a)
    <3>1. o = a + e
      BY <2>1
    <3>2. QED BY <1>8, <2>2, <3>1, UnitsMultiply
  <2>5. p2 = t * (q * p)
    BY <2>3, <2>4
  <2>6. PICK m : Digits(m, q, h, d)
    <3>1. PICK m \in Int : m = h * q + d
      BY <1>5 DEF Digits
    <3>2. QED BY <1>5, <3>1 DEF Digits
  <2>7. Digits(s, p, m, lo)
    BY <1>4, <1>5, <1>7, <2>6, DigitReplaced
  <2>8. word \div p2 = h \div t
    BY <1>4, <1>5, <2>5, HigherDigits
  <2>9. s \div p2 = h \div t
    BY <2>5, <2>6, <2>7, HigherDigits
  <2>10. QED BY <1>7, <1>8, <2>8, <2>9 DEF LaneField
<1>11. QED BY <1>1, <1>9, <1>10

(* A word index is one of the RAM's.                                       *)
LEMMA WordAddressTyped == \A a \in Int : wordAddress(a) \in 0 .. DMEM_WORDS - 1
<1> SUFFICES ASSUME NEW a \in Int PROVE wordAddress(a) \in 0 .. DMEM_WORDS - 1
  OBVIOUS
<1>1. PICK u \in Nat \ {0} : u = LaneUnit(4)
  BY UnitsMultiply
<1>2. a - DMEM_BASE \in Int
  BY DmemAssumption
<1>3. PICK b \in 0 .. u - 1 : b = (a - DMEM_BASE) % u
  BY <1>2
<1>4. b \div 4 \in Int
  OBVIOUS
<1>5. (b \div 4) % DMEM_WORDS \in 0 .. DMEM_WORDS - 1
  BY <1>4, DmemAssumption
<1>6. QED BY <1>1, <1>3, <1>5 DEF wordAddress

(* A load finds what the last store left in its lanes: the bytes that the  *)
(* case statements of DMEM.sv write are those that they read, sized and    *)
(* extended, and a store to other lanes or to another word changes nothing.*)
THEOREM LoadsSeeStores ==
  ASSUME NEW ram \in [0 .. DMEM_WORDS - 1 -> RamWord],
         NEW address \in Nat, NEW data \in Nat, NEW size \in 0 .. 2,
         Aligned(size, byteOffset(address)),
         NEW after, after = Stored(ram, address, data, size)
  PROVE  LET n     == Lanes(size)
             bytes == data % LaneUnit(n)
             first == byteOffset(address)
         IN  /\ after \in [0 .. DMEM_WORDS - 1 -> RamWord]
             /\ Loaded(after, address, size) = SignExtend(bytes, n)
             /\ size < 2 => Loaded(after, address, size + 4) = bytes
             /\ \A other \in Nat, func3 \in 0 .. 7 :
                  \/ wordAddress(other) # wordAddress(address)
                  \/ byteOffset(other) + Lanes(func3 % 4) <= first
                  \/ first + n <= byteOffset(other)
                  => Loaded(after, other, func3) = Loaded(ram, other, func3)
<1> DEFINE n     == Lanes(size)
           first == byteOffset(address)
           a     == wordAddress(address)
           word  == ram[a]
           s     == StoreLanes(word, first, data, size)
<1>1. /\ first \in 0 .. 3 /\ size \in 0 .. 7 /\ size % 4 = size /\ data \in Int
      /\ a \in 0 .. DMEM_WORDS - 1 /\ word \in RamWord
  <2>1. a \in 0 .. DMEM_WORDS - 1
    BY WordAddressTyped
  <2>2. first \in 0 .. 3
    BY DEF byteOffset
  <2>3. size \in 0 .. 7 /\ size % 4 = size /\ data \in Int
    OBVIOUS
  <2>4. QED BY <2>1, <2>2, <2>3
<1>2. after = [ram EXCEPT ![a] = s]
  BY DEF Stored
<1>3. s \in RamWord /\ LaneField(s, first, n) = data % LaneUnit(n)
  <2>1. Aligned(size % 4, first)
    BY <1>1
  <2> HIDE DEF first, a, word
  <2>2. /\ s \in RamWord
        /\ LaneField(s, first, Lanes(size % 4)) = data % LaneUnit(Lanes(size % 4))
    BY <1>1, <2>1, StoreFills DEF Fills
  <2>3. QED BY <1>1, <2>2
<1>4. after \in [0 .. DMEM_WORDS - 1 -> RamWord] /\ after[a] = s
  BY <1>1, <1>2, <1>3
<1>5. Loaded(after, address, size) = SignExtend(data % LaneUnit(n), n)
  BY <1>1, <1>3, <1>4 DEF Loaded, Format
<1>6. size < 2 => Loaded(after, address, size + 4) = data % LaneUnit(n)
  BY <1>1, <1>3, <1>4 DEF Loaded, Format
<1>7. ASSUME NEW other \in Nat, NEW func3 \in 0 .. 7,
             \/ wordAddress(other) # a
             \/ byteOffset(other) + Lanes(func3 % 4) <= first
             \/ first + n <= byteOffset(other)
      PROVE  Loaded(after, other, func3) = Loaded(ram, other, func3)
  <2>1. CASE wordAddress(other) # a
    <3>1. after[wordAddress(other)] = ram[wordAddress(other)]
      BY <1>2, <2>1, WordAddressTyped
    <3>2. QED BY <3>1 DEF Loaded
  <2>2. CASE wordAddress(other) = a /\ ~Aligned(func3 % 4, byteOffset(other))
    BY <2>2 DEF Loaded, Format
  <2>3. CASE wordAddress(other) = a /\ Aligned(func3 % 4, byteOffset(other))
    <3> DEFINE o == byteOffset(other)
               c == Lanes(func3 % 4)
    <3>1. o \in 0 .. 4 /\ c \in 0 .. 4 /\ o + c <= 4
      BY <2>3 DEF Aligned, Lanes, byteOffset
    <3>2. o + c <= first \/ first + n <= o
      BY <1>7, <2>3
    <3>3. LaneField(s, o, c) = LaneField(word, o, c)
      <4>1. o + c <= first \/ (first + Lanes(size % 4) <= o /\ o + c <= 4)
        BY <1>1, <3>1, <3>2
      <4>2. /\ Aligned(size % 4, first) /\ word \in RamWord /\ first \in 0 .. 3
            /\ data \in Int /\ size \in 0 .. 7
        BY <1>1
      <4>3. o \in 0 .. 4 /\ c \in 0 .. 4
        BY <3>1
      <4> HIDE DEF first, a, word, o, c
      <4>4. QED BY <4>1, <4>2, <4>3, OtherLanesKept
    <3>4. QED BY <1>4, <2>3, <3>3 DEF Loaded, Format
  <2>4. QED BY <2>1, <2>2, <2>3
<1>8. QED BY <1>4, <1>5, <1>6, <1>7
=============================================================================
