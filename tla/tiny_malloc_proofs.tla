------------------------- MODULE tiny_malloc_proofs -------------------------
(***************************************************************************)
(* The allocator of debug/programs/tiny-malloc.c for every width of        *)
(* size_t, start of the heap, stack depth, sequence of calls, size and     *)
(* alignment that SizesInReach and PowersOfTwo allow.                      *)
(***************************************************************************)
EXTENDS tiny_malloc, SequenceTheorems, FiniteSetTheorems, WellFoundedInduction,
        TLAPS

Assumptions == SizesInReach /\ PowersOfTwo

-----------------------------------------------------------------------------
(* Alignment.                                                              *)

(* What the code makes of an alignment that is a power of two.             *)
Aligns(align) == align \in Nat \ {0} /\ (align \in {1, 2} \/ align % SIZE_T = 0)

(* What % computes.                                                        *)
LEMMA Remainder ==
  ASSUME NEW p \in Nat \ {0}, NEW a \in Int
  PROVE  \E k \in Int, r \in 0 .. p - 1 : a = k * p + r /\ r = a % p
OBVIOUS

(* What % says of multiples.                                               *)
LEMMA Multiple ==
  ASSUME NEW p \in Nat \ {0}, NEW a \in Int
  PROVE  a % p = 0 <=> \E k \in Int : a = k * p
<1>1. ASSUME NEW k \in Int, a = k * p PROVE a % p = 0
  BY <1>1
<1>2. ASSUME a % p = 0 PROVE \E k \in Int : a = k * p
  <2>1. PICK k \in Int, r \in 0 .. p - 1 : a = k * p + r /\ r = a % p
    BY Remainder
  <2>2. a = k * p
    BY <1>2, <2>1
  <2>3. QED BY <2>2
<1>3. QED BY <1>1, <1>2

(* M_ALIGN is the least that makes x a multiple of align.                  *)
LEMMA Aligning ==
  ASSUME NEW x \in Int, NEW align \in Nat \ {0}
  PROVE  /\ M_ALIGN(x, align) \in 0 .. align - 1
         /\ (x + M_ALIGN(x, align)) % align = 0
         /\ \A d \in Nat : (x + d) % align = 0 => M_ALIGN(x, align) <= d
<1>1. PICK q \in Int, r \in 0 .. align - 1 : -x = q * align + r /\ r = (-x) % align
  <2>1. -x \in Int
    OBVIOUS
  <2>2. QED BY <2>1, Remainder
<1>2. M_ALIGN(x, align) = r
  BY <1>1 DEF M_ALIGN
<1>3. PICK u \in Int : u = q * align
  OBVIOUS
<1>4. (x + r) % align = 0
  <2>1. x + r \in Int /\ -q \in Int /\ x + r = (-q) * align
    BY <1>1
  <2>2. QED BY <2>1, Multiple
<1>5. ASSUME NEW d \in Nat, (x + d) % align = 0, ~(r <= d)
      PROVE  FALSE
  <2>1. PICK k \in Int : x + d = k * align
    <3>1. x + d \in Int
      OBVIOUS
    <3>2. QED BY <1>5, <3>1, Multiple
  <2>2. PICK v \in Int : v = k * align
    OBVIOUS
  <2>3. PICK n \in Int : n = k + q
    OBVIOUS
  <2>4. n * align = v + u
    BY <1>3, <2>2, <2>3
  <2>5. v + u = d - r
    BY <1>1, <1>3, <2>1, <2>2
  <2>6. n * align < 0 /\ n * align > - align
    BY <1>5, <2>4, <2>5
  <2>7. ~(n <= -1)
    <3>1. n <= -1 => n * align <= - align
      OBVIOUS
    <3>2. QED BY <2>6, <3>1
  <2>8. ~(n >= 0)
    <3>1. n >= 0 => n * align >= 0
      OBVIOUS
    <3>2. QED BY <2>6, <3>1
  <2>9. QED BY <2>7, <2>8
<1>6. QED BY <1>2, <1>4, <1>5

(* The gap from a word's address to an alignment is of whole words.        *)
LEMMA GapOfWords ==
  ASSUME NEW x \in Int, x % SIZE_T = 0, NEW align, Aligns(align)
  PROVE  M_ALIGN(x, align) % SIZE_T = 0
<1>1. CASE align \in {1, 2}
  BY <1>1 DEF M_ALIGN, SIZE_T
<1>2. CASE align \in Nat \ {0} /\ align % SIZE_T = 0
  <2>1. PICK m \in Int, y \in Int : align = 4 * m /\ x = 4 * y
    BY <1>2 DEF SIZE_T
  <2>2. PICK q \in Int, r \in 0 .. align - 1 : -x = q * align + r /\ r = (-x) % align
    BY <1>2
  <2>3. PICK p \in Int : p = q * m
    OBVIOUS
  <2>4. q * align = 4 * p
    BY <2>1, <2>3
  <2>5. r = 4 * (-y - p)
    BY <2>1, <2>2, <2>4
  <2>6. r % 4 = 0
    BY <2>5
  <2>7. QED BY <2>2, <2>6 DEF M_ALIGN, SIZE_T
<1>3. QED BY <1>1, <1>2 DEF Aligns

(* memalign leaves nothing before the block or room for a list entry, and  *)
(* what it returns is aligned.                                             *)
LEMMA BeforeAligns ==
  ASSUME NEW b, b.at \in Nat, b.at % SIZE_T = 0, NEW align, Aligns(align)
  PROVE  /\ Before(b, align) \in Nat /\ Before(b, align) % SIZE_T = 0
         /\ Before(b, align) = 0 \/ Before(b, align) >= ENTRY
         /\ (b.at + Before(b, align) + SIZE_T) % align = 0
<1> DEFINE x == b.at + SIZE_T
           y == b.at + ENTRY + SIZE_T
<1>1. /\ x \in Int /\ x % SIZE_T = 0 /\ y \in Int /\ y % SIZE_T = 0
      /\ y = b.at + 12 /\ x = b.at + 4 /\ align \in Nat \ {0}
  BY DEF SIZE_T, ENTRY, Aligns
<1>2. /\ M_ALIGN(x, align) \in Nat /\ M_ALIGN(y, align) \in Nat
      /\ (x + M_ALIGN(x, align)) % align = 0 /\ (y + M_ALIGN(y, align)) % align = 0
      /\ M_ALIGN(y, align) % SIZE_T = 0
  <2> HIDE DEF x, y
  <2>1. /\ M_ALIGN(x, align) \in 0 .. align - 1 /\ M_ALIGN(y, align) \in 0 .. align - 1
        /\ (x + M_ALIGN(x, align)) % align = 0 /\ (y + M_ALIGN(y, align)) % align = 0
    BY <1>1, Aligning
  <2>2. M_ALIGN(y, align) % SIZE_T = 0
    BY <1>1, GapOfWords
  <2>3. QED BY <1>1, <2>1, <2>2
<1>3. CASE M_ALIGN(x, align) = 0
  <2>1. Before(b, align) = 0
    BY <1>3 DEF Before
  <2>2. b.at + 0 + SIZE_T = x + M_ALIGN(x, align)
    BY <1>1, <1>3 DEF SIZE_T
  <2>3. QED BY <1>2, <2>1, <2>2 DEF SIZE_T
<1>4. CASE M_ALIGN(x, align) # 0
  <2>1. Before(b, align) = ENTRY + M_ALIGN(y, align)
    BY <1>4 DEF Before
  <2> HIDE DEF x, y
  <2>2. PICK m \in Nat : m = M_ALIGN(y, align)
    BY <1>2
  <2>3. Before(b, align) = 8 + m /\ m % 4 = 0
    BY <1>2, <2>1, <2>2 DEF SIZE_T, ENTRY
  <2>4. b.at + (8 + m) + 4 = y + m
    BY <1>1, <2>2
  <2>5. (b.at + Before(b, align) + SIZE_T) % align = 0
    BY <1>2, <2>2, <2>3, <2>4 DEF SIZE_T
  <2>6. (8 + m) % 4 = 0
    BY <2>3
  <2>7. QED BY <2>3, <2>5, <2>6 DEF SIZE_T, ENTRY
<1>5. QED BY <1>3, <1>4

(* No place for a block in b comes before that.                            *)
LEMMA BeforeIsLeast ==
  ASSUME NEW b, b.at \in Nat, b.size \in Int, NEW align \in Nat \ {0}, NEW real \in Nat,
         Place(b, real, align)
  PROVE  Before(b, align) \in Nat /\ Before(b, align) + real <= b.size
<1> DEFINE x == b.at + SIZE_T
           y == b.at + ENTRY + SIZE_T
<1>1. PICK p : /\ p = b.at \/ p \in b.at + ENTRY .. b.at + b.size
               /\ (p + SIZE_T) % align = 0 /\ p + real <= b.at + b.size
  BY DEF Place
<1>2. /\ x \in Int /\ y \in Int /\ p \in Int
      /\ p + SIZE_T = x + (p - b.at) /\ p + SIZE_T = y + (p - b.at - 8)
      /\ x = b.at + 4
  <2>1. b.at + ENTRY \in Int /\ b.at + b.size \in Int
    BY DEF SIZE_T, ENTRY
  <2>2. p \in Int
    BY <1>1, <2>1
  <2>3. QED BY <2>2 DEF SIZE_T, ENTRY
<1>3. x % align = 0 => M_ALIGN(x, align) = 0
  <2> HIDE DEF x
  <2>1. \A d \in Nat : (x + d) % align = 0 => M_ALIGN(x, align) <= d
    BY <1>2, Aligning
  <2>2. M_ALIGN(x, align) \in 0 .. align - 1
    BY <1>2, Aligning
  <2>3. x + 0 = x /\ 0 \in Nat
    BY <1>2
  <2>4. QED BY <2>1, <2>2, <2>3
<1>4. CASE M_ALIGN(x, align) = 0
  <2>1. Before(b, align) = 0
    BY <1>4 DEF Before
  <2>2. p >= b.at
    BY <1>1, <1>2 DEF ENTRY, SIZE_T
  <2>3. p + real <= b.at + b.size /\ p \in Int
    BY <1>1, <1>2
  <2>4. 0 + real <= b.size
    BY <2>2, <2>3
  <2>5. QED BY <2>1, <2>4
<1>5. CASE M_ALIGN(x, align) # 0
  <2>1. Before(b, align) = ENTRY + M_ALIGN(y, align)
    BY <1>5 DEF Before
  <2>2. p # b.at
    <3>1. p = b.at => p + SIZE_T = x
      OBVIOUS
    <3>2. QED BY <1>1, <1>3, <1>5, <3>1
  <2>3. p - b.at - 8 \in Nat
    BY <1>1, <1>2, <2>2 DEF ENTRY, SIZE_T
  <2>4. M_ALIGN(y, align) \in Nat /\ M_ALIGN(y, align) <= p - b.at - 8
    <3> HIDE DEF y
    <3>1. M_ALIGN(y, align) \in 0 .. align - 1
      BY <1>2, Aligning
    <3>2. (y + (p - b.at - 8)) % align = 0
      BY <1>1, <1>2
    <3>3. \A d \in Nat : (y + d) % align = 0 => M_ALIGN(y, align) <= d
      BY <1>2, Aligning
    <3>4. QED BY <2>3, <3>1, <3>2, <3>3
  <2>5. QED BY <1>1, <1>2, <2>1, <2>4 DEF ENTRY, SIZE_T
<1>6. QED BY <1>4, <1>5

(* The gap of a whole new block is no more than the space of that.         *)
LEMMA FirstIsLeast ==
  ASSUME NEW b, b.at \in Nat, b.at % SIZE_T = 0, NEW align, Aligns(align)
  PROVE  /\ M_ALIGN(b.at + SIZE_T, align) \in Nat
         /\ M_ALIGN(b.at + SIZE_T, align) % SIZE_T = 0
         /\ M_ALIGN(b.at + SIZE_T, align) <= Before(b, align)
<1>1. PICK x \in Int, d \in Nat : x = b.at + SIZE_T /\ d = Before(b, align)
  BY BeforeAligns DEF SIZE_T
<1>2. (x + d) % align = 0 /\ align \in Nat \ {0} /\ x % SIZE_T = 0
  <2>1. (b.at + d + SIZE_T) % align = 0
    BY <1>1, BeforeAligns
  <2>2. b.at + d + SIZE_T = x + d
    BY <1>1 DEF SIZE_T
  <2>3. QED BY <1>1, <2>1, <2>2 DEF Aligns, SIZE_T
<1>3. M_ALIGN(x, align) \in 0 .. align - 1 /\ M_ALIGN(x, align) <= d
  BY <1>2, Aligning
<1>4. M_ALIGN(x, align) % SIZE_T = 0
  BY <1>2, GapOfWords
<1>5. QED BY <1>1, <1>3, <1>4

(* REAL_SIZE has room for the header, and is of whole words.               *)
LEMMA RealSize ==
  ASSUME NEW sz \in 0 .. WordMod - 2 * ENTRY
  PROVE  /\ REAL_SIZE(sz) \in Nat /\ REAL_SIZE(sz) % SIZE_T = 0
         /\ REAL_SIZE(sz) >= ENTRY /\ REAL_SIZE(sz) >= sz + SIZE_T
<1>1. WordMod \in Nat
  BY MallocAssumption
<1>2. CASE sz < 4
  BY <1>1, <1>2 DEF REAL_SIZE, ENTRY, SIZE_T
<1>3. CASE sz >= 4
  <2>1. PICK r \in 0 .. 3 : r = M_ALIGN(sz, SIZE_T) /\ (sz + r) % 4 = 0
    BY <1>1 DEF M_ALIGN, SIZE_T, ENTRY
  <2>2. sz + 4 + r \in 0 .. WordMod - 1
    BY <1>1 DEF ENTRY, SIZE_T
  <2>3. (sz + 4 + r) % WordMod = sz + 4 + r
    <3>1. \A n \in 0 .. WordMod - 1 : n % WordMod = n
      BY <1>1
    <3>2. QED BY <2>2, <3>1
  <2>4. REAL_SIZE(sz) = sz + 4 + r
    BY <1>1, <1>3, <2>1, <2>3 DEF REAL_SIZE, ENTRY, SIZE_T
  <2>5. sz \in Nat /\ (sz + 4 + r) % 4 = 0
    BY <1>1, <2>1 DEF ENTRY, SIZE_T
  <2>6. sz + 4 + r >= 8 /\ sz + 4 + r >= sz + 4
    BY <1>3, <2>5
  <2>7. QED BY <2>4, <2>5, <2>6 DEF ENTRY, SIZE_T
<1>4. QED BY <1>1, <1>2, <1>3

(* A caller that finds the gap is granted what leaves it, and no more.     *)
LEMMA GapIsExact ==
  ASSUME NEW frame \in Limits, NEW end \in Nat, NEW required \in Int,
         frame - end >= MALLOC_MINIMUM_GAP
  PROVE  CAN_ALLOC_P(end, frame, required) <=> frame - end - MALLOC_MINIMUM_GAP >= required
<1>1. /\ WordMod \in Nat /\ frame \in 0 .. WordMod - 1
  BY MallocAssumption
<1>2. frame - end - MALLOC_MINIMUM_GAP \in 0 .. WordMod - 1
  BY <1>1 DEF MALLOC_MINIMUM_GAP
<1>3. \A n \in 0 .. WordMod - 1 : n % WordMod = n
  BY <1>1
<1>4. QED BY <1>2, <1>3 DEF CAN_ALLOC_P

-----------------------------------------------------------------------------
(* Blocks.                                                                 *)

(* Blocks are apart if they share no byte.                                 *)
LEMMA ApartBytes ==
  ASSUME NEW b \in Blocks, NEW c \in Blocks, b.size > 0, c.size > 0
  PROVE  /\ Apart(b, c) <=> \A x \in Nat : ~(Holds(b, x) /\ Holds(c, x))
         /\ Apart(b, c) => b # c /\ Apart(c, b)
<1>1. b.at \in Nat /\ c.at \in Nat /\ b.size \in Nat /\ c.size \in Nat
  BY DEF Blocks
<1>2. Apart(b, c) => \A x \in Nat : ~(Holds(b, x) /\ Holds(c, x))
  BY <1>1 DEF Apart, Holds
<1>3. ASSUME \A x \in Nat : ~(Holds(b, x) /\ Holds(c, x)) PROVE Apart(b, c)
  <2>1. ~(Holds(b, b.at) /\ Holds(c, b.at)) /\ ~(Holds(b, c.at) /\ Holds(c, c.at))
    BY <1>1, <1>3
  <2>2. QED BY <1>1, <2>1 DEF Apart, Holds
<1>4. Apart(b, c) => b # c /\ Apart(c, b)
  BY <1>1 DEF Apart
<1>5. QED BY <1>2, <1>3, <1>4

(* Blocks that are whole and apart.                                        *)
Laid(blocks, end) == /\ \A b \in blocks : InHeap(b, end)
                     /\ \A b, c \in blocks : b # c => Apart(b, c)
                     /\ Words(blocks)

(* The bytes of new are those of old and of the growth from end to top.    *)
SameBytes(new, old, end, top) ==
  \A x \in Nat : (\E n \in new : Holds(n, x))
                   <=> (\E o \in old : Holds(o, x)) \/ x \in end .. top - 1

(* A heap in which blocks old are cut up or joined to blocks new, and that *)
(* may have grown.                                                         *)
Regroups(blocks, end, old, new, top, all) ==
  /\ blocks \subseteq Blocks /\ old \subseteq blocks /\ new \subseteq Blocks
  /\ end \in Nat /\ top \in Nat /\ malloc_start <= end /\ end <= top
  /\ Tiled(blocks, end) /\ Words(blocks)
  /\ Laid(new, top) /\ SameBytes(new, old, end, top)
  /\ \A b : b \in all <=> (b \in blocks /\ b \notin old) \/ b \in new

LEMMA Regroup ==
  ASSUME NEW blocks, NEW end, NEW old, NEW new, NEW top, NEW all,
         Regroups(blocks, end, old, new, top, all)
  PROVE  /\ Tiled(all, top) /\ Words(all)
         /\ \A b \in new : b \notin blocks \/ b \in old
<1> USE DEF Regroups
<1>1. \A b \in blocks : b \in Blocks /\ b.at \in Nat /\ b.size \in Nat /\ b.size > 0
                        /\ b.at + b.size <= end
  BY DEF Tiled, InHeap, Blocks, ENTRY, SIZE_T
<1>2. \A n \in new : n \in Blocks /\ n.at \in Nat /\ n.size \in Nat /\ n.size > 0
  BY DEF Laid, InHeap, Blocks, ENTRY, SIZE_T
<1>3. malloc_start \in Nat
  BY MallocAssumption
<1>4. ASSUME NEW b \in blocks \ old, NEW n \in new PROVE Apart(b, n)
  <2> SUFFICES ASSUME NEW x \in Nat, Holds(b, x), Holds(n, x) PROVE FALSE
    BY <1>1, <1>2, ApartBytes
  <2>1. x \notin end .. top - 1
    BY <1>1 DEF Holds
  <2>2. PICK o \in old : Holds(o, x)
    BY <2>1 DEF SameBytes
  <2>3. Apart(b, o)
    BY DEF Tiled
  <2>4. QED BY <1>1, <2>2, <2>3, ApartBytes
<1>5. \A b \in new : b \notin blocks \/ b \in old
  <2> SUFFICES ASSUME NEW n \in new, n \in blocks \ old PROVE FALSE
    OBVIOUS
  <2>1. Apart(n, n)
    BY <1>4
  <2>2. QED BY <1>2, <2>1 DEF Apart
<1>6. \A b, c \in all : b # c => Apart(b, c)
  <2>1. \A b \in blocks \ old, n \in new : Apart(b, n) /\ Apart(n, b)
    BY <1>1, <1>2, <1>4, ApartBytes
  <2>2. QED BY <2>1 DEF Tiled, Laid
<1>7. \A b \in all : InHeap(b, top)
  <2>1. \A b \in blocks : InHeap(b, top)
    BY <1>1 DEF Tiled, InHeap
  <2>2. QED BY <2>1 DEF Laid
<1>8. ASSUME NEW x \in malloc_start .. top - 1
      PROVE  \E b \in all : Holds(b, x)
  <2>1. x \in Nat
    BY <1>3
  <2>2. CASE x \in end .. top - 1
    BY <2>1, <2>2 DEF SameBytes
  <2>3. CASE x \notin end .. top - 1
    <3>1. PICK b \in blocks : Holds(b, x)
      BY <2>3 DEF Tiled
    <3>2. CASE b \in old
      BY <2>1, <3>1, <3>2 DEF SameBytes
    <3>3. QED BY <3>1, <3>2
  <2>4. QED BY <2>2, <2>3
<1>9. QED BY <1>5, <1>6, <1>7, <1>8 DEF Tiled, Words, Laid

-----------------------------------------------------------------------------
(* The freelist.                                                           *)

(* In t, the blocks from lo to hi of list have made way for those of seg.  *)
Splice(t, list, lo, hi, seg) ==
  /\ t \in Seq(Blocks) /\ list \in Seq(Blocks) /\ seg \in Seq(Blocks)
  /\ lo \in 1 .. Len(list) + 1 /\ hi \in lo - 1 .. Len(list)
  /\ Len(t) = Len(list) + Len(seg) - (hi + 1 - lo)
  /\ \A k \in 1 .. Len(t) :
       t[k] = IF k < lo THEN list[k]
              ELSE IF k < lo + Len(seg) THEN seg[k + 1 - lo]
              ELSE list[k - Len(seg) + (hi + 1 - lo)]

LEMMA SpliceOf ==
  ASSUME NEW list \in Seq(Blocks), NEW seg \in Seq(Blocks),
         NEW lo \in 1 .. Len(list) + 1, NEW hi \in lo - 1 .. Len(list)
  PROVE  Splice(Put(list, lo, hi, seg), list, lo, hi, seg)
<1> DEFINE a == SubSeq(list, 1, lo - 1)
           c == SubSeq(list, hi + 1, Len(list))
<1>1. /\ a \in Seq(Blocks) /\ Len(a) = lo - 1
      /\ \A k \in 1 .. lo - 1 : a[k] = list[k]
  OBVIOUS
<1>2. /\ c \in Seq(Blocks) /\ Len(c) = Len(list) - hi
      /\ \A k \in 1 .. Len(list) - hi : c[k] = list[hi + k]
  OBVIOUS
<1> HIDE DEF a, c
<1>3. /\ a \o seg \in Seq(Blocks) /\ Len(a \o seg) = lo - 1 + Len(seg)
      /\ \A k \in 1 .. lo - 1 + Len(seg) :
           (a \o seg)[k] = IF k < lo THEN list[k] ELSE seg[k + 1 - lo]
  <2>1. /\ a \o seg \in Seq(Blocks) /\ Len(a \o seg) = Len(a) + Len(seg)
        /\ \A k \in 1 .. Len(a) + Len(seg) :
             (a \o seg)[k] = IF k <= Len(a) THEN a[k] ELSE seg[k - Len(a)]
    BY <1>1, ConcatProperties
  <2>2. QED BY <1>1, <2>1
<1>4. PICK s \in Seq(Blocks) : s = a \o seg
  BY <1>3
<1>5. /\ s \o c \in Seq(Blocks) /\ Len(s \o c) = Len(s) + Len(c)
      /\ \A k \in 1 .. Len(s) + Len(c) :
           (s \o c)[k] = IF k <= Len(s) THEN s[k] ELSE c[k - Len(s)]
  BY <1>2, ConcatProperties
<1>6. PICK t \in Seq(Blocks) : t = s \o c
  BY <1>5
<1>7. Len(t) = Len(list) + Len(seg) - (hi + 1 - lo)
  BY <1>2, <1>3, <1>4, <1>5, <1>6
<1>8. ASSUME NEW k \in 1 .. Len(t)
      PROVE  t[k] = IF k < lo THEN list[k]
                    ELSE IF k < lo + Len(seg) THEN seg[k + 1 - lo]
                    ELSE list[k - Len(seg) + (hi + 1 - lo)]
  <2>1. Len(s) = lo - 1 + Len(seg)
    BY <1>3, <1>4
  <2>2. CASE k <= Len(s)
    <3>1. t[k] = s[k]
      BY <1>5, <1>6, <2>2
    <3>2. k \in 1 .. lo - 1 + Len(seg)
      BY <2>1, <2>2
    <3>3. s[k] = IF k < lo THEN list[k] ELSE seg[k + 1 - lo]
      BY <1>3, <1>4, <3>2
    <3>4. QED BY <2>1, <2>2, <3>1, <3>3
  <2>3. CASE k > Len(s)
    <3>1. t[k] = c[k - Len(s)]
      BY <1>5, <1>6, <2>3
    <3>2. k - Len(s) \in 1 .. Len(list) - hi
      BY <1>2, <1>5, <1>6, <2>3
    <3>3. c[k - Len(s)] = list[hi + (k - Len(s))]
      BY <1>2, <3>2
    <3>4. hi + (k - Len(s)) = k - Len(seg) + (hi + 1 - lo)
      BY <2>1
    <3>5. QED BY <2>1, <2>3, <3>1, <3>3, <3>4
  <2>4. QED BY <2>2, <2>3
<1>9. QED BY <1>4, <1>6, <1>7, <1>8 DEF Splice, Put, a, c

LEMMA InSet ==
  ASSUME NEW list \in Seq(Blocks)
  PROVE  /\ \A b : b \in ToSet(list) <=> \E k \in 1 .. Len(list) : b = list[k]
         /\ ToSet(list) \subseteq Blocks
         /\ \A k \in 1 .. Len(list) : list[k].at \in Nat /\ list[k].size \in Nat
<1>1. DOMAIN list = 1 .. Len(list) /\ \A k \in 1 .. Len(list) : list[k] \in Blocks
  OBVIOUS
<1>2. \A b : b \in ToSet(list) <=> \E k \in 1 .. Len(list) : b = list[k]
  BY <1>1 DEF ToSet
<1>3. \A b \in Blocks : b.at \in Nat /\ b.size \in Nat
  BY DEF Blocks
<1>4. QED BY <1>1, <1>2, <1>3

(* A list in order has no block twice.                                     *)
LEMMA SortedApart ==
  ASSUME NEW list \in Seq(Blocks), Sorted(list),
         NEW i \in 1 .. Len(list), NEW j \in 1 .. Len(list), list[i] = list[j]
  PROVE  i = j
<1>1. i \in Nat /\ j \in Nat
  OBVIOUS
<1>2. ASSUME NEW k \in 1 .. Len(list), NEW m \in 1 .. Len(list), k < m PROVE list[k] # list[m]
  <2>1. /\ list[k].at \in Nat /\ list[k].size \in Nat /\ list[m].at \in Nat
        /\ list[k].at + list[k].size < list[m].at
    BY <1>2, InSet DEF Sorted
  <2>2. list[k].at # list[m].at
    BY <2>1
  <2>3. QED BY <2>2
<1>3. QED BY <1>1, <1>2

(* The blocks of seg have a gap to those of list before lo and after hi.   *)
Between(list, lo, hi, seg) ==
  /\ \A k \in 1 .. lo - 1, j \in 1 .. Len(seg) : list[k].at + list[k].size < seg[j].at
  /\ \A k \in hi + 1 .. Len(list), j \in 1 .. Len(seg) :
       seg[j].at + seg[j].size < list[k].at

LEMMA SpliceSorted ==
  ASSUME NEW t, NEW list, NEW lo, NEW hi, NEW seg, Splice(t, list, lo, hi, seg),
         Sorted(list), Sorted(seg), Between(list, lo, hi, seg)
  PROVE  Sorted(t)
<1> USE DEF Between
<1> DEFINE n == Len(seg)
           d == hi + 1 - lo
<1>1. /\ lo \in Nat /\ hi \in Int /\ n \in Nat /\ d \in Nat /\ Len(list) \in Nat
      /\ lo >= 1 /\ hi <= Len(list) /\ Len(t) = Len(list) + n - d /\ d = hi + 1 - lo
  BY DEF Splice
<1>2. \A k \in 1 .. Len(t) : t[k] = IF k < lo THEN list[k]
                                    ELSE IF k < lo + n THEN seg[k + 1 - lo]
                                    ELSE list[k - n + d]
  BY DEF Splice
<1> SUFFICES ASSUME NEW i \in 1 .. Len(t), NEW j \in 1 .. Len(t), i < j
             PROVE  t[i].at + t[i].size < t[j].at
  BY DEF Sorted
<1> HIDE DEF n, d
<1>3. CASE j < lo
  <2>1. t[i] = list[i] /\ t[j] = list[j] /\ i \in 1 .. Len(list) /\ j \in 1 .. Len(list)
    BY <1>1, <1>2, <1>3
  <2>2. QED BY <2>1 DEF Sorted
<1>4. CASE i < lo /\ j >= lo /\ j < lo + n
  <2>1. t[i] = list[i] /\ t[j] = seg[j + 1 - lo] /\ i \in 1 .. lo - 1
        /\ j + 1 - lo \in 1 .. n
    BY <1>1, <1>2, <1>4
  <2>2. QED BY <2>1 DEF n
<1>5. CASE i < lo /\ j >= lo + n
  <2>1. /\ t[i] = list[i] /\ t[j] = list[j - n + d] /\ i \in 1 .. Len(list)
        /\ j - n + d \in 1 .. Len(list) /\ i < j - n + d
    BY <1>1, <1>2, <1>5
  <2>2. QED BY <2>1 DEF Sorted
<1>6. CASE i >= lo /\ j < lo + n
  <2>1. /\ t[i] = seg[i + 1 - lo] /\ t[j] = seg[j + 1 - lo]
        /\ i + 1 - lo \in 1 .. n /\ j + 1 - lo \in 1 .. n /\ i + 1 - lo < j + 1 - lo
    BY <1>1, <1>2, <1>6
  <2>2. QED BY <2>1 DEF Sorted, n
<1>7. CASE i >= lo /\ i < lo + n /\ j >= lo + n
  <2>1. /\ i + 1 - lo \in 1 .. n /\ j - n + d \in hi + 1 .. Len(list)
        /\ ~(i < lo) /\ ~(j < lo) /\ ~(j < lo + n)
    BY <1>1, <1>7
  <2>2. t[i] = seg[i + 1 - lo] /\ t[j] = list[j - n + d]
    BY <1>2, <1>7, <2>1
  <2>3. QED BY <2>1, <2>2 DEF n
<1>8. CASE i >= lo + n
  <2>1. /\ t[i] = list[i - n + d] /\ t[j] = list[j - n + d]
        /\ i - n + d \in 1 .. Len(list) /\ j - n + d \in 1 .. Len(list) /\ i - n + d < j - n + d
    BY <1>1, <1>2, <1>8
  <2>2. QED BY <2>1 DEF Sorted
<1>9. QED BY <1>1, <1>3, <1>4, <1>5, <1>6, <1>7, <1>8

LEMMA SpliceSet ==
  ASSUME NEW t, NEW list, NEW lo, NEW hi, NEW seg, Splice(t, list, lo, hi, seg), Sorted(list)
  PROVE  ToSet(t) = (ToSet(list) \ {list[k] : k \in lo .. hi}) \cup ToSet(seg)
<1> DEFINE n == Len(seg)
           d == hi + 1 - lo
           gone == {list[k] : k \in lo .. hi}
<1>1. /\ lo \in Nat /\ hi \in Int /\ n \in Nat /\ d \in Nat /\ Len(list) \in Nat
      /\ lo >= 1 /\ hi <= Len(list) /\ Len(t) = Len(list) + n - d /\ d = hi + 1 - lo
      /\ t \in Seq(Blocks) /\ list \in Seq(Blocks) /\ seg \in Seq(Blocks)
  BY DEF Splice
<1>2. \A k \in 1 .. Len(t) : t[k] = IF k < lo THEN list[k]
                                    ELSE IF k < lo + n THEN seg[k + 1 - lo]
                                    ELSE list[k - n + d]
  BY DEF Splice
<1>3. \A k \in 1 .. Len(list) : list[k] \in gone <=> k \in lo .. hi
  <2>1. ASSUME NEW k \in 1 .. Len(list), NEW m \in lo .. hi, list[k] = list[m]
        PROVE  k \in lo .. hi
    <3>1. m \in 1 .. Len(list)
      BY <1>1
    <3>2. QED BY <1>1, <2>1, <3>1, SortedApart
  <2>2. QED BY <2>1
<1> HIDE DEF n, d, gone
<1>4. ASSUME NEW b \in ToSet(t) PROVE b \in (ToSet(list) \ gone) \cup ToSet(seg)
  <2>1. PICK k \in 1 .. Len(t) : b = t[k]
    BY <1>1, InSet
  <2>2. CASE k < lo
    <3>1. b = list[k] /\ k \in 1 .. Len(list) /\ k \notin lo .. hi
      BY <1>1, <1>2, <2>1, <2>2
    <3>2. QED BY <1>1, <1>3, <3>1, InSet
  <2>3. CASE k >= lo /\ k < lo + n
    <3>1. b = seg[k + 1 - lo] /\ k + 1 - lo \in 1 .. Len(seg)
      BY <1>1, <1>2, <2>1, <2>3 DEF n
    <3>2. QED BY <1>1, <3>1, InSet
  <2>4. CASE k >= lo + n
    <3>1. b = list[k - n + d] /\ k - n + d \in 1 .. Len(list) /\ k - n + d \notin lo .. hi
      BY <1>1, <1>2, <2>1, <2>4
    <3>2. QED BY <1>1, <1>3, <3>1, InSet
  <2>5. QED BY <1>1, <2>2, <2>3, <2>4
<1>5. ASSUME NEW b \in ToSet(list) \ gone PROVE b \in ToSet(t)
  <2>1. PICK k \in 1 .. Len(list) : b = list[k]
    BY <1>1, InSet
  <2>2. k \notin lo .. hi
    BY <1>3, <2>1
  <2>3. CASE k < lo
    <3>1. k \in 1 .. Len(t) /\ t[k] = list[k]
      BY <1>1, <1>2, <2>3
    <3>2. QED BY <1>1, <2>1, <3>1, InSet
  <2>4. CASE k > hi
    <3>1. k + n - d \in 1 .. Len(t) /\ k + n - d >= lo + n /\ k + n - d - n + d = k
      BY <1>1, <2>4
    <3>2. t[k + n - d] = list[k]
      BY <1>1, <1>2, <3>1
    <3>3. QED BY <1>1, <2>1, <3>1, <3>2, InSet
  <2>5. QED BY <1>1, <2>2, <2>3, <2>4
<1>6. ASSUME NEW b \in ToSet(seg) PROVE b \in ToSet(t)
  <2>1. PICK j \in 1 .. n : b = seg[j]
    BY <1>1, InSet DEF n
  <2>2. j + lo - 1 \in 1 .. Len(t) /\ j + lo - 1 >= lo /\ j + lo - 1 < lo + n
        /\ j + lo - 1 + 1 - lo = j
    BY <1>1
  <2>3. t[j + lo - 1] = seg[j]
    BY <1>1, <1>2, <2>2
  <2>4. QED BY <1>1, <2>1, <2>2, <2>3, InSet
<1>7. QED BY <1>4, <1>5, <1>6 DEF gone

(* Natural numbers are well-ordered: what the searches of the list find.   *)
LEMMA FirstIndex ==
  ASSUME NEW I, I \subseteq Nat, I # {}
  PROVE  Min(I) \in I /\ \A k \in I : Min(I) <= k
<1> DEFINE less == {ss \in Nat \X Nat : ss[1] < ss[2]}
<1>1. IsWellFoundedOn(less, Nat)
  BY NatLessThanWellFounded DEF OpToRel
<1>2. PICK m \in I : \A n \in I : ~(<<n, m>> \in less)
  <2> HIDE DEF less
  <2> QED BY <1>1, WFMin
<1>3. ASSUME NEW n \in I, ~(m <= n) PROVE FALSE
  <2>1. <<n, m>> \in Nat \X Nat /\ <<n, m>>[1] < <<n, m>>[2]
    BY <1>3
  <2>2. QED BY <1>2, <2>1
<1>4. QED BY <1>3 DEF Min

(* free() looks for the first block that ends at b or is behind it.        *)
LEMMA PlaceOfFree ==
  ASSUME NEW list \in Seq(Blocks), NEW b, NEW i, i = Stop(list, b)
  PROVE  \/ /\ i = 0
            /\ \A k \in 1 .. Len(list) : ~(Adjacent(list[k], b) \/ list[k].at > b.at)
         \/ /\ i \in 1 .. Len(list)
            /\ Adjacent(list[i], b) \/ list[i].at > b.at
            /\ \A k \in 1 .. i - 1 : ~(Adjacent(list[k], b) \/ list[k].at > b.at)
<1> DEFINE I == {k \in 1 .. Len(list) : Adjacent(list[k], b) \/ list[k].at > b.at}
<1>1. i = IF I # {} THEN Min(I) ELSE 0
  BY DEF Stop, SelectInSeq
<1>2. I \subseteq Nat
  OBVIOUS
<1>3. I # {} => i \in I /\ \A k \in I : i <= k
  <2> HIDE DEF I
  <2> QED BY <1>1, <1>2, FirstIndex
<1>4. CASE I = {}
  BY <1>1, <1>4
<1>5. CASE I # {}
  <2>1. i \in 1 .. Len(list) /\ (Adjacent(list[i], b) \/ list[i].at > b.at)
    BY <1>3, <1>5
  <2>2. ASSUME NEW k \in 1 .. i - 1 PROVE ~(Adjacent(list[k], b) \/ list[k].at > b.at)
    <3>1. k \notin I
      <4> HIDE DEF I
      <4>1. I # {} /\ i \in Nat /\ k \in Nat /\ ~(i <= k)
        BY <1>5, <2>1
      <4>2. \A j \in I : i <= j
        BY <1>3, <4>1
      <4>3. QED BY <4>1, <4>2
    <3>2. k \in 1 .. Len(list)
      BY <2>1
    <3>3. QED BY <3>1, <3>2
  <2>3. QED BY <2>1, <2>2
<1>6. QED BY <1>4, <1>5

-----------------------------------------------------------------------------
(* The heap.                                                               *)

(* A heap of which the program holds the blocks held.                      *)
Good(list, end, held) ==
  /\ list \in Seq(Blocks) /\ held \in SUBSET Blocks
  /\ end \in Nat /\ end % SIZE_T = 0 /\ malloc_start <= end
  /\ Sorted(list)
  /\ held \cap ToSet(list) = {}
  /\ Tiled(held \cup ToSet(list), end) /\ Words(held \cup ToSet(list))

LEMMA GoodBlocks ==
  ASSUME NEW list, NEW end, NEW held, Good(list, end, held)
  PROVE  /\ \A b \in held \cup ToSet(list) :
              /\ b \in Blocks /\ b.at \in Nat /\ b.size \in Nat /\ b = Block(b.at, b.size)
              /\ b.size >= 8 /\ b.size % 4 = 0 /\ b.at % 4 = 0
              /\ malloc_start <= b.at /\ b.at + b.size <= end
         /\ \A k \in 1 .. Len(list) : list[k] \in ToSet(list)
         /\ \A b, c \in held \cup ToSet(list) : b # c => Apart(b, c)
         /\ ToSet(list) \in SUBSET Blocks
<1>1. list \in Seq(Blocks) /\ held \subseteq Blocks
  BY DEF Good
<1>2. ToSet(list) \in SUBSET Blocks /\ \A k \in 1 .. Len(list) : list[k] \in ToSet(list)
  BY <1>1, InSet
<1>3. \A b \in Blocks : b.at \in Nat /\ b.size \in Nat /\ b = Block(b.at, b.size)
  BY DEF Blocks, Block
<1>4. \A b \in held \cup ToSet(list) :
        /\ b.size >= 8 /\ b.size % 4 = 0 /\ b.at % 4 = 0
        /\ malloc_start <= b.at /\ b.at + b.size <= end
  BY DEF Good, Tiled, Words, InHeap, ENTRY, SIZE_T
<1>5. \A b, c \in held \cup ToSet(list) : b # c => Apart(b, c)
  BY DEF Good, Tiled
<1>6. QED BY <1>1, <1>2, <1>3, <1>4, <1>5

(* The list changes from lo to hi, the program gives back the blocks back  *)
(* and gets the blocks got; together they are the same bytes, and those of *)
(* the heap's growth.                                                      *)
Exchanges(list, lo, hi, seg, held, back, got, old, new, after) ==
  /\ back \subseteq held /\ got \subseteq Blocks
  /\ \A b : b \in old <=> b \in back \/ \E k \in lo .. hi : b = list[k]
  /\ \A b : b \in new <=> b \in got \/ b \in ToSet(seg)
  /\ \A b : b \in after <=> (b \in held /\ b \notin back) \/ b \in got
  /\ \A b \in got : b \notin ToSet(seg)

LEMMA GoodSplice ==
  ASSUME NEW list, NEW end, NEW held, Good(list, end, held),
         NEW t, NEW lo, NEW hi, NEW seg, Splice(t, list, lo, hi, seg),
         Sorted(seg), Between(list, lo, hi, seg),
         NEW top \in Nat, top % SIZE_T = 0, end <= top,
         NEW back, NEW got, NEW old, NEW new, NEW after,
         Exchanges(list, lo, hi, seg, held, back, got, old, new, after),
         Laid(new, top), SameBytes(new, old, end, top)
  PROVE  /\ Good(t, top, after)
         /\ \A b \in got : b \notin held \/ b \in back
<1> USE DEF Exchanges
<1>1. PICK blocks, all : blocks = held \cup ToSet(list) /\ all = (blocks \ old) \cup new
  OBVIOUS
<1>2. /\ list \in Seq(Blocks) /\ seg \in Seq(Blocks) /\ t \in Seq(Blocks)
      /\ lo \in 1 .. Len(list) + 1 /\ hi \in lo - 1 .. Len(list)
      /\ held \subseteq Blocks /\ ToSet(list) \subseteq Blocks
      /\ ToSet(seg) \subseteq Blocks /\ end \in Nat
      /\ blocks \subseteq Blocks /\ new \subseteq Blocks
  BY <1>1, InSet DEF Splice, Good
<1>3. \A k \in lo .. hi : list[k] \in ToSet(list)
  BY <1>2, InSet
<1>4. old \subseteq blocks
  BY <1>1, <1>3
<1>5. Tiled(all, top) /\ Words(all) /\ \A b \in new : b \notin blocks \/ b \in old
  <2>1. Tiled(blocks, end) /\ Words(blocks) /\ malloc_start <= end
    BY <1>1 DEF Good
  <2>2. Regroups(blocks, end, old, new, top, all)
    BY <1>1, <1>2, <1>4, <2>1 DEF Regroups
  <2>3. QED BY <2>2, Regroup
<1>6. Sorted(t)
  BY SpliceSorted DEF Good, Between
<1>7. ToSet(t) = (ToSet(list) \ {list[k] : k \in lo .. hi}) \cup ToSet(seg)
  BY SpliceSet DEF Good
<1>8. held \cap ToSet(list) = {}
  BY DEF Good
<1>9. all = after \cup ToSet(t)
  BY <1>1, <1>3, <1>7, <1>8
<1>10. after \cap ToSet(t) = {} /\ \A b \in got : b \notin held \/ b \in back
  BY <1>1, <1>3, <1>5, <1>7, <1>8
<1>11. malloc_start <= top
  BY <1>2, MallocAssumption DEF Good
<1>12. after \in SUBSET Blocks
  BY <1>2
<1>13. QED BY <1>2, <1>5, <1>6, <1>9, <1>10, <1>11, <1>12 DEF Good

(* A list of one block.                                                    *)
LEMMA Single ==
  ASSUME NEW j \in Blocks
  PROVE  /\ <<j>> \in Seq(Blocks) /\ Len(<<j>>) = 1 /\ <<j>>[1] = j
         /\ Sorted(<<j>>) /\ \A b : b \in ToSet(<<j>>) <=> b = j
<1>1. <<j>> \in Seq(Blocks) /\ Len(<<j>>) = 1 /\ <<j>>[1] = j
  OBVIOUS
<1>2. Sorted(<<j>>)
  BY <1>1 DEF Sorted
<1>3. \A b : b \in ToSet(<<j>>) <=> b = j
  <2>1. PICK s \in Seq(Blocks) : s = <<j>>
    BY <1>1
  <2>2. \A b : b \in ToSet(s) <=> \E k \in 1 .. Len(s) : b = s[k]
    BY InSet
  <2>3. QED BY <1>1, <2>1, <2>2
<1>4. QED BY <1>1, <1>2, <1>3

-----------------------------------------------------------------------------
(* free.                                                                   *)

(* Where the blocks of the list are from one that the program holds.       *)
LEMMA BesideHeld ==
  ASSUME NEW list, NEW end, NEW held, Good(list, end, held), NEW b \in held,
         NEW k \in 1 .. Len(list)
  PROVE  /\ list[k].at <= b.at /\ ~Adjacent(list[k], b) => list[k].at + list[k].size < b.at
         /\ list[k].at > b.at => b.at + b.size <= list[k].at
<1>1. list[k] \in ToSet(list) /\ b # list[k]
  <2>1. list[k] \in ToSet(list)
    BY GoodBlocks
  <2>2. QED BY <2>1 DEF Good
<1>2. /\ list[k].at \in Nat /\ list[k].size \in Nat /\ b.at \in Nat /\ b.size \in Nat
      /\ b.size >= 8 /\ list[k].size >= 8 /\ Apart(list[k], b)
  BY <1>1, GoodBlocks
<1>3. QED BY <1>2 DEF Apart, Adjacent

(* The blocks lo to hi of the list are joined to b.                        *)
LEMMA Join ==
  ASSUME NEW list, NEW end, NEW held, Good(list, end, held), NEW b \in held,
         NEW after, \A c : c \in after <=> c \in held /\ c # b,
         NEW lo, NEW hi, NEW t, NEW j \in Blocks, Splice(t, list, lo, hi, <<j>>),
         Between(list, lo, hi, <<j>>), InHeap(j, end), j.size % SIZE_T = 0,
         \A x \in Nat : Holds(j, x) <=> Holds(b, x) \/ \E k \in lo .. hi : Holds(list[k], x)
  PROVE  Good(t, end, after)
<1>1. PICK old, new, back : /\ old = {b} \cup {list[k] : k \in lo .. hi}
                            /\ new = {j} /\ back = {b}
  OBVIOUS
<1>2. Exchanges(list, lo, hi, <<j>>, held, back, {}, old, new, after)
  BY <1>1, Single DEF Exchanges
<1>3. Laid(new, end)
  BY <1>1 DEF Laid, Words
<1>4. SameBytes(new, old, end, end)
  <2>1. end .. end - 1 = {}
    BY DEF Good
  <2>2. \A x \in Nat : (\E o \in old : Holds(o, x))
                          <=> Holds(b, x) \/ \E k \in lo .. hi : Holds(list[k], x)
    BY <1>1
  <2>3. QED BY <1>1, <2>1, <2>2 DEF SameBytes
<1>5. end \in Nat /\ end % SIZE_T = 0 /\ end <= end
  BY DEF Good
<1>6. Sorted(<<j>>)
  BY Single
<1>7. QED BY <1>2, <1>3, <1>4, <1>5, <1>6, GoodSplice

(* What free makes of the list.                                            *)
LEMMA FreeShape ==
  ASSUME NEW list \in Seq(Blocks), NEW b \in Blocks, NEW i, i = Stop(list, b),
         NEW n, n = Len(list), i \in 1 .. n
  PROVE  \/ /\ Adjacent(list[i], b) /\ i < n /\ Adjacent(b, list[i + 1])
            /\ Splice(Free(list, b), list, i, i + 1,
                      <<Block(list[i].at, list[i].size + b.size + list[i + 1].size)>>)
         \/ /\ Adjacent(list[i], b) /\ ~(i < n /\ Adjacent(b, list[i + 1]))
            /\ Splice(Free(list, b), list, i, i, <<Block(list[i].at, list[i].size + b.size)>>)
         \/ /\ ~Adjacent(list[i], b) /\ Adjacent(b, list[i])
            /\ Splice(Free(list, b), list, i, i, <<Block(b.at, b.size + list[i].size)>>)
         \/ /\ ~Adjacent(list[i], b) /\ ~Adjacent(b, list[i])
            /\ Splice(Free(list, b), list, i, i - 1, <<b>>)
<1>1. /\ n \in Nat /\ i \in Nat /\ i # 0 /\ i <= n /\ i >= 1
      /\ b.at \in Nat /\ b.size \in Nat
      /\ \A k \in 1 .. n : list[k].at \in Nat /\ list[k].size \in Nat
  BY InSet DEF Blocks
<1>2. ASSUME NEW j \in Blocks, NEW hi \in {i - 1, i, i + 1}, hi <= n
      PROVE  Splice(Put(list, i, hi, <<j>>), list, i, hi, <<j>>)
  <2>1. <<j>> \in Seq(Blocks)
    OBVIOUS
  <2>2. i \in 1 .. Len(list) + 1 /\ hi \in i - 1 .. Len(list)
    BY <1>1, <1>2
  <2>3. QED BY <2>1, <2>2, SpliceOf
<1>3. ASSUME NEW at \in Nat, NEW size \in Nat
      PROVE  Block(at, size) \in Blocks
  BY DEF Block, Blocks
<1>4. CASE Adjacent(list[i], b) /\ i < n /\ Adjacent(b, list[i + 1])
  <2>1. i + 1 \in 1 .. n
    BY <1>1, <1>4
  <2>2. PICK m \in Nat : m = list[i].size + b.size + list[i + 1].size
    BY <1>1, <2>1
  <2>3. Free(list, b)
          = Put(list, i, i + 1, <<Block(list[i].at, list[i].size + b.size + list[i + 1].size)>>)
    BY <1>1, <1>4 DEF Free
  <2>4. Block(list[i].at, m) \in Blocks
    BY <1>1, <1>3
  <2>5. Splice(Put(list, i, i + 1, <<Block(list[i].at, m)>>), list, i, i + 1,
               <<Block(list[i].at, m)>>)
    BY <1>2, <2>1, <2>4
  <2>6. QED BY <1>4, <2>2, <2>3, <2>5
<1>5. CASE Adjacent(list[i], b) /\ ~(i < n /\ Adjacent(b, list[i + 1]))
  <2>1. Free(list, b) = Put(list, i, i, <<Block(list[i].at, list[i].size + b.size)>>)
    BY <1>1, <1>5 DEF Free
  <2>2. Block(list[i].at, list[i].size + b.size) \in Blocks
    BY <1>1, <1>3
  <2>3. Splice(Free(list, b), list, i, i, <<Block(list[i].at, list[i].size + b.size)>>)
    BY <1>1, <1>2, <2>1, <2>2
  <2>4. QED BY <1>5, <2>3
<1>6. CASE ~Adjacent(list[i], b) /\ Adjacent(b, list[i])
  <2>1. Free(list, b) = Put(list, i, i, <<Block(b.at, b.size + list[i].size)>>)
    BY <1>1, <1>6 DEF Free
  <2>2. Block(b.at, b.size + list[i].size) \in Blocks
    BY <1>1, <1>3
  <2>3. Splice(Free(list, b), list, i, i, <<Block(b.at, b.size + list[i].size)>>)
    BY <1>1, <1>2, <2>1, <2>2
  <2>4. QED BY <1>6, <2>3
<1>7. CASE ~Adjacent(list[i], b) /\ ~Adjacent(b, list[i])
  <2>1. Free(list, b) = Put(list, i, i - 1, <<b>>)
    BY <1>1, <1>7 DEF Free
  <2>2. QED BY <1>1, <1>2, <1>7, <2>1
<1>8. QED BY <1>4, <1>5, <1>6, <1>7

(* A whole block.                                                          *)
Whole(b, end) == b \in Blocks /\ InHeap(b, end) /\ b.size % SIZE_T = 0

(* Two blocks that touch, as one.                                          *)
LEMMA Joined ==
  ASSUME NEW end \in Nat, NEW b, NEW c, Whole(b, end), Whole(c, end), Adjacent(b, c),
         NEW j, j = Block(b.at, b.size + c.size)
  PROVE  /\ Whole(j, end)
         /\ j.at = b.at /\ j.size = b.size + c.size /\ j.at + j.size = c.at + c.size
         /\ \A x \in Nat : Holds(j, x) <=> Holds(b, x) \/ Holds(c, x)
<1>1. PICK ba \in Nat, bs \in Nat, ca \in Nat, cs \in Nat :
        ba = b.at /\ bs = b.size /\ ca = c.at /\ cs = c.size
  BY DEF Whole, Blocks
<1>2. ba + bs = ca
  BY <1>1 DEF Adjacent
<1>3. j.at = ba /\ j.size = bs + cs /\ j \in Blocks
  BY <1>1 DEF Block, Blocks
<1>4. malloc_start <= ba /\ ca + cs <= end /\ bs >= 8 /\ ba % 4 = 0
  BY <1>1 DEF Whole, InHeap, ENTRY, SIZE_T
<1>5. bs % 4 = 0 /\ cs % 4 = 0
  BY <1>1 DEF Whole, SIZE_T
<1>6. (bs + cs) % 4 = 0
  BY <1>5
<1>7. ba + (bs + cs) <= end /\ bs + cs >= 8
  BY <1>2, <1>4
<1>8. InHeap(j, end) /\ j.size % SIZE_T = 0
  BY <1>3, <1>4, <1>6, <1>7 DEF InHeap, ENTRY, SIZE_T
<1>9. ASSUME NEW x \in Nat PROVE Holds(j, x) <=> Holds(b, x) \/ Holds(c, x)
  <2>1. /\ Holds(j, x) <=> ba <= x /\ x < ba + (bs + cs)
        /\ Holds(b, x) <=> ba <= x /\ x < ba + bs
        /\ Holds(c, x) <=> ca <= x /\ x < ca + cs
    BY <1>1, <1>3 DEF Holds
  <2>2. QED BY <1>2, <2>1
<1>10. ba + (bs + cs) = ca + cs
  BY <1>2
<1>11. QED BY <1>1, <1>3, <1>8, <1>9, <1>10 DEF Whole

(* What free finds around the block that the program gives back.           *)
Around(list, n, i, b) ==
  /\ \A k \in 1 .. n : i = 0 \/ k < i => list[k].at + list[k].size < b.at
  /\ \A k \in 1 .. n : list[k].at > b.at => b.at + b.size <= list[k].at
  /\ i \in 1 .. n => Adjacent(list[i], b) \/ list[i].at > b.at

(* The order of the list.                                                  *)
InOrder(list, n) ==
  /\ \A k \in 1 .. n : list[k].at \in Nat /\ list[k].size \in Nat /\ list[k].size >= 8
  /\ \A k, m \in 1 .. n : k < m => list[k].at + list[k].size < list[m].at

(* What lies behind a block that ends where block i does.                  *)
LEMMA Behind ==
  ASSUME NEW list, NEW n \in Nat, NEW i \in 1 .. n, InOrder(list, n),
         NEW j, j.at + j.size = list[i].at + list[i].size
  PROVE  \A k \in i + 1 .. n : j.at + j.size < list[k].at
<1> SUFFICES ASSUME NEW k \in i + 1 .. n PROVE j.at + j.size < list[k].at
  OBVIOUS
<1>1. k \in 1 .. n /\ i < k
  OBVIOUS
<1>2. PICK e : e = list[i].at + list[i].size
  OBVIOUS
<1>3. e < list[k].at
  BY <1>1, <1>2 DEF InOrder
<1>4. QED BY <1>2, <1>3

(* What lies before a block that starts where block i does.                *)
LEMMA Ahead ==
  ASSUME NEW list, NEW n \in Nat, NEW i \in 1 .. n, InOrder(list, n),
         NEW j, j.at = list[i].at
  PROVE  \A k \in 1 .. i - 1 : list[k].at + list[k].size < j.at
<1> SUFFICES ASSUME NEW k \in 1 .. i - 1 PROVE list[k].at + list[k].size < j.at
  OBVIOUS
<1>1. k \in 1 .. n /\ k < i
  OBVIOUS
<1>2. \A m, o \in 1 .. n : m < o => list[m].at + list[m].size < list[o].at
  BY DEF InOrder
<1>3. list[k].at + list[k].size < list[i].at
  BY <1>1, <1>2
<1>4. QED BY <1>3

(* b ends before block i and does not touch it.                            *)
LEMMA Clear ==
  ASSUME NEW list, NEW n \in Nat, NEW i \in Nat, InOrder(list, n), NEW b,
         b.at \in Nat, b.size \in Nat,
         \A k \in i .. n : b.at + b.size <= list[k].at,
         i >= 1, i <= n => ~Adjacent(b, list[i])
  PROVE  \A k \in i .. n : b.at + b.size < list[k].at
<1> SUFFICES ASSUME NEW k \in i .. n PROVE b.at + b.size < list[k].at
  OBVIOUS
<1>1. i \in 1 .. n /\ k \in 1 .. n
  OBVIOUS
<1>2. PICK e \in Nat, ai \in Nat, si \in Nat, ak \in Nat :
        e = b.at + b.size /\ ai = list[i].at /\ si = list[i].size /\ ak = list[k].at
  <2>1. /\ list[i].at \in Nat /\ list[i].size \in Nat /\ list[k].at \in Nat
        /\ b.at + b.size \in Nat
    BY <1>1 DEF InOrder
  <2>2. QED BY <2>1
<1>3. e <= ai /\ e # ai
  BY <1>1, <1>2 DEF Adjacent
<1>4. CASE k = i
  BY <1>2, <1>3, <1>4
<1>5. CASE k # i
  <2>1. i < k
    BY <1>5
  <2>2. ai + si < ak
    BY <1>1, <1>2, <2>1 DEF InOrder
  <2>3. QED BY <1>2, <1>3, <2>2
<1>6. QED BY <1>4, <1>5

(* The block that the program gives back is in the heap of the list.       *)
LEMMA FreeGood ==
  ASSUME NEW list, NEW end, NEW held, Good(list, end, held), NEW b \in held,
         NEW after, \A c : c \in after <=> c \in held /\ c # b,
         NEW t, t = Free(list, b)
  PROVE  Good(t, end, after)
<1>1. PICK n \in Nat, i \in Nat : n = Len(list) /\ i = Stop(list, b)
  <2>1. list \in Seq(Blocks) /\ Len(list) \in Nat
    BY DEF Good
  <2>2. Stop(list, b) \in Nat
    BY <2>1, PlaceOfFree
  <2>3. QED BY <2>1, <2>2
<1>2. /\ list \in Seq(Blocks) /\ b \in Blocks /\ b.at \in Nat /\ b.size \in Nat
      /\ end \in Nat /\ (i \in 1 .. n \/ i = 0)
  BY <1>1, GoodBlocks, PlaceOfFree DEF Good
<1>3. Whole(b, end) /\ \A k \in 1 .. n : Whole(list[k], end)
  <2>1. \A c \in held \cup ToSet(list) : Whole(c, end)
    BY GoodBlocks DEF Whole, Good, Tiled, Words
  <2>2. QED BY <1>1, <2>1, GoodBlocks
<1>4. InOrder(list, n)
  BY <1>1, GoodBlocks DEF Good, Sorted, InOrder
<1>5. Around(list, n, i, b)
  <2>1. \A k \in 1 .. n :
          /\ list[k].at <= b.at /\ ~Adjacent(list[k], b) => list[k].at + list[k].size < b.at
          /\ list[k].at > b.at => b.at + b.size <= list[k].at
    BY <1>1, BesideHeld
  <2>2. /\ i = 0 => \A k \in 1 .. n : ~(Adjacent(list[k], b) \/ list[k].at > b.at)
        /\ i \in 1 .. n => /\ Adjacent(list[i], b) \/ list[i].at > b.at
                           /\ \A k \in 1 .. i - 1 : ~(Adjacent(list[k], b) \/ list[k].at > b.at)
    BY <1>1, <1>2, PlaceOfFree
  <2>3. ASSUME NEW k \in 1 .. n, i = 0 \/ k < i
        PROVE  list[k].at + list[k].size < b.at
    <3>1. ~(Adjacent(list[k], b) \/ list[k].at > b.at)
      BY <1>2, <2>2, <2>3
    <3>2. list[k].at \in Nat /\ b.at \in Nat
      BY <1>2, <1>4 DEF InOrder
    <3>3. list[k].at <= b.at
      BY <3>1, <3>2
    <3>4. QED BY <2>1, <3>1, <3>3
  <2>4. QED BY <2>1, <2>2, <2>3 DEF Around
<1>6. CASE i = 0
  <2>1. \A k \in 1 .. n : list[k].at + list[k].size < b.at
    BY <1>5, <1>6 DEF Around
  <2>2. t = Append(list, b)
    BY <1>1, <1>6 DEF Free
  <2>3. Splice(t, list, n + 1, n, <<b>>)
    <3>1. /\ t \in Seq(Blocks) /\ Len(t) = n + 1
          /\ \A k \in 1 .. n + 1 : t[k] = IF k = n + 1 THEN b ELSE list[k]
      BY <1>1, <1>2, <2>2
    <3>2. QED BY <1>1, <1>2, <3>1, Single DEF Splice
  <2>4. Between(list, n + 1, n, <<b>>)
    BY <1>1, <1>2, <2>1, Single DEF Between
  <2>5. \A x \in Nat : Holds(b, x) <=> Holds(b, x) \/ \E k \in n + 1 .. n : Holds(list[k], x)
    BY <1>1
  <2>6. b \in Blocks /\ InHeap(b, end) /\ b.size % SIZE_T = 0
    BY <1>3 DEF Whole
  <2>7. PICK lo, hi : lo = n + 1 /\ hi = n
    OBVIOUS
  <2>8. /\ Splice(t, list, lo, hi, <<b>>) /\ Between(list, lo, hi, <<b>>)
        /\ \A x \in Nat : Holds(b, x) <=> Holds(b, x) \/ \E k \in lo .. hi : Holds(list[k], x)
    BY <2>3, <2>4, <2>5, <2>7
  <2>9. QED BY <2>6, <2>8, Join
<1>7. CASE i \in 1 .. n
  <2>1. \A k \in 1 .. i - 1 : list[k].at + list[k].size < b.at
    BY <1>5, <1>7 DEF Around
  <2>2. ASSUME NEW hi \in {i - 1, i, i + 1}, hi \in i - 1 .. n,
               NEW j, Whole(j, end), Splice(t, list, i, hi, <<j>>),
               j.at = b.at \/ j.at = list[i].at,
               \A k \in hi + 1 .. n : j.at + j.size < list[k].at,
               \A x \in Nat : Holds(j, x)
                                 <=> Holds(b, x) \/ \E k \in i .. hi : Holds(list[k], x)
        PROVE  Good(t, end, after)
    <3>1. \A k \in 1 .. i - 1 : list[k].at + list[k].size < j.at
      <4>1. CASE j.at = b.at
        BY <2>1, <4>1
      <4>2. CASE j.at = list[i].at
        BY <1>4, <1>7, <4>2, Ahead
      <4>3. QED BY <2>2, <4>1, <4>2
    <3>2. Between(list, i, hi, <<j>>)
      BY <1>1, <2>2, <3>1, Single DEF Between, Whole
    <3>3. j \in Blocks /\ InHeap(j, end) /\ j.size % SIZE_T = 0
      BY <2>2 DEF Whole
    <3>4. QED BY <2>2, <3>2, <3>3, Join
  <2>3. CASE /\ Adjacent(list[i], b) /\ i < n /\ Adjacent(b, list[i + 1])
             /\ Splice(Free(list, b), list, i, i + 1,
                       <<Block(list[i].at, list[i].size + b.size + list[i + 1].size)>>)
    <3>1. i + 1 \in 1 .. n
      BY <1>7, <2>3
    <3>2. PICK h : h = Block(list[i].at, list[i].size + b.size)
      OBVIOUS
    <3>3. PICK j : j = Block(h.at, h.size + list[i + 1].size)
      OBVIOUS
    <3>4. /\ Whole(h, end) /\ h.at = list[i].at /\ h.size = list[i].size + b.size
          /\ h.at + h.size = b.at + b.size
          /\ \A x \in Nat : Holds(h, x) <=> Holds(list[i], x) \/ Holds(b, x)
      BY <1>2, <1>3, <1>7, <2>3, <3>2, Joined
    <3>5. Adjacent(h, list[i + 1])
      BY <2>3, <3>4 DEF Adjacent
    <3>6. /\ Whole(j, end) /\ j.at = h.at
          /\ j.at + j.size = list[i + 1].at + list[i + 1].size
          /\ \A x \in Nat : Holds(j, x) <=> Holds(h, x) \/ Holds(list[i + 1], x)
      <4>1. PICK c : c = list[i + 1]
        OBVIOUS
      <4>2. Whole(c, end) /\ Adjacent(h, c) /\ j = Block(h.at, h.size + c.size)
        BY <1>3, <3>1, <3>3, <3>5, <4>1
      <4>3. /\ Whole(j, end) /\ j.at = h.at /\ j.at + j.size = c.at + c.size
            /\ \A x \in Nat : Holds(j, x) <=> Holds(h, x) \/ Holds(c, x)
        BY <1>2, <3>4, <4>2, Joined
      <4>4. QED BY <4>1, <4>3
    <3>7. Splice(t, list, i, i + 1, <<j>>)
      BY <2>3, <3>3, <3>4
    <3>8. \A k \in i + 1 + 1 .. n : j.at + j.size < list[k].at
      BY <1>4, <3>1, <3>6, Behind
    <3>9. \A x \in Nat : Holds(j, x) <=> Holds(b, x) \/ \E k \in i .. i + 1 : Holds(list[k], x)
      <4>1. \A k : k \in i .. i + 1 <=> k = i \/ k = i + 1
        BY <1>7
      <4>2. QED BY <3>4, <3>6, <4>1
    <3>10. i + 1 \in i - 1 .. n
      BY <1>7, <3>1
    <3>11. QED BY <2>2, <3>4, <3>6, <3>7, <3>8, <3>9, <3>10
  <2>4. CASE /\ Adjacent(list[i], b) /\ ~(i < n /\ Adjacent(b, list[i + 1]))
             /\ Splice(Free(list, b), list, i, i, <<Block(list[i].at, list[i].size + b.size)>>)
    <3>1. PICK j : j = Block(list[i].at, list[i].size + b.size)
      OBVIOUS
    <3>2. /\ Whole(j, end) /\ j.at = list[i].at /\ j.at + j.size = b.at + b.size
          /\ \A x \in Nat : Holds(j, x) <=> Holds(list[i], x) \/ Holds(b, x)
      BY <1>2, <1>3, <1>7, <2>4, <3>1, Joined
    <3>3. Splice(t, list, i, i, <<j>>)
      BY <2>4, <3>1
    <3>4. \A k \in i + 1 .. n : b.at + b.size <= list[k].at
      <4>1. SUFFICES ASSUME NEW k \in i + 1 .. n PROVE b.at + b.size <= list[k].at
        OBVIOUS
      <4>2. k \in 1 .. n /\ i < k
        BY <1>7
      <4>3. list[i].at + list[i].size < list[k].at
        BY <1>4, <1>7, <4>2 DEF InOrder
      <4>4. list[k].at > b.at
        <5>1. b.at < list[k].at /\ list[k].at \in Nat
          BY <1>4, <2>4, <4>2, <4>3 DEF Adjacent, InOrder
        <5>2. QED BY <1>2, <5>1
      <4>5. QED BY <1>5, <4>2, <4>4 DEF Around
    <3>5. \A k \in i + 1 .. n : b.at + b.size < list[k].at
      <4>1. i + 1 \in Nat /\ i + 1 >= 1 /\ (i + 1 <= n => ~Adjacent(b, list[i + 1]))
        BY <1>7, <2>4
      <4>2. QED BY <1>2, <1>4, <3>4, <4>1, Clear
    <3>6. \A k \in i + 1 .. n : j.at + j.size < list[k].at
      BY <3>2, <3>5
    <3>7. \A x \in Nat : Holds(j, x) <=> Holds(b, x) \/ \E k \in i .. i : Holds(list[k], x)
      <4>1. \A k : k \in i .. i <=> k = i
        BY <1>7
      <4>2. QED BY <3>2, <4>1
    <3>8. i \in i - 1 .. n
      BY <1>7
    <3>9. QED BY <2>2, <3>2, <3>3, <3>6, <3>7, <3>8
  <2>5. CASE /\ ~Adjacent(list[i], b) /\ Adjacent(b, list[i])
             /\ Splice(Free(list, b), list, i, i, <<Block(b.at, b.size + list[i].size)>>)
    <3>1. PICK j : j = Block(b.at, b.size + list[i].size)
      OBVIOUS
    <3>2. /\ Whole(j, end) /\ j.at = b.at
          /\ j.at + j.size = list[i].at + list[i].size
          /\ \A x \in Nat : Holds(j, x) <=> Holds(b, x) \/ Holds(list[i], x)
      BY <1>2, <1>3, <1>7, <2>5, <3>1, Joined
    <3>3. Splice(t, list, i, i, <<j>>)
      BY <2>5, <3>1
    <3>4. \A k \in i + 1 .. n : j.at + j.size < list[k].at
      BY <1>4, <1>7, <3>2, Behind
    <3>5. \A x \in Nat : Holds(j, x) <=> Holds(b, x) \/ \E k \in i .. i : Holds(list[k], x)
      <4>1. \A k : k \in i .. i <=> k = i
        BY <1>7
      <4>2. QED BY <3>2, <4>1
    <3>6. i \in i - 1 .. n
      BY <1>7
    <3>7. QED BY <2>2, <3>2, <3>3, <3>4, <3>5, <3>6
  <2>6. CASE /\ ~Adjacent(list[i], b) /\ ~Adjacent(b, list[i])
             /\ Splice(Free(list, b), list, i, i - 1, <<b>>)
    <3>1. list[i].at > b.at
      BY <1>5, <1>7, <2>6 DEF Around
    <3>2. \A k \in i .. n : b.at + b.size <= list[k].at
      <4>1. SUFFICES ASSUME NEW k \in i .. n PROVE b.at + b.size <= list[k].at
        OBVIOUS
      <4>2. PICK ai \in Nat, si \in Nat, ak \in Nat, ba \in Nat :
              ai = list[i].at /\ si = list[i].size /\ ak = list[k].at /\ ba = b.at
        <5>1. k \in 1 .. n
          BY <1>7
        <5>2. list[i].at \in Nat /\ list[i].size \in Nat /\ list[k].at \in Nat
          BY <1>4, <1>7, <5>1 DEF InOrder
        <5>3. QED BY <1>2, <5>2
      <4>3. k \in 1 .. n /\ (k = i \/ i < k) /\ ai > ba
        BY <1>7, <3>1, <4>2
      <4>4. i < k => ai + si < ak
        BY <1>4, <1>7, <4>2, <4>3 DEF InOrder
      <4>5. ak > ba
        BY <4>2, <4>3, <4>4
      <4>6. QED BY <1>5, <4>2, <4>3, <4>5 DEF Around
    <3>3. \A k \in i .. n : b.at + b.size < list[k].at
      <4>1. i \in Nat /\ i >= 1 /\ (i <= n => ~Adjacent(b, list[i]))
        BY <1>7, <2>6
      <4>2. QED BY <1>2, <1>4, <3>2, <4>1, Clear
    <3>4. \A k \in i - 1 + 1 .. n : b.at + b.size < list[k].at
      BY <1>7, <3>3
    <3>5. \A x \in Nat : Holds(b, x) <=> Holds(b, x) \/ \E k \in i .. i - 1 : Holds(list[k], x)
      BY <1>7
    <3>6. i - 1 \in i - 1 .. n
      BY <1>7
    <3>7. QED BY <1>3, <2>2, <2>6, <3>4, <3>5, <3>6
  <2>7. QED BY <1>1, <1>2, <1>7, <2>3, <2>4, <2>5, <2>6, FreeShape
<1>8. QED BY <1>2, <1>6, <1>7

-----------------------------------------------------------------------------
(* Cutting a block.                                                        *)

LEMMA Empty ==
  /\ <<>> \in Seq(Blocks) /\ Len(<<>>) = 0 /\ Sorted(<<>>) /\ \A b : b \notin ToSet(<<>>)
<1>1. PICK s \in Seq(Blocks) : s = <<>>
  <2>1. <<>> \in Seq(Blocks)
    OBVIOUS
  <2>2. QED BY <2>1
<1>2. Len(s) = 0
  BY <1>1
<1>3. \A b : b \notin ToSet(s)
  <2>1. \A b : b \in ToSet(s) <=> \E k \in 1 .. Len(s) : b = s[k]
    BY InSet
  <2>2. 1 .. 0 = {}
    OBVIOUS
  <2>3. QED BY <1>2, <2>1, <2>2
<1>4. Sorted(s)
  BY <1>2 DEF Sorted
<1>5. QED BY <1>1, <1>2, <1>3, <1>4

LEMMA Pair ==
  ASSUME NEW f \in Blocks, NEW k \in Blocks, f.at + f.size < k.at,
         NEW s, s = <<f>> \o <<k>>
  PROVE  /\ s \in Seq(Blocks) /\ Sorted(s)
         /\ \A b : b \in ToSet(s) <=> b = f \/ b = k
<1>1. s \in Seq(Blocks) /\ Len(s) = 2 /\ s[1] = f /\ s[2] = k
  <2>1. PICK u \in Seq(Blocks), v \in Seq(Blocks) :
          /\ u = <<f>> /\ Len(u) = 1 /\ u[1] = f
          /\ v = <<k>> /\ Len(v) = 1 /\ v[1] = k
    <3>1. /\ <<f>> \in Seq(Blocks) /\ Len(<<f>>) = 1 /\ <<f>>[1] = f
          /\ <<k>> \in Seq(Blocks) /\ Len(<<k>>) = 1 /\ <<k>>[1] = k
      OBVIOUS
    <3>2. QED BY <3>1
  <2>2. /\ u \o v \in Seq(Blocks) /\ Len(u \o v) = Len(u) + Len(v)
        /\ \A m \in 1 .. Len(u) + Len(v) :
             (u \o v)[m] = IF m <= Len(u) THEN u[m] ELSE v[m - Len(u)]
    BY ConcatProperties
  <2>3. QED BY <2>1, <2>2
<1>2. \A b : b \in ToSet(s) <=> b = f \/ b = k
  <2>1. \A b : b \in ToSet(s) <=> \E m \in 1 .. Len(s) : b = s[m]
    BY <1>1, InSet
  <2>2. \A m : m \in 1 .. 2 <=> m = 1 \/ m = 2
    OBVIOUS
  <2>3. QED BY <1>1, <2>1, <2>2
<1>3. Sorted(s)
  <2> SUFFICES ASSUME NEW m \in 1 .. 2, NEW n \in 1 .. 2, m < n
               PROVE  s[m].at + s[m].size < s[n].at
    BY <1>1 DEF Sorted
  <2>1. m = 1 /\ n = 2
    OBVIOUS
  <2>2. QED BY <1>1, <2>1
<1>4. QED BY <1>1, <1>2, <1>3

(* What a cut leaves on the list of the block at a, of which the program   *)
(* gets all but the first p and the last z bytes.                          *)
Left(a, p, q, z) == (IF p = 0 THEN <<>> ELSE <<Block(a, p)>>)
                      \o (IF z = 0 THEN <<>> ELSE <<Block(a + p + q, z)>>)

Parts(p, q, z) == /\ p \in Nat /\ q \in Nat /\ z \in Nat
                  /\ p % 4 = 0 /\ q % 4 = 0 /\ z % 4 = 0
                  /\ p = 0 \/ p >= 8
                  /\ z = 0 \/ z >= 8
                  /\ q >= 8

LEMMA Rests ==
  ASSUME NEW a \in Nat, NEW p, NEW q, NEW z, Parts(p, q, z), NEW seg, seg = Left(a, p, q, z)
  PROVE  /\ seg \in Seq(Blocks) /\ Sorted(seg)
         /\ \A b : b \in ToSet(seg) <=> \/ b = Block(a, p) /\ p # 0
                                        \/ b = Block(a + p + q, z) /\ z # 0
<1>1. p \in Nat /\ q \in Nat /\ z \in Nat /\ q >= 8
  BY DEF Parts
<1>2. PICK f, k : f = Block(a, p) /\ k = Block(a + p + q, z)
  OBVIOUS
<1>3. /\ f \in Blocks /\ k \in Blocks /\ f.at = a /\ f.size = p
      /\ k.at = a + p + q /\ k.size = z
  BY <1>1, <1>2 DEF Block, Blocks
<1>4. f.at + f.size < k.at
  <2>1. a + p < a + p + q
    BY <1>1
  <2>2. QED BY <1>3, <2>1
<1>5. CASE p = 0 /\ z = 0
  <2>1. seg = <<>>
    BY <1>5 DEF Left
  <2>2. QED BY <1>5, <2>1, Empty
<1>6. CASE p # 0 /\ z = 0
  <2>1. seg = <<f>>
    BY <1>2, <1>3, <1>6 DEF Left
  <2>2. /\ <<f>> \in Seq(Blocks) /\ Sorted(<<f>>)
        /\ \A b : b \in ToSet(<<f>>) <=> b = f
    BY <1>3, Single
  <2>3. \A b : b = f <=> \/ b = Block(a, p) /\ p # 0
                         \/ b = Block(a + p + q, z) /\ z # 0
    BY <1>2, <1>6
  <2>4. QED BY <2>1, <2>2, <2>3
<1>7. CASE p = 0 /\ z # 0
  <2>1. seg = <<k>>
    BY <1>2, <1>3, <1>7 DEF Left
  <2>2. /\ <<k>> \in Seq(Blocks) /\ Sorted(<<k>>)
        /\ \A b : b \in ToSet(<<k>>) <=> b = k
    BY <1>3, Single
  <2>3. QED BY <1>2, <1>7, <2>1, <2>2
<1>8. CASE p # 0 /\ z # 0
  <2>1. seg = <<f>> \o <<k>>
    BY <1>2, <1>8 DEF Left
  <2>2. /\ seg \in Seq(Blocks) /\ Sorted(seg)
        /\ \A b : b \in ToSet(seg) <=> b = f \/ b = k
    BY <1>3, <1>4, <2>1, Pair
  <2>3. QED BY <1>2, <1>8, <2>2
<1>9. QED BY <1>5, <1>6, <1>7, <1>8

Some(new, g, f, k, p, z) ==
  \A b : b \in new <=> b = g \/ (b = f /\ p # 0) \/ (b = k /\ z # 0)

LEMMA SomeOf ==
  ASSUME NEW g, NEW f, NEW k, NEW p, NEW z
  PROVE  \E new : Some(new, g, f, k, p, z)
<1>1. CASE p # 0 /\ z # 0
  <2> WITNESS {g, f, k}
  <2> QED BY <1>1 DEF Some
<1>2. CASE p # 0 /\ z = 0
  <2> WITNESS {g, f}
  <2> QED BY <1>2 DEF Some
<1>3. CASE p = 0 /\ z # 0
  <2> WITNESS {g, k}
  <2> QED BY <1>3 DEF Some
<1>4. CASE p = 0 /\ z = 0
  <2> WITNESS {g}
  <2> QED BY <1>4 DEF Some
<1>5. QED BY <1>1, <1>2, <1>3, <1>4

(* Block c, cut after its first p and before its last z bytes, is new.     *)
CutUp(c, p, q, z, new) ==
  /\ Parts(p, q, z) /\ p + q + z = c.size
  /\ \A b : b \in new <=> \/ b = Block(c.at + p, q)
                          \/ b = Block(c.at, p) /\ p # 0
                          \/ b = Block(c.at + p + q, z) /\ z # 0

LEMMA Pieces ==
  ASSUME NEW end \in Nat, NEW c, Whole(c, end),
         NEW p, NEW q, NEW z, NEW new, CutUp(c, p, q, z, new)
  PROVE  /\ Laid(new, end)
         /\ \A x \in Nat : (\E b \in new : Holds(b, x)) <=> Holds(c, x)
         /\ \A b \in new : b \in Blocks /\ c.at <= b.at /\ b.at + b.size <= c.at + c.size
         /\ Block(c.at + p, q) # Block(c.at, p) /\ Block(c.at + p, q) # Block(c.at + p + q, z)
<1>1. PICK a \in Nat, s \in Nat : a = c.at /\ s = c.size
  BY DEF Whole, Blocks
<1>2. /\ p \in Nat /\ q \in Nat /\ z \in Nat /\ q >= 8 /\ p + q + z = s
      /\ p = 0 \/ p >= 8
      /\ z = 0 \/ z >= 8
  BY <1>1 DEF CutUp, Parts
<1>3. p % 4 = 0 /\ q % 4 = 0 /\ z % 4 = 0
  BY DEF CutUp, Parts
<1>4. a % 4 = 0 /\ malloc_start <= a /\ a + s <= end /\ malloc_start \in Nat
  BY <1>1, MallocAssumption DEF Whole, InHeap, SIZE_T
<1>5. PICK f, g, k : f = Block(a, p) /\ g = Block(a + p, q) /\ k = Block(a + p + q, z)
  OBVIOUS
<1>6. /\ f \in Blocks /\ g \in Blocks /\ k \in Blocks
      /\ f.at = a /\ f.size = p /\ g.at = a + p /\ g.size = q /\ k.at = a + p + q /\ k.size = z
  BY <1>2, <1>5 DEF Block, Blocks
<1>7. \A b : b \in new <=> \/ b = g
                           \/ b = f /\ p # 0
                           \/ b = k /\ z # 0
  BY <1>1, <1>5 DEF CutUp
<1>8. /\ InHeap(g, end)
      /\ p # 0 => InHeap(f, end)
      /\ z # 0 => InHeap(k, end)
  <2>1. (a + p) % 4 = 0 /\ (a + p + q) % 4 = 0
    BY <1>2, <1>3, <1>4
  <2>2. a + p + q <= end /\ a + p <= end /\ a + p + q + z <= end
    BY <1>2, <1>4
  <2>3. QED BY <1>2, <1>4, <1>6, <2>1, <2>2 DEF InHeap, ENTRY, SIZE_T
<1>9. Apart(f, g) /\ Apart(g, f) /\ Apart(f, k) /\ Apart(k, f) /\ Apart(g, k) /\ Apart(k, g)
  BY <1>2, <1>6 DEF Apart
<1>10. Laid(new, end)
  <2>1. \A b \in new : InHeap(b, end)
    BY <1>7, <1>8
  <2>2. \A b, d \in new : b # d => Apart(b, d)
    BY <1>7, <1>9
  <2>3. Words(new)
    BY <1>3, <1>6, <1>7 DEF Words, SIZE_T
  <2>4. QED BY <2>1, <2>2, <2>3 DEF Laid
<1>11. ASSUME NEW x \in Nat PROVE (\E b \in new : Holds(b, x)) <=> Holds(c, x)
  <2>1. /\ Holds(f, x) <=> a <= x /\ x < a + p
        /\ Holds(g, x) <=> a + p <= x /\ x < a + p + q
        /\ Holds(k, x) <=> a + p + q <= x /\ x < a + p + q + z
        /\ Holds(c, x) <=> a <= x /\ x < a + s
    BY <1>1, <1>6 DEF Holds
  <2>2. (\E b \in new : Holds(b, x))
          <=> Holds(g, x) \/ (Holds(f, x) /\ p # 0) \/ (Holds(k, x) /\ z # 0)
    BY <1>7
  <2>3. QED BY <1>2, <2>1, <2>2
<1>12. ASSUME NEW b \in new
       PROVE  b \in Blocks /\ c.at <= b.at /\ b.at + b.size <= c.at + c.size
  <2>1. /\ a <= f.at /\ f.at + f.size <= a + s
        /\ a <= g.at /\ g.at + g.size <= a + s
        /\ a <= k.at /\ k.at + k.size <= a + s
    BY <1>2, <1>6
  <2>2. QED BY <1>1, <1>6, <1>7, <2>1
<1>13. g # f /\ g # k
  <2>1. Apart(g, f) /\ Apart(g, k)
    BY <1>9
  <2>2. g.size # 0 /\ g.at # k.at /\ (p = 0 => g.size # f.size) /\ (p # 0 => g.at # f.at)
    BY <1>2, <1>6
  <2>3. QED BY <2>2
<1>14. QED BY <1>1, <1>5, <1>10, <1>11, <1>12, <1>13

(* The program gets g, a part of the free block c of the list.             *)
Cuts(list, i, c, p, q, z, g, t) ==
  /\ i \in 1 .. Len(list) /\ c = list[i]
  /\ Parts(p, q, z) /\ p + q + z = c.size /\ g = Block(c.at + p, q)
  /\ t = Put(list, i, i, Left(c.at, p, q, z))

LEMMA Cut ==
  ASSUME NEW list, NEW end, NEW held, Good(list, end, held),
         NEW i, NEW c, NEW p, NEW q, NEW z, NEW g, NEW t, Cuts(list, i, c, p, q, z, g, t),
         NEW after, \A b : b \in after <=> b \in held \/ b = g
  PROVE  Good(t, end, after) /\ g \notin held /\ g \in Blocks
<1> USE DEF Cuts
<1>1. PICK seg : seg = Left(c.at, p, q, z)
  OBVIOUS
<1>2. c \in ToSet(list) /\ c \in Blocks /\ c.at \in Nat /\ Whole(c, end) /\ end \in Nat
  BY GoodBlocks DEF Whole, Good, Tiled, Words
<1>3. /\ seg \in Seq(Blocks) /\ Sorted(seg)
      /\ \A b : b \in ToSet(seg) <=> \/ b = Block(c.at, p) /\ p # 0
                                     \/ b = Block(c.at + p + q, z) /\ z # 0
  <2>1. PICK a \in Nat : a = c.at
    BY <1>2
  <2>2. seg = Left(a, p, q, z) /\ Parts(p, q, z)
    BY <1>1, <2>1
  <2>3. /\ seg \in Seq(Blocks) /\ Sorted(seg)
        /\ \A b : b \in ToSet(seg) <=> \/ b = Block(a, p) /\ p # 0
                                       \/ b = Block(a + p + q, z) /\ z # 0
    BY <2>2, Rests
  <2>4. QED BY <2>1, <2>3
<1>4. PICK new : CutUp(c, p, q, z, new)
  <2>1. PICK f, k : f = Block(c.at, p) /\ k = Block(c.at + p + q, z)
    OBVIOUS
  <2>2. PICK new : Some(new, g, f, k, p, z)
    BY SomeOf
  <2>3. QED BY <2>1, <2>2 DEF CutUp, Some
<1>5. /\ Laid(new, end)
      /\ \A x \in Nat : (\E b \in new : Holds(b, x)) <=> Holds(c, x)
      /\ \A b \in new : b \in Blocks /\ c.at <= b.at /\ b.at + b.size <= c.at + c.size
      /\ g # Block(c.at, p) /\ g # Block(c.at + p + q, z)
  BY <1>2, <1>4, Pieces
<1>6. g \in Blocks /\ g \notin ToSet(seg) /\ (\A b : b \in new <=> b = g \/ b \in ToSet(seg))
  BY <1>3, <1>4, <1>5 DEF CutUp
<1>7. list \in Seq(Blocks) /\ Splice(t, list, i, i, seg)
  <2>1. list \in Seq(Blocks) /\ i \in 1 .. Len(list) + 1 /\ i \in i - 1 .. Len(list)
    BY DEF Good
  <2>2. QED BY <1>1, <1>3, <2>1, SpliceOf
<1>8. Between(list, i, i, seg)
  <2>1. ASSUME NEW j \in 1 .. Len(seg)
        PROVE  seg[j] \in new /\ seg[j] \in Blocks
    BY <1>3, <1>5, <1>6, InSet
  <2>2. ASSUME NEW j \in 1 .. Len(seg), NEW k \in 1 .. i - 1
        PROVE  list[k].at + list[k].size < seg[j].at
    <3>1. k \in 1 .. Len(list) /\ k < i
      BY <1>7
    <3>2. PICK u \in Nat, v \in Nat, w \in Nat, y \in Nat :
            u = list[k].at /\ v = list[k].size /\ w = c.at /\ y = seg[j].at
      <4>1. list[k].at \in Nat /\ list[k].size \in Nat
        BY <1>7, <3>1, InSet
      <4>2. seg[j].at \in Nat
        BY <2>1 DEF Blocks
      <4>3. QED BY <1>2, <4>1, <4>2
    <3>3. u + v < w
      BY <3>1, <3>2 DEF Good, Sorted
    <3>4. w <= y
      BY <1>5, <2>1, <3>2
    <3>5. u + v < y
      BY <3>3, <3>4
    <3>6. QED BY <3>2, <3>5
  <2>3. ASSUME NEW j \in 1 .. Len(seg), NEW k \in i + 1 .. Len(list)
        PROVE  seg[j].at + seg[j].size < list[k].at
    <3>1. k \in 1 .. Len(list) /\ i < k
      BY <1>7
    <3>2. PICK u \in Nat, v \in Nat, w \in Nat, x \in Nat, y \in Nat :
            u = c.at /\ v = c.size /\ w = list[k].at /\ x = seg[j].at /\ y = seg[j].size
      <4>1. list[k].at \in Nat
        BY <1>7, <3>1, InSet
      <4>2. seg[j].at \in Nat /\ seg[j].size \in Nat /\ c.size \in Nat
        BY <1>2, <2>1 DEF Blocks
      <4>3. QED BY <1>2, <4>1, <4>2
    <3>3. u + v < w
      BY <3>1, <3>2 DEF Good, Sorted
    <3>4. x + y <= u + v
      BY <1>5, <2>1, <3>2
    <3>5. x + y < w
      BY <3>3, <3>4
    <3>6. QED BY <3>2, <3>5
  <2>4. QED BY <2>2, <2>3 DEF Between
<1>9. PICK old, got, back : old = {c} /\ got = {g} /\ back = {}
  OBVIOUS
<1>10. Exchanges(list, i, i, seg, held, back, got, old, new, after)
  <2>1. \A k : k \in i .. i <=> k = i
    OBVIOUS
  <2>2. QED BY <1>6, <1>9, <2>1 DEF Exchanges
<1>11. SameBytes(new, old, end, end)
  <2>1. end .. end - 1 = {}
    BY <1>2
  <2>2. QED BY <1>5, <1>9, <2>1 DEF SameBytes
<1>12. end % SIZE_T = 0 /\ end <= end
  BY <1>2 DEF Good
<1>13. Good(t, end, after) /\ \A b \in got : b \notin held \/ b \in back
  BY <1>2, <1>3, <1>5, <1>7, <1>8, <1>10, <1>11, <1>12, GoodSplice
<1>14. QED BY <1>6, <1>9, <1>13

(* Carve cuts the block of the program out of a free one.                  *)
Carves(list, i, before, real, least) ==
  /\ before \in Nat /\ before % 4 = 0 /\ (before = 0 \/ before >= 8)
  /\ real \in Nat /\ real % 4 = 0 /\ real >= 8
  /\ i \in 1 .. Len(list) /\ before + real <= list[i].size
  /\ least \in {ENTRY, ENTRY + 1}

LEMMA CarveGood ==
  ASSUME NEW h, NEW held, Good(h.list, h.end, held),
         NEW i, NEW before, NEW real, NEW least, Carves(h.list, i, before, real, least),
         NEW r, r = Carve(h, i, before, real, least),
         NEW after, \A b : b \in after <=> b \in held \/ b = r.block
  PROVE  /\ Good(r.list, r.end, after)
         /\ r.block \in Blocks /\ r.block \notin held
         /\ r.block.at = h.list[i].at + before /\ r.block.size >= real
<1>1. PICK list, end, c : list = h.list /\ end = h.end /\ c = list[i]
  OBVIOUS
<1>2. /\ i \in 1 .. Len(list) /\ c.at \in Nat /\ c.size \in Nat /\ c.size % 4 = 0
      /\ before + real <= c.size
  BY <1>1, GoodBlocks DEF Carves
<1>3. /\ before \in Nat /\ before % 4 = 0 /\ (before = 0 \/ before >= 8)
      /\ real \in Nat /\ real % 4 = 0 /\ real >= 8 /\ (least = 8 \/ least = 9)
  BY DEF Carves, ENTRY, SIZE_T
<1>4. PICK s \in Nat, rest \in Nat : s = c.size /\ rest = s - before - real
  <2>1. PICK s \in Nat : s = c.size /\ before + real <= s
    BY <1>2
  <2>2. s - before - real \in Nat
    BY <1>3, <2>1
  <2>3. QED BY <2>1, <2>2
<1>5. rest % 4 = 0
  <2>1. s % 4 = 0
    BY <1>2, <1>4
  <2>2. QED BY <1>3, <1>4, <2>1
<1>6. PICK z \in Nat, q \in Nat :
        /\ rest < least => z = 0 /\ q = s - before
        /\ ~(rest < least) => z = rest /\ q = real
  BY <1>2, <1>3, <1>4
<1>7. z = 0 <=> rest < least
  BY <1>3, <1>6
<1>8. Parts(before, q, z) /\ before + q + z = c.size /\ q >= real
  <2>1. z = 0 \/ z >= 8
    BY <1>3, <1>6
  <2>2. before + q + z = s /\ q >= real
    BY <1>3, <1>4, <1>6
  <2>3. z % 4 = 0 /\ q % 4 = 0
    <3>1. s % 4 = 0
      BY <1>2, <1>4
    <3>2. (s - before) % 4 = 0
      BY <1>3, <3>1
    <3>3. QED BY <1>3, <1>5, <1>6, <3>2
  <2>4. QED BY <1>3, <1>4, <2>1, <2>2, <2>3 DEF Parts
<1>9. PICK front, back :
        /\ front = IF before = 0 THEN <<>> ELSE <<Block(c.at, before)>>
        /\ back = IF rest < least THEN <<>> ELSE <<Block(c.at + before + real, rest)>>
  OBVIOUS
<1>10. /\ r.list = Put(list, i, i, front \o back) /\ r.end = end
       /\ r.block = Block(c.at + before, IF back = <<>> THEN c.size - before ELSE real)
  BY <1>1, <1>4, <1>9 DEF Carve
<1>11. front \o back = Left(c.at, before, q, z)
  BY <1>6, <1>7, <1>9 DEF Left
<1>12. back = <<>> <=> rest < least
  BY <1>9
<1>13. r.block = Block(c.at + before, q)
  BY <1>4, <1>6, <1>10, <1>12
<1>14. Good(r.list, end, after) /\ r.block \notin held /\ r.block \in Blocks
  <2>1. PICK g, t : g = r.block /\ t = r.list
    OBVIOUS
  <2>2. Cuts(list, i, c, before, q, z, g, t)
    BY <1>1, <1>2, <1>8, <1>10, <1>11, <1>13, <2>1 DEF Cuts
  <2>3. Good(list, end, held) /\ \A b : b \in after <=> b \in held \/ b = g
    BY <1>1, <2>1
  <2>4. Good(t, end, after) /\ g \notin held /\ g \in Blocks
    BY <2>2, <2>3, Cut
  <2>5. QED BY <2>1, <2>4
<1>15. r.block.at = c.at + before /\ r.block.size = q
  BY <1>13 DEF Block
<1>16. QED BY <1>1, <1>8, <1>10, <1>14, <1>15

-----------------------------------------------------------------------------
(* Growing the heap.                                                       *)

(* The heap grows from end to top; the free space that ended it, block lo  *)
(* of the list if there is one, is in block c, which now ends it.          *)
Grows(list, end, lo, c, top) ==
  /\ top \in Nat /\ top % 4 = 0 /\ end <= top /\ c.size >= 8
  /\ c = Block(c.at, c.size) /\ c.at + c.size = top /\ c.size \in Nat
  /\ \/ lo = Len(list) + 1 /\ c.at = end
     \/ lo = Len(list) /\ lo >= 1 /\ c.at = list[lo].at /\ list[lo].at + list[lo].size = end

TopBlocks(list, lo, c, old, new) ==
  /\ \A b : b \in new <=> b = c
  /\ \A b : b \in old <=> \E k \in lo .. Len(list) : b = list[k]

LEMMA Growth ==
  ASSUME NEW list, NEW end, NEW held, Good(list, end, held),
         NEW lo, NEW c, NEW top, Grows(list, end, lo, c, top),
         NEW new, NEW old, TopBlocks(list, lo, c, old, new)
  PROVE  /\ c \in Blocks /\ Laid(new, top) /\ SameBytes(new, old, end, top)
         /\ lo \in 1 .. Len(list) + 1 /\ Len(list) \in lo - 1 .. Len(list)
         /\ top \in Nat /\ top % SIZE_T = 0 /\ end <= top
<1> USE DEF TopBlocks
<1>1. PICK n \in Nat : n = Len(list)
  BY DEF Good
<1>2. end \in Nat /\ end % 4 = 0 /\ malloc_start <= end /\ malloc_start \in Nat
  BY MallocAssumption DEF Good, SIZE_T
<1>3. top \in Nat /\ top % 4 = 0 /\ end <= top /\ c.size >= 8 /\ c.size \in Nat
  BY DEF Grows
<1>4. \A k \in 1 .. n : /\ list[k].at \in Nat /\ list[k].size \in Nat /\ list[k].at % 4 = 0
                        /\ malloc_start <= list[k].at
  BY <1>1, GoodBlocks
<1>5. lo \in Nat /\ (lo = n + 1 \/ (lo = n /\ lo >= 1))
  BY <1>1 DEF Grows
<1>6. PICK a \in Nat, s \in Nat : /\ a = c.at /\ s = c.size /\ a + s = top /\ s >= 8
                                  /\ a % 4 = 0 /\ malloc_start <= a /\ a <= end
  <2>1. CASE lo = n + 1
    <3>1. c.at = end
      BY <1>1, <1>5, <2>1 DEF Grows
    <3>2. c.at + c.size = top
      BY DEF Grows
    <3>3. QED BY <1>2, <1>3, <3>1, <3>2
  <2>2. CASE lo = n /\ lo >= 1
    <3>1. c.at = list[lo].at /\ list[lo].at + list[lo].size = end /\ c.at + c.size = top
      BY <1>1, <1>5, <2>2 DEF Grows
    <3>2. PICK u \in Nat, v \in Nat : u = list[lo].at /\ v = list[lo].size
      BY <1>4, <2>2
    <3>3. u % 4 = 0 /\ malloc_start <= u /\ u + v = end
      BY <1>4, <2>2, <3>1, <3>2
    <3>4. u <= end
      BY <1>2, <3>3
    <3>5. QED BY <1>3, <3>1, <3>2, <3>3, <3>4
  <2>3. QED BY <1>5, <2>1, <2>2
<1>7. c \in Blocks
  <2>1. c = Block(a, s)
    BY <1>6 DEF Grows
  <2>2. QED BY <2>1 DEF Block, Blocks
<1>8. Laid(new, top)
  <2>1. s % 4 = 0
    <3>1. (top - a) % 4 = 0
      <4>1. top \in Nat /\ top % 4 = 0 /\ a % 4 = 0
        BY <1>3, <1>6
      <4>2. QED BY <4>1
    <3>2. s = top - a
      <4>1. a + s = top
        BY <1>6
      <4>2. QED BY <1>3, <4>1
    <3>3. QED BY <3>1, <3>2
  <2>2. a + s <= top
    BY <1>3, <1>6
  <2>3. InHeap(c, top) /\ c.size % SIZE_T = 0
    BY <1>6, <2>1, <2>2 DEF InHeap, ENTRY, SIZE_T
  <2>4. QED BY <2>3 DEF Laid, Words
<1>9. ASSUME NEW x \in Nat
      PROVE  (\E b \in new : Holds(b, x)) <=> (\E b \in old : Holds(b, x)) \/ x \in end .. top - 1
  <2>1. (\E b \in new : Holds(b, x)) <=> Holds(c, x)
    OBVIOUS
  <2>2. Holds(c, x) <=> a <= x /\ x < top
    BY <1>6 DEF Holds
  <2>3. x \in end .. top - 1 <=> end <= x /\ x < top
    BY <1>2, <1>3
  <2>4. CASE lo = n + 1
    <3>1. a = end
      BY <1>1, <1>5, <1>6, <2>4 DEF Grows
    <3>2. \A b : b \notin old
      BY <1>1, <2>4
    <3>3. QED BY <2>1, <2>2, <2>3, <3>1, <3>2
  <2>5. CASE lo = n /\ lo >= 1
    <3>1. PICK u \in Nat, v \in Nat : u = list[lo].at /\ v = list[lo].size
      BY <1>4, <2>5
    <3>2. a = u /\ u + v = end
      BY <1>1, <1>5, <1>6, <2>5, <3>1 DEF Grows
    <3>3. Holds(list[lo], x) <=> a <= x /\ x < end
      BY <3>1, <3>2 DEF Holds
    <3>4. (\E b \in old : Holds(b, x)) <=> Holds(list[lo], x)
      <4>1. \A k : k \in lo .. n <=> k = lo
        BY <1>5, <2>5
      <4>2. QED BY <1>1, <4>1
    <3>5. QED BY <1>2, <1>3, <1>6, <2>1, <2>2, <2>3, <3>3, <3>4
  <2>6. QED BY <1>5, <2>4, <2>5
<1>10. lo \in 1 .. Len(list) + 1 /\ Len(list) \in lo - 1 .. Len(list)
  BY <1>1, <1>5
<1>11. QED BY <1>3, <1>7, <1>8, <1>9, <1>10 DEF SameBytes, SIZE_T

(* The program gets the space at the top.                                  *)
LEMMA GrowHeld ==
  ASSUME NEW list, NEW end, NEW held, Good(list, end, held),
         NEW lo, NEW c, NEW top, Grows(list, end, lo, c, top),
         NEW t, Splice(t, list, lo, Len(list), <<>>),
         NEW after, \A b : b \in after <=> b \in held \/ b = c
  PROVE  Good(t, top, after) /\ c \in Blocks /\ c \notin held
<1>1. PICK new, back, got : new = {c} /\ back = {} /\ got = {c}
  OBVIOUS
<1>2. PICK old : old = {list[k] : k \in lo .. Len(list)}
  OBVIOUS
<1>3. TopBlocks(list, lo, c, old, new)
  BY <1>1, <1>2 DEF TopBlocks
<1>4. /\ c \in Blocks /\ Laid(new, top) /\ SameBytes(new, old, end, top)
      /\ top \in Nat /\ top % SIZE_T = 0 /\ end <= top
  BY <1>3, Growth
<1>5. Exchanges(list, lo, Len(list), <<>>, held, back, got, old, new, after)
  BY <1>1, <1>3, <1>4, Empty DEF Exchanges, TopBlocks
<1>6. Between(list, lo, Len(list), <<>>) /\ Sorted(<<>>)
  BY Empty DEF Between
<1>7. Good(t, top, after) /\ \A b \in got : b \notin held \/ b \in back
  BY <1>4, <1>5, <1>6, GoodSplice
<1>8. QED BY <1>1, <1>4, <1>7

(* The space at the top is on the list.                                    *)
LEMMA GrowFree ==
  ASSUME NEW list, NEW end, NEW held, Good(list, end, held),
         NEW lo, NEW c, NEW top, Grows(list, end, lo, c, top),
         \A k \in 1 .. lo - 1 : list[k].at + list[k].size < c.at,
         NEW t, Splice(t, list, lo, Len(list), <<c>>)
  PROVE  Good(t, top, held)
<1>1. PICK new, back : new = {c} /\ back = {}
  OBVIOUS
<1>2. PICK old : old = {list[k] : k \in lo .. Len(list)}
  OBVIOUS
<1>3. TopBlocks(list, lo, c, old, new)
  BY <1>1, <1>2 DEF TopBlocks
<1>4. /\ c \in Blocks /\ Laid(new, top) /\ SameBytes(new, old, end, top)
      /\ top \in Nat /\ top % SIZE_T = 0 /\ end <= top
  BY <1>3, Growth
<1>5. Exchanges(list, lo, Len(list), <<c>>, held, back, back, old, new, held)
  BY <1>1, <1>3, <1>4, Single DEF Exchanges, TopBlocks
<1>6. Between(list, lo, Len(list), <<c>>) /\ Sorted(<<c>>)
  <2>1. Len(list) + 1 .. Len(list) = {}
    BY DEF Good
  <2>2. QED BY <1>4, <2>1, Single DEF Between
<1>7. QED BY <1>4, <1>5, <1>6, GoodSplice

-----------------------------------------------------------------------------
(* malloc.                                                                 *)

(* malloc() takes the first block of the list that is large enough.        *)
LEMMA PlaceOfFit ==
  ASSUME NEW list \in Seq(Blocks), NEW real \in Nat, NEW i, i = Fit(list, real)
  PROVE  \/ i = 0 /\ \A k \in 1 .. Len(list) : list[k].size < real
         \/ i \in 1 .. Len(list) /\ list[i].size >= real
<1> DEFINE I == {k \in 1 .. Len(list) : list[k].size >= real}
<1>1. i = IF I # {} THEN Min(I) ELSE 0
  BY DEF Fit, SelectInSeq
<1>2. I \subseteq Nat
  OBVIOUS
<1>3. I # {} => i \in I
  <2> HIDE DEF I
  <2> QED BY <1>1, <1>2, FirstIndex
<1>4. CASE I = {}
  <2>1. \A k \in 1 .. Len(list) : list[k].size \in Nat /\ ~(list[k].size >= real)
    BY <1>4, InSet
  <2>2. QED BY <1>1, <1>4, <2>1
<1>5. QED BY <1>1, <1>3, <1>4

(* memalign() takes the first that is large enough where it is.            *)
LEMMA PlaceOfAligned ==
  ASSUME NEW list \in Seq(Blocks), NEW real \in Nat, NEW align,
         \A k \in 1 .. Len(list) : Before(list[k], align) \in Nat,
         NEW i, i = AlignedFit(list, real, align)
  PROVE  \/ i = 0 /\ \A k \in 1 .. Len(list) : list[k].size < real + Before(list[k], align)
         \/ i \in 1 .. Len(list) /\ list[i].size >= real + Before(list[i], align)
<1> DEFINE I == {k \in 1 .. Len(list) : list[k].size >= real + Before(list[k], align)}
<1>1. i = IF I # {} THEN Min(I) ELSE 0
  BY DEF AlignedFit, SelectInSeq
<1>2. I \subseteq Nat
  OBVIOUS
<1>3. I # {} => i \in I
  <2> HIDE DEF I
  <2> QED BY <1>1, <1>2, FirstIndex
<1>4. CASE I = {}
  <2>1. ASSUME NEW k \in 1 .. Len(list)
        PROVE  list[k].size < real + Before(list[k], align)
    <3>1. ~(list[k].size >= real + Before(list[k], align))
      BY <1>4
    <3>2. list[k].size \in Nat /\ Before(list[k], align) \in Nat
      BY InSet
    <3>3. QED BY <3>1, <3>2
  <2>2. QED BY <1>1, <1>4, <2>1
<1>5. QED BY <1>1, <1>3, <1>4

(* The space between the heap and the gap, with the free block before it.  *)
Rest(h, frame) ==
  LET top == frame - MALLOC_MINIMUM_GAP
  IN  IF EndsHeap(h) THEN Block(Last(h.list).at, top - Last(h.list).at)
      ELSE Block(h.end, top - h.end)

(* Neither that nor a free block has a place for the block.                *)
NoPlace(h, frame, real, align) ==
  \A b \in ToSet(h.list) \cup {Rest(h, frame)} : ~Place(b, real, align)

(* A place for a block is within the block.                                *)
LEMMA PlaceFits ==
  ASSUME NEW b, b.at \in Nat, b.size \in Int, NEW real \in Nat, NEW align, Place(b, real, align)
  PROVE  real <= b.size
<1>1. PICK p : /\ p = b.at \/ p \in b.at + ENTRY .. b.at + b.size
               /\ p + real <= b.at + b.size
  BY DEF Place
<1>2. b.at + ENTRY \in Int /\ b.at + b.size \in Int /\ ENTRY >= 0 /\ ENTRY \in Int
  BY DEF ENTRY, SIZE_T
<1>3. p \in Int /\ p >= b.at
  BY <1>1, <1>2
<1>4. QED BY <1>1, <1>3

(* What ends the heap, and what may grow there.                            *)
LEMMA TopOfHeap ==
  ASSUME NEW h, NEW held, Good(h.list, h.end, held), NEW n, n = Len(h.list)
  PROVE  /\ n \in Nat
         /\ EndsHeap(h) <=> n >= 1 /\ h.list[n].at + h.list[n].size = h.end
         /\ EndsHeap(h) => Last(h.list) = h.list[n]
<1>1. h.list \in Seq(Blocks) /\ n \in Nat
  BY DEF Good
<1>2. h.list # <<>> <=> n >= 1
  <2>1. PICK s \in Seq(Blocks) : s = h.list /\ Len(s) = n
    BY <1>1
  <2>2. s # <<>> <=> Len(s) >= 1
    OBVIOUS
  <2>3. QED BY <2>1, <2>2
<1>3. QED BY <1>1, <1>2 DEF EndsHeap, Last

(* A size that REAL_SIZE may give.                                         *)
Wanted(real) == real \in Nat /\ real % 4 = 0 /\ real >= 8

(* What a call for real bytes at a multiple of align leaves: the block, or *)
(* a heap with no place for it.                                            *)
Got(r, held, frame, real, align) ==
  \/ /\ r.block.at = NULL /\ Good(r.list, r.end, held)
     /\ IsPowerOfTwo(align) => NoPlace([list |-> r.list, end |-> r.end], frame, real, align)
  \/ /\ r.block.at # NULL /\ r.block \in Blocks /\ r.block \notin held
     /\ r.block.size >= real
     /\ align \in Nat \ {0} /\ (r.block.at + SIZE_T) % align = 0
     /\ Good(r.list, r.end, held \cup {r.block})

LEMMA NotNull ==
  ASSUME NEW list, NEW end, NEW held, Good(list, end, held), NEW b \in held
  PROVE  b.at # NULL /\ (b.at + SIZE_T) % SIZE_T = 0
<1>1. b.at \in Nat /\ b.at % 4 = 0 /\ malloc_start <= b.at
  BY GoodBlocks
<1>2. malloc_start \in Nat /\ malloc_start # 0
  BY MallocAssumption
<1>3. b.at # 0
  BY <1>1, <1>2
<1>4. (b.at + 4) % 4 = 0
  BY <1>1
<1>5. QED BY <1>3, <1>4 DEF NULL, SIZE_T

(* Where the space before the gap starts.                                  *)
LEMMA RestAt ==
  ASSUME NEW h, NEW held, Good(h.list, h.end, held), NEW frame \in Int, NEW n, n = Len(h.list)
  PROVE  \E at \in Nat :
           /\ Rest(h, frame).at = at
           /\ Rest(h, frame).size = frame - MALLOC_MINIMUM_GAP - at
           /\ EndsHeap(h) => n >= 1 /\ at = h.list[n].at /\ at + h.list[n].size = h.end
           /\ ~EndsHeap(h) => at = h.end
<1>1. h.end \in Nat /\ n \in Nat
  BY DEF Good
<1>2. CASE EndsHeap(h)
  <2>1. n >= 1 /\ Last(h.list) = h.list[n] /\ h.list[n].at + h.list[n].size = h.end
    BY <1>2, TopOfHeap
  <2>2. h.list[n].at \in Nat
    BY <1>1, <2>1, GoodBlocks
  <2>3. Rest(h, frame) = Block(h.list[n].at, frame - MALLOC_MINIMUM_GAP - h.list[n].at)
    BY <1>2, <2>1 DEF Rest
  <2>4. QED BY <1>2, <2>1, <2>2, <2>3 DEF Block
<1>3. CASE ~EndsHeap(h)
  <2>1. Rest(h, frame) = Block(h.end, frame - MALLOC_MINIMUM_GAP - h.end)
    BY <1>3 DEF Rest
  <2>2. QED BY <1>1, <1>3, <2>1 DEF Block
<1>4. QED BY <1>2, <1>3

(* The same heap.                                                          *)
LEMMA SameHeap ==
  ASSUME NEW h, NEW g, g.list = h.list, g.end = h.end, NEW frame, NEW real, NEW align,
         NoPlace(h, frame, real, align)
  PROVE  NoPlace(g, frame, real, align)
<1>1. Rest(g, frame) = Rest(h, frame)
  BY DEF Rest, EndsHeap
<1>2. QED BY <1>1 DEF NoPlace

(* malloc() returns a block of the heap it leaves, or finds no place.      *)
LEMMA MallocGood ==
  ASSUME NEW h, NEW held, Good(h.list, h.end, held), NEW frame \in Limits,
         NEW sz, Wanted(REAL_SIZE(sz)), NEW r, r = Malloc(h, sz, frame)
  PROVE  Got(r, held, frame, REAL_SIZE(sz), SIZE_T)
<1>1. PICK real \in Nat, n \in Nat, fit \in Nat, end \in Nat :
        /\ real = REAL_SIZE(sz) /\ n = Len(h.list) /\ fit = Fit(h.list, real) /\ end = h.end
  <2>1. REAL_SIZE(sz) \in Nat
    BY DEF Wanted
  <2>2. h.end \in Nat /\ Len(h.list) \in Nat /\ h.list \in Seq(Blocks)
    BY DEF Good
  <2>3. Fit(h.list, REAL_SIZE(sz)) \in Nat
    BY <2>1, <2>2, PlaceOfFit
  <2>4. QED BY <2>1, <2>2, <2>3
<1>2. real % 4 = 0 /\ real >= 8 /\ h.list \in Seq(Blocks)
  BY <1>1 DEF Wanted, Good
<1>3. \/ fit = 0 /\ \A k \in 1 .. n : h.list[k].size < real
      \/ fit \in 1 .. n /\ h.list[fit].size >= real
  BY <1>1, <1>2, PlaceOfFit
<1>4. \A k \in 1 .. n : /\ h.list[k].at \in Nat /\ h.list[k].size \in Nat
                        /\ h.list[k].at + h.list[k].size <= end
  BY <1>1, GoodBlocks
<1>5. /\ EndsHeap(h) <=> n >= 1 /\ h.list[n].at + h.list[n].size = end
      /\ EndsHeap(h) => Last(h.list) = h.list[n]
  BY <1>1, TopOfHeap
<1>6. SIZE_T \in Nat \ {0} /\ frame \in Int
  BY MallocAssumption DEF SIZE_T
<1>7. CASE fit # 0
  <2>1. r = Carve(h, fit, 0, real, ENTRY)
    BY <1>1, <1>7 DEF Malloc
  <2>2. Carves(h.list, fit, 0, real, ENTRY)
    <3>1. fit \in 1 .. n /\ 0 + real <= h.list[fit].size
      BY <1>3, <1>4, <1>7
    <3>2. QED BY <1>1, <1>2, <3>1 DEF Carves, ENTRY, SIZE_T
  <2>3. PICK after : after = held \cup {r.block}
    OBVIOUS
  <2>4. \A b : b \in after <=> b \in held \/ b = r.block
    BY <2>3
  <2>5. /\ Good(r.list, r.end, after)
        /\ r.block \in Blocks /\ r.block \notin held /\ r.block.size >= real
    BY <2>1, <2>2, <2>4, CarveGood
  <2>6. r.block.at # NULL /\ (r.block.at + SIZE_T) % SIZE_T = 0
    BY <2>4, <2>5, NotNull
  <2>7. QED BY <1>1, <1>6, <2>3, <2>5, <2>6 DEF Got
<1>8. CASE fit = 0
  <2>1. PICK have \in Nat : /\ have = IF EndsHeap(h) THEN Last(h.list).size ELSE 0
                            /\ have < real /\ have <= end
    <3>1. CASE EndsHeap(h)
      <4>1. n \in 1 .. n /\ Last(h.list) = h.list[n]
        BY <1>1, <1>5, <3>1
      <4>2. PICK u \in Nat, v \in Nat : u = h.list[n].at /\ v = h.list[n].size
        BY <1>4, <4>1
      <4>3. v < real /\ u + v <= end
        BY <1>1, <1>3, <1>4, <1>8, <4>1, <4>2
      <4>4. v <= end
        BY <1>1, <4>3
      <4>5. QED BY <3>1, <4>1, <4>2, <4>3, <4>4
    <3>2. CASE ~EndsHeap(h)
      BY <1>1, <1>2, <3>2
    <3>3. QED BY <3>1, <3>2
  <2>2. PICK at \in Nat : /\ Rest(h, frame).at = at
                          /\ Rest(h, frame).size = frame - MALLOC_MINIMUM_GAP - at
                          /\ EndsHeap(h) => n >= 1 /\ at = h.list[n].at
                                            /\ at + h.list[n].size = end
                          /\ ~EndsHeap(h) => at = end
    <3>1. frame \in Int /\ n = Len(h.list) /\ h.end = end
      BY <1>1, <1>6
    <3>2. QED BY <3>1, RestAt
  <2>3. at + have = end
    BY <1>1, <1>5, <2>1, <2>2
  <2>4. CASE ~CAN_ALLOC_P(end, frame, real - have)
    <3>1. r = Failure(h)
      BY <1>1, <1>8, <2>1, <2>4 DEF Malloc
    <3>2. r.list = h.list /\ r.end = h.end /\ r.block.at = NULL
      BY <3>1 DEF Failure, Block
    <3>3. ASSUME NEW b \in ToSet(h.list), Place(b, real, SIZE_T) PROVE FALSE
      <4>1. PICK k \in 1 .. n : b = h.list[k]
        BY <1>1, <1>2, InSet
      <4>2. b.at \in Nat /\ b.size \in Nat /\ b.size < real
        BY <1>3, <1>4, <1>8, <4>1
      <4>3. real <= b.size
        BY <3>3, <4>2, PlaceFits
      <4>4. QED BY <4>2, <4>3
    <3>4. ASSUME Place(Rest(h, frame), real, SIZE_T) PROVE FALSE
      <4>1. PICK room \in Int : room = frame - 32 - at
        BY <1>6
      <4>2. real <= room
        <5>1. PICK b : b = Rest(h, frame)
          OBVIOUS
        <5>2. b.at = at /\ b.size = room
          BY <2>2, <4>1, <5>1 DEF MALLOC_MINIMUM_GAP
        <5>3. b.at \in Nat /\ b.size \in Int /\ Place(b, real, SIZE_T)
          BY <3>4, <5>1, <5>2
        <5>4. QED BY <5>2, <5>3, PlaceFits
      <4>3. real - have \in Int /\ frame - end - 32 >= real - have /\ frame - end >= 32
        BY <1>6, <2>1, <2>3, <4>1, <4>2
      <4>4. QED BY <2>4, <4>3, GapIsExact DEF MALLOC_MINIMUM_GAP
    <3>5. NoPlace(h, frame, real, SIZE_T)
      BY <3>3, <3>4 DEF NoPlace
    <3>6. PICK g : g = [list |-> r.list, end |-> r.end]
      OBVIOUS
    <3>7. g.list = h.list /\ g.end = h.end
      BY <3>2, <3>6
    <3>8. NoPlace(g, frame, real, SIZE_T)
      BY <3>5, <3>7, SameHeap
    <3>9. QED BY <1>1, <3>2, <3>6, <3>8 DEF Got
  <2>5. CASE CAN_ALLOC_P(end, frame, real - have)
    <3>1. PICK c, top, lo : /\ c = Block(end - have, real) /\ top = end - have + real
                            /\ lo = IF EndsHeap(h) THEN n ELSE n + 1
      OBVIOUS
    <3>2. /\ r.list = IF EndsHeap(h) THEN Front(h.list) ELSE h.list
          /\ r.end = top /\ r.block = c
      BY <1>1, <1>8, <2>1, <2>5, <3>1 DEF Malloc
    <3>3. c.at = at /\ c.size = real /\ top = at + real /\ c = Block(c.at, c.size)
      <4>1. end - have = at
        BY <2>1, <2>3
      <4>2. QED BY <3>1, <4>1 DEF Block
    <3>4. Grows(h.list, end, lo, c, top)
      <4>1. top \in Nat /\ end <= top /\ c.at + c.size = top
        BY <1>1, <2>1, <2>3, <3>3
      <4>2. top % 4 = 0
        <5>1. at % 4 = 0
          <6>1. CASE EndsHeap(h)
            <7>1. n \in 1 .. Len(h.list) /\ at = h.list[n].at
              BY <1>1, <2>2, <6>1
            <7>2. h.list[n].at % 4 = 0
              BY <7>1, GoodBlocks
            <7>3. QED BY <7>1, <7>2
          <6>2. CASE ~EndsHeap(h)
            BY <1>1, <2>2, <6>2 DEF Good, SIZE_T
          <6>3. QED BY <6>1, <6>2
        <5>2. (at + real) % 4 = 0
          <6>1. real % 4 = 0
            BY <1>2
          <6>2. QED BY <5>1, <6>1
        <5>3. QED BY <3>3, <5>2
      <4>3. c.size \in Nat /\ c.size >= 8 /\ c = Block(c.at, c.size)
        BY <1>1, <1>2, <3>3
      <4>4. CASE EndsHeap(h)
        <5>1. /\ lo = Len(h.list) /\ lo >= 1 /\ c.at = h.list[lo].at
              /\ h.list[lo].at + h.list[lo].size = end
          BY <1>1, <1>5, <2>2, <3>1, <3>3, <4>4
        <5>2. QED BY <4>1, <4>2, <4>3, <5>1 DEF Grows
      <4>5. CASE ~EndsHeap(h)
        <5>1. lo = Len(h.list) + 1 /\ c.at = end
          BY <1>1, <2>2, <3>1, <3>3, <4>5
        <5>2. QED BY <4>1, <4>2, <4>3, <5>1 DEF Grows
      <4>6. QED BY <4>4, <4>5
    <3>5. Splice(r.list, h.list, lo, n, <<>>)
      <4>1. CASE EndsHeap(h)
        <5>1. lo = n /\ n >= 1 /\ r.list = SubSeq(h.list, 1, n - 1)
          BY <1>1, <1>5, <3>1, <3>2, <4>1 DEF Front
        <5>2. /\ r.list \in Seq(Blocks) /\ Len(r.list) = n - 1
              /\ \A k \in 1 .. n - 1 : r.list[k] = h.list[k]
          <6>1. PICK s \in Seq(Blocks) : s = h.list /\ Len(s) = n
            BY <1>1, <1>2
          <6>2. /\ SubSeq(s, 1, n - 1) \in Seq(Blocks) /\ Len(SubSeq(s, 1, n - 1)) = n - 1
                /\ \A k \in 1 .. n - 1 : SubSeq(s, 1, n - 1)[k] = s[k]
            BY <1>1, <5>1, <6>1
          <6>3. QED BY <5>1, <6>1, <6>2
        <5>3. QED BY <1>1, <1>2, <5>1, <5>2, Empty DEF Splice
      <4>2. CASE ~EndsHeap(h)
        <5>1. lo = n + 1 /\ r.list = h.list
          BY <3>1, <3>2, <4>2
        <5>2. QED BY <1>1, <1>2, <5>1, Empty DEF Splice
      <4>3. QED BY <4>1, <4>2
    <3>6. PICK after : after = held \cup {c}
      OBVIOUS
    <3>7. \A b : b \in after <=> b \in held \/ b = c
      BY <3>6
    <3>8. Good(r.list, top, after) /\ c \in Blocks /\ c \notin held
      <4>1. PICK list, t : list = h.list /\ t = r.list
        OBVIOUS
      <4>2. /\ Good(list, end, held) /\ Splice(t, list, lo, Len(list), <<>>)
            /\ Grows(list, end, lo, c, top)
        BY <1>1, <3>4, <3>5, <4>1
      <4>3. Good(t, top, after) /\ c \in Blocks /\ c \notin held
        BY <3>7, <4>2, GrowHeld
      <4>4. QED BY <4>1, <4>3
    <3>9. c.at # NULL /\ (c.at + SIZE_T) % SIZE_T = 0
      BY <3>7, <3>8, NotNull
    <3>10. QED BY <1>1, <1>6, <3>2, <3>3, <3>6, <3>8, <3>9 DEF Got
  <2>6. QED BY <2>4, <2>5
<1>9. QED BY <1>7, <1>8

-----------------------------------------------------------------------------
(* memalign.                                                               *)

(* What memalign() cuts out of a block that is large enough.               *)
LEMMA CarveAligned ==
  ASSUME NEW h, NEW held, Good(h.list, h.end, held), NEW frame, NEW real, Wanted(real),
         NEW align, Aligns(align), NEW n \in 1 .. Len(h.list), NEW before,
         before = Before(h.list[n], align), before + real <= h.list[n].size,
         NEW r, r = Carve(h, n, before, real, ENTRY + 1)
  PROVE  Got(r, held, frame, real, align)
<1>1. /\ h.list[n].at \in Nat /\ h.list[n].at % SIZE_T = 0
  BY GoodBlocks DEF SIZE_T
<1>2. /\ before \in Nat /\ before % 4 = 0 /\ (before = 0 \/ before >= 8)
      /\ (h.list[n].at + before + SIZE_T) % align = 0
  <2>1. PICK c : c = h.list[n]
    OBVIOUS
  <2>2. c.at \in Nat /\ c.at % SIZE_T = 0 /\ before = Before(c, align)
    BY <1>1, <2>1
  <2>3. /\ before \in Nat /\ before % SIZE_T = 0 /\ (before = 0 \/ before >= ENTRY)
        /\ (c.at + before + SIZE_T) % align = 0
    BY <2>2, BeforeAligns
  <2>4. QED BY <2>1, <2>3 DEF SIZE_T, ENTRY
<1>3. Carves(h.list, n, before, real, ENTRY + 1)
  BY <1>2 DEF Carves, Wanted
<1>4. PICK after : after = held \cup {r.block}
  OBVIOUS
<1>5. \A b : b \in after <=> b \in held \/ b = r.block
  BY <1>4
<1>6. /\ Good(r.list, r.end, after)
      /\ r.block \in Blocks /\ r.block \notin held /\ r.block.size >= real
      /\ r.block.at = h.list[n].at + before
  <2>1. PICK least : least = ENTRY + 1
    OBVIOUS
  <2>2. Carves(h.list, n, before, real, least) /\ r = Carve(h, n, before, real, least)
    BY <1>3, <2>1
  <2>3. /\ Good(r.list, r.end, after)
        /\ r.block \in Blocks /\ r.block \notin held /\ r.block.size >= real
    BY <1>5, <2>2, CarveGood
  <2>4. r.block.at = h.list[n].at + before
    BY DEF Carve, Block
  <2>5. QED BY <2>3, <2>4
<1>7. r.block.at # NULL
  <2>1. PICK g, list, end : g = r.block /\ list = r.list /\ end = r.end
    OBVIOUS
  <2>2. Good(list, end, after) /\ g \in after
    BY <1>5, <1>6, <2>1
  <2>3. QED BY <2>1, <2>2, NotNull
<1>8. (r.block.at + SIZE_T) % align = 0 /\ align \in Nat \ {0}
  BY <1>2, <1>6 DEF Aligns
<1>9. QED BY <1>4, <1>6, <1>7, <1>8 DEF Got

(* No place in a block is none where the code looks for it.                *)
LEMMA NoPlaceIn ==
  ASSUME NEW b, b.at \in Nat, b.size \in Int, NEW align, Aligns(align), NEW real \in Nat,
         Place(b, real, align)
  PROVE  Before(b, align) \in Nat /\ Before(b, align) + real <= b.size
BY BeforeIsLeast DEF Aligns

(* A block that ends the heap grows to what the alignment needs, or there  *)
(* is no place for that.                                                   *)
LEMMA TakeGood ==
  ASSUME NEW h, NEW held, Good(h.list, h.end, held), NEW frame \in Limits,
         NEW real, Wanted(real), NEW align, Aligns(align), EndsHeap(h),
         NEW n, n = Len(h.list),
         \A k \in 1 .. n : k # n => h.list[k].size < real + Before(h.list[k], align),
         NEW r, r = TakeAligned(h, n, real, align, frame)
  PROVE  Got(r, held, frame, real, align)
<1>1. /\ n \in Nat /\ n >= 1 /\ h.list[n].at + h.list[n].size = h.end
      /\ h.list \in Seq(Blocks) /\ h.end \in Nat /\ real \in Nat /\ real % 4 = 0 /\ real >= 8
      /\ frame \in Int
  <2>1. n \in Nat /\ n >= 1 /\ h.list[n].at + h.list[n].size = h.end
    BY TopOfHeap
  <2>2. h.list \in Seq(Blocks) /\ h.end \in Nat /\ real \in Nat /\ real % 4 = 0 /\ real >= 8
    BY DEF Good, Wanted
  <2>3. QED BY <2>1, <2>2, MallocAssumption
<1>2. PICK at \in Nat, size \in Nat, before \in Nat, need \in Nat, end \in Nat :
        /\ at = h.list[n].at /\ size = h.list[n].size /\ before = Before(h.list[n], align)
        /\ need = before + real /\ at + size = end /\ end = h.end
        /\ before % 4 = 0 /\ at % 4 = 0
  <2>1. /\ h.list[n].at \in Nat /\ h.list[n].size \in Nat /\ h.list[n].at % SIZE_T = 0
        /\ h.list[n].at % 4 = 0
    BY <1>1, GoodBlocks DEF SIZE_T
  <2>2. PICK c : c = h.list[n]
    OBVIOUS
  <2>3. Before(c, align) \in Nat /\ Before(c, align) % SIZE_T = 0
    BY <2>1, <2>2, BeforeAligns
  <2>4. Before(h.list[n], align) + real \in Nat
    BY <1>1, <2>2, <2>3
  <2>5. QED BY <1>1, <2>1, <2>2, <2>3, <2>4 DEF SIZE_T
<1>3. n \in 1 .. Len(h.list)
  BY <1>1
<1>4. CASE size >= need
  <2>1. r = Carve(h, n, before, real, ENTRY + 1)
    BY <1>2, <1>4 DEF TakeAligned
  <2>2. before + real <= h.list[n].size
    BY <1>2, <1>4
  <2>3. QED BY <1>2, <1>3, <2>1, <2>2, CarveAligned
<1>5. CASE size < need /\ CAN_ALLOC_P(end, frame, need - size)
  <2>1. PICK g : g = [list |-> [h.list EXCEPT ![n].size = need], end |-> at + need]
    OBVIOUS
  <2>2. r = Carve(g, n, before, real, ENTRY + 1)
    BY <1>2, <1>5, <2>1 DEF TakeAligned
  <2>3. PICK c : c = Block(at, need)
    OBVIOUS
  <2>4. c.at = at /\ c.size = need /\ c \in Blocks
    BY <2>3 DEF Block, Blocks
  <2>5. g.list \in Seq(Blocks) /\ Splice(g.list, h.list, n, n, <<c>>)
    <3>1. PICK s \in Seq(Blocks) : s = h.list /\ Len(s) = n
      BY <1>1
    <3>2. s[n] \in Blocks /\ s[n].at = at
      BY <1>1, <1>2, <3>1
    <3>3. [s[n] EXCEPT !.size = need] = c
      <4>1. PICK e \in Blocks : e = s[n] /\ e.at = at
        BY <3>2
      <4>2. PICK old \in Nat : e = [at |-> at, size |-> old]
        BY <4>1 DEF Blocks
      <4>3. [e EXCEPT !.size = need] = c
        BY <2>3, <4>2 DEF Block
      <4>4. QED BY <4>1, <4>3
    <3>4. g.list = [s EXCEPT ![n] = c]
      <4>1. g.list = [s EXCEPT ![n].size = need]
        BY <2>1, <3>1
      <4>2. [s EXCEPT ![n].size = need] = [s EXCEPT ![n] = [s[n] EXCEPT !.size = need]]
        OBVIOUS
      <4>3. QED BY <3>3, <4>1, <4>2
    <3>5. /\ g.list \in Seq(Blocks) /\ Len(g.list) = n
          /\ \A k \in 1 .. n : g.list[k] = IF k = n THEN c ELSE s[k]
      <4>1. PICK u : u = [s EXCEPT ![n] = c]
        OBVIOUS
      <4>2. /\ u \in Seq(Blocks) /\ Len(u) = n
            /\ \A k \in 1 .. n : u[k] = IF k = n THEN c ELSE s[k]
        BY <1>1, <2>4, <3>1, <4>1
      <4>3. QED BY <3>4, <4>1, <4>2
    <3>6. PICK seg \in Seq(Blocks) : seg = <<c>> /\ Len(seg) = 1 /\ seg[1] = c
      BY <2>4, Single
    <3>7. ASSUME NEW k \in 1 .. n
          PROVE  g.list[k] = IF k < n THEN h.list[k]
                             ELSE IF k < n + Len(seg) THEN seg[k + 1 - n]
                             ELSE h.list[k - Len(seg) + (n + 1 - n)]
      <4>1. CASE k < n
        BY <3>1, <3>5, <4>1
      <4>2. CASE k = n
        <5>1. k + 1 - n = 1 /\ k < n + Len(seg) /\ ~(k < n)
          BY <1>1, <3>6, <4>2
        <5>2. QED BY <3>5, <3>6, <4>2, <5>1
      <4>3. k < n \/ k = n
        BY <1>1
      <4>4. QED BY <4>1, <4>2, <4>3
    <3>8. Len(g.list) = Len(h.list) + Len(seg) - (n + 1 - n)
      BY <1>1, <3>1, <3>5, <3>6
    <3>9. n \in 1 .. Len(h.list) + 1 /\ n \in n - 1 .. Len(h.list)
      BY <1>1
    <3>10. Splice(g.list, h.list, n, n, seg)
      BY <1>1, <3>5, <3>6, <3>7, <3>8, <3>9 DEF Splice
    <3>11. QED BY <3>5, <3>6, <3>10
  <2>6. Good(g.list, g.end, held)
    <3>1. PICK top \in Nat : top = at + need
      BY <1>2
    <3>2. top % 4 = 0
      <4>1. before % 4 = 0 /\ real % 4 = 0 /\ at % 4 = 0 /\ real \in Nat
        BY <1>1, <1>2
      <4>2. (before + real) % 4 = 0
        BY <4>1
      <4>3. need % 4 = 0
        BY <1>2, <4>2
      <4>4. (at + need) % 4 = 0
        BY <4>1, <4>3
      <4>5. QED BY <3>1, <4>4
    <3>3. end <= top /\ need >= 8
      <4>1. at + size < at + need
        BY <1>5
      <4>2. at + size = end /\ need = before + real
        BY <1>2
      <4>3. real \in Nat /\ real >= 8
        BY <1>1
      <4>4. need >= 8
        BY <4>2, <4>3
      <4>5. QED BY <3>1, <4>1, <4>2, <4>4
    <3>4. Grows(h.list, end, n, c, top)
      BY <1>1, <1>2, <2>3, <2>4, <3>1, <3>2, <3>3 DEF Grows
    <3>5. \A k \in 1 .. n - 1 : h.list[k].at + h.list[k].size < c.at
      <4>1. InOrder(h.list, n)
        <5>1. PICK list : list = h.list
          OBVIOUS
        <5>2. Good(list, end, held) /\ n = Len(list)
          BY <1>2, <5>1
        <5>3. InOrder(list, n)
          <6>1. \A k \in 1 .. n : /\ list[k].at \in Nat /\ list[k].size \in Nat
                                  /\ list[k].size >= 8
            BY <5>2, GoodBlocks
          <6>2. \A k, m \in 1 .. n : k < m => list[k].at + list[k].size < list[m].at
            BY <5>2 DEF Good, Sorted
          <6>3. QED BY <6>1, <6>2 DEF InOrder
        <5>4. QED BY <5>1, <5>3
      <4>2. QED BY <1>1, <1>2, <1>3, <2>4, <4>1, Ahead
    <3>6. PICK list, t : list = h.list /\ t = g.list
      OBVIOUS
    <3>7. /\ Good(list, end, held) /\ Grows(list, end, n, c, top)
          /\ \A k \in 1 .. n - 1 : list[k].at + list[k].size < c.at
          /\ Splice(t, list, n, Len(list), <<c>>)
      BY <1>2, <2>5, <3>4, <3>5, <3>6
    <3>8. Good(t, top, held)
      BY <3>7, GrowFree
    <3>9. QED BY <2>1, <3>1, <3>6, <3>8
  <2>7. g.list[n] = c /\ n \in 1 .. Len(g.list)
    <3>1. PICK seg : seg = <<c>> /\ Len(seg) = 1 /\ seg[1] = c
      BY <2>4, Single
    <3>2. Splice(g.list, h.list, n, n, seg)
      BY <2>5, <3>1
    <3>3. Len(g.list) = n
      BY <1>1, <3>1, <3>2 DEF Splice
    <3>4. g.list[n] = seg[n + 1 - n]
      <4>1. n \in 1 .. Len(g.list) /\ ~(n < n) /\ n < n + Len(seg)
        BY <1>1, <3>1, <3>3
      <4>2. \A k \in 1 .. Len(g.list) :
              g.list[k] = IF k < n THEN h.list[k]
                          ELSE IF k < n + Len(seg) THEN seg[k + 1 - n]
                          ELSE h.list[k - Len(seg) + (n + 1 - n)]
        BY <3>2 DEF Splice
      <4>3. QED BY <4>1, <4>2
    <3>5. n + 1 - n = 1
      BY <1>1
    <3>6. QED BY <1>1, <3>1, <3>3, <3>4, <3>5
  <2>8. before = Before(c, align) /\ before + real <= c.size
    <3>1. Before(c, align) = Before(h.list[n], align)
      BY <1>2, <2>4 DEF Before
    <3>2. QED BY <1>1, <1>2, <2>4, <3>1
  <2>9. QED BY <1>2, <2>2, <2>6, <2>7, <2>8, CarveAligned
<1>6. CASE size < need /\ ~CAN_ALLOC_P(end, frame, need - size)
  <2>1. r = Failure(h)
    BY <1>2, <1>6 DEF TakeAligned
  <2>2. r.list = h.list /\ r.end = h.end /\ r.block.at = NULL
    BY <2>1 DEF Failure, Block
  <2>3. ASSUME NEW b \in ToSet(h.list), Place(b, real, align) PROVE FALSE
    <3>1. PICK k \in 1 .. n : b = h.list[k]
      BY <1>1, InSet
    <3>2. b.at \in Nat /\ b.size \in Nat
      BY <3>1, <1>1, InSet
    <3>3. Before(b, align) \in Nat /\ Before(b, align) + real <= b.size
      BY <1>1, <2>3, <3>2, NoPlaceIn
    <3>4. b.size < real + Before(b, align)
      <4>1. CASE k = n
        BY <1>1, <1>2, <1>6, <3>1, <4>1
      <4>2. CASE k # n
        BY <3>1, <4>2
      <4>3. QED BY <4>1, <4>2
    <3>5. QED BY <1>1, <3>2, <3>3, <3>4
  <2>4. ASSUME Place(Rest(h, frame), real, align) PROVE FALSE
    <3>1. PICK room \in Int : room = frame - 32 - at
      BY <1>1
    <3>2. PICK b : b = Rest(h, frame)
      OBVIOUS
    <3>3. b.at = at /\ b.size = room
      <4>1. Last(h.list) = h.list[n]
        BY TopOfHeap
      <4>2. b = Block(at, room)
        BY <1>2, <3>1, <3>2, <4>1 DEF Rest, MALLOC_MINIMUM_GAP
      <4>3. QED BY <4>2 DEF Block
    <3>4. before + real <= room
      <4>1. Before(b, align) + real <= b.size
        BY <1>1, <2>4, <3>2, <3>3, NoPlaceIn
      <4>2. Before(b, align) = before
        BY <1>2, <3>3 DEF Before
      <4>3. QED BY <3>3, <4>1, <4>2
    <3>5. need - size \in Int /\ frame - end - 32 >= need - size /\ frame - end >= 32
      <4>1. need <= room /\ at + size = end
        BY <1>2, <3>4
      <4>2. size < need /\ frame \in Int
        BY <1>1, <1>6
      <4>3. QED BY <3>1, <4>1, <4>2
    <3>6. QED BY <1>6, <3>5, GapIsExact DEF MALLOC_MINIMUM_GAP
  <2>5. NoPlace(h, frame, real, align)
    BY <2>3, <2>4 DEF NoPlace
  <2>6. PICK g : g = [list |-> r.list, end |-> r.end]
    OBVIOUS
  <2>7. g.list = h.list /\ g.end = h.end
    BY <2>2, <2>6
  <2>8. NoPlace(g, frame, real, align)
    BY <2>5, <2>7, SameHeap
  <2>9. QED BY <2>2, <2>6, <2>8 DEF Got
<1>7. QED BY <1>2, <1>4, <1>5, <1>6

(* The gap before a new block is of whole words, and no more than Before.  *)
LEMMA FirstGap ==
  ASSUME NEW end \in Nat, end % SIZE_T = 0, NEW align, Aligns(align),
         NEW gap, gap = M_ALIGN(end + SIZE_T, align)
  PROVE  gap \in Nat /\ gap % 4 = 0 /\ \A b : b.at = end => gap <= Before(b, align)
<1>1. PICK e : e = Block(end, 0)
  OBVIOUS
<1>2. e.at = end /\ e.at \in Nat /\ e.at % SIZE_T = 0
  BY <1>1 DEF Block
<1>3. gap \in Nat /\ gap % 4 = 0
  <2>1. M_ALIGN(e.at + SIZE_T, align) \in Nat /\ M_ALIGN(e.at + SIZE_T, align) % SIZE_T = 0
    BY <1>2, FirstIsLeast
  <2>2. QED BY <1>2, <2>1 DEF SIZE_T
<1>4. ASSUME NEW b, b.at = end PROVE gap <= Before(b, align)
  <2>1. b.at \in Nat /\ b.at % SIZE_T = 0
    BY <1>4
  <2>2. M_ALIGN(b.at + SIZE_T, align) <= Before(b, align)
    BY <2>1, FirstIsLeast
  <2>3. M_ALIGN(b.at + SIZE_T, align) = gap
    BY <1>4
  <2>4. QED BY <2>2, <2>3
<1>5. QED BY <1>3, <1>4

(* A heap that does not end free, with a new free block at its end.        *)
Enlarges(g, h, n, c) ==
  /\ n = Len(h.list) + 1 /\ ~EndsHeap(h)
  /\ c = Block(h.end, c.size) /\ c.size \in Nat /\ c.size % 4 = 0 /\ c.size >= 8
  /\ g = [list |-> Append(h.list, c), end |-> h.end + c.size]

Larger(g, h, held, m) ==
  /\ Good(g.list, g.end, held) /\ EndsHeap(g) /\ Len(g.list) = m
  /\ \A k \in 1 .. m : k # m => g.list[k] = h.list[k]

LEMMA Enlarged ==
  ASSUME NEW h, NEW held, Good(h.list, h.end, held), NEW m, NEW c, NEW g,
         Enlarges(g, h, m, c)
  PROVE  Larger(g, h, held, m)
<1>1. PICK end \in Nat, n \in Nat, first \in Nat :
        /\ end = h.end /\ end % SIZE_T = 0 /\ h.list \in Seq(Blocks)
        /\ n = Len(h.list) /\ first = c.size
  BY DEF Good, Enlarges
<1>2. m = n + 1 /\ first % 4 = 0 /\ first >= 8 /\ ~EndsHeap(h) /\ c = Block(end, first)
  BY <1>1 DEF Enlarges
<1>3. g = [list |-> Append(h.list, c), end |-> end + first]
  BY <1>1 DEF Enlarges
<1>4. c.at = end /\ c.size = first /\ c \in Blocks /\ c = Block(c.at, c.size)
  BY <1>2 DEF Block, Blocks
<1>5. \A k \in 1 .. n : /\ h.list[k].at \in Nat /\ h.list[k].size \in Nat
                        /\ h.list[k].at + h.list[k].size <= end
  BY <1>1, GoodBlocks
<1>6. /\ g.list \in Seq(Blocks) /\ Len(g.list) = n + 1
      /\ \A k \in 1 .. n + 1 : g.list[k] = IF k = n + 1 THEN c ELSE h.list[k]
  BY <1>1, <1>3, <1>4
<1>7. g.end = end + first
  BY <1>3
<1>8. Splice(g.list, h.list, n + 1, n, <<c>>)
  BY <1>1, <1>4, <1>6, Single DEF Splice
<1>9. PICK top \in Nat : top = end + first
  OBVIOUS
<1>10. Grows(h.list, end, n + 1, c, top)
  <2>1. top % 4 = 0
    <3>1. end % 4 = 0 /\ first % 4 = 0
      BY <1>2, <1>1 DEF SIZE_T
    <3>2. (end + first) % 4 = 0
      BY <3>1
    <3>3. QED BY <1>9, <3>2
  <2>2. first >= 8 /\ end <= top /\ c.at + c.size = top
    BY <1>2, <1>1, <1>4, <1>9
  <2>3. QED BY <1>1, <1>4, <1>9, <2>1, <2>2 DEF Grows
<1>11. \A k \in 1 .. n : h.list[k].at + h.list[k].size < c.at
  <2>1. n >= 1 => h.list[n].at + h.list[n].size # end
    BY <1>2, <1>1, TopOfHeap
  <2>2. ASSUME NEW k \in 1 .. n PROVE h.list[k].at + h.list[k].size < end
    <3>1. PICK e \in Nat, f \in Nat, a \in Nat, s \in Nat :
            /\ e = h.list[k].at /\ f = h.list[k].size
            /\ a = h.list[n].at /\ s = h.list[n].size
      <4>1. n \in 1 .. n
        OBVIOUS
      <4>2. QED BY <1>5, <4>1
    <3>2. e + f <= end /\ a + s <= end /\ a + s # end
      BY <1>5, <2>1, <3>1
    <3>3. k = n \/ e + f < a
      <4>1. k = n \/ k < n
        OBVIOUS
      <4>2. n \in 1 .. n
        OBVIOUS
      <4>3. QED BY <1>1, <3>1, <4>1, <4>2 DEF Good, Sorted
    <3>4. e + f < end
      <4>1. CASE k = n
        <5>1. e = a /\ f = s
          BY <3>1, <4>1
        <5>2. QED BY <3>2, <5>1
      <4>2. CASE e + f < a
        BY <3>2, <4>2
      <4>3. QED BY <3>3, <4>1, <4>2
    <3>5. QED BY <3>1, <3>4
  <2>3. QED BY <1>4, <2>2
<1>12. Good(g.list, g.end, held)
  <2>1. PICK list, t, lo : list = h.list /\ t = g.list /\ lo = n + 1
    OBVIOUS
  <2>2. /\ Good(list, end, held) /\ Grows(list, end, lo, c, top)
        /\ \A k \in 1 .. lo - 1 : list[k].at + list[k].size < c.at
        /\ Splice(t, list, lo, Len(list), <<c>>)
    BY <1>1, <1>8, <1>10, <1>11, <2>1
  <2>3. Good(t, top, held)
    BY <2>2, GrowFree
  <2>4. QED BY <1>7, <1>9, <2>1, <2>3
<1>13. g.list[n + 1] = c /\ \A k \in 1 .. n : g.list[k] = h.list[k]
  BY <1>6
<1>14. EndsHeap(g)
  <2>1. g.list[n + 1].at + g.list[n + 1].size = g.end
    BY <1>4, <1>7, <1>13
  <2>2. n + 1 = Len(g.list) /\ n + 1 >= 1
    BY <1>6
  <2>3. QED BY <1>12, <2>1, <2>2, TopOfHeap
<1>15. Len(g.list) = m /\ \A k \in 1 .. m : k # m => g.list[k] = h.list[k]
  BY <1>2, <1>6
<1>16. QED BY <1>12, <1>14, <1>15 DEF Larger

(* memalign() returns an aligned block of the heap it leaves, or finds no  *)
(* place.                                                                  *)
LEMMA MemalignGood ==
  ASSUME NEW h, NEW held, Good(h.list, h.end, held), NEW frame \in Limits,
         NEW sz, Wanted(REAL_SIZE(sz)), NEW align, IsPowerOfTwo(align) => Aligns(align),
         NEW r, r = Memalign(h, align, sz, frame)
  PROVE  Got(r, held, frame, REAL_SIZE(sz), align)
<1>1. PICK real \in Nat, n \in Nat, end \in Nat :
        real = REAL_SIZE(sz) /\ n = Len(h.list) /\ end = h.end
  <2>1. REAL_SIZE(sz) \in Nat /\ h.end \in Nat /\ Len(h.list) \in Nat
    BY DEF Wanted, Good
  <2>2. QED BY <2>1
<1>2. /\ real % 4 = 0 /\ real >= 8 /\ Wanted(real) /\ h.list \in Seq(Blocks)
      /\ end % SIZE_T = 0 /\ frame \in Int
  BY <1>1, MallocAssumption DEF Wanted, Good
<1>3. ASSUME r = Failure(h), IsPowerOfTwo(align) => NoPlace(h, frame, real, align)
      PROVE  Got(r, held, frame, real, align)
  <2>1. r.list = h.list /\ r.end = h.end /\ r.block.at = NULL
    BY <1>3 DEF Failure, Block
  <2>2. PICK g : g = [list |-> r.list, end |-> r.end]
    OBVIOUS
  <2>3. g.list = h.list /\ g.end = h.end
    BY <2>1, <2>2
  <2>4. IsPowerOfTwo(align) => NoPlace(g, frame, real, align)
    BY <1>3, <2>3, SameHeap
  <2>5. QED BY <2>1, <2>2, <2>4 DEF Got
<1>4. CASE ~IsPowerOfTwo(align)
  <2>1. r = Failure(h)
    BY <1>4 DEF Memalign
  <2>2. QED BY <1>1, <1>3, <1>4, <2>1
<1>5. CASE IsPowerOfTwo(align)
  <2>1. Aligns(align)
    BY <1>5
  <2>2. \A k \in 1 .. n : /\ h.list[k].at \in Nat /\ h.list[k].size \in Nat
                          /\ h.list[k].at % SIZE_T = 0
                          /\ h.list[k].at + h.list[k].size <= end
    BY <1>1, GoodBlocks DEF SIZE_T
  <2>3. \A k \in 1 .. n : Before(h.list[k], align) \in Nat
    <3>1. ASSUME NEW k \in 1 .. n PROVE Before(h.list[k], align) \in Nat
      <4>1. PICK c : c = h.list[k]
        OBVIOUS
      <4>2. c.at \in Nat /\ c.at % SIZE_T = 0
        BY <2>2, <4>1
      <4>3. Before(c, align) \in Nat
        BY <2>1, <4>2, BeforeAligns
      <4>4. QED BY <4>1, <4>3
    <3>2. QED BY <3>1
  <2>4. PICK fit : fit = AlignedFit(h.list, real, align)
    OBVIOUS
  <2>5. \/ fit = 0 /\ \A k \in 1 .. n : h.list[k].size < real + Before(h.list[k], align)
        \/ fit \in 1 .. n /\ h.list[fit].size >= real + Before(h.list[fit], align)
    BY <1>1, <1>2, <2>3, <2>4, PlaceOfAligned
  <2>6. CASE fit # 0
    <3>1. r = TakeAligned(h, fit, real, align, frame)
      BY <1>1, <1>5, <2>4, <2>6 DEF Memalign
    <3>2. fit \in 1 .. n
      BY <2>5, <2>6
    <3>3. PICK size \in Nat, before \in Nat :
            size = h.list[fit].size /\ before = Before(h.list[fit], align)
      BY <2>2, <2>3, <3>2
    <3>4. size >= before + real /\ before + real <= h.list[fit].size
      BY <2>5, <2>6, <3>2, <3>3
    <3>5. ~(size < before + real)
      BY <3>4
    <3>6. r = Carve(h, fit, before, real, ENTRY + 1)
      BY <3>1, <3>3, <3>4, <3>5 DEF TakeAligned
    <3>7. QED BY <1>1, <1>2, <2>1, <3>2, <3>3, <3>4, <3>6, CarveAligned
  <2>7. CASE fit = 0 /\ EndsHeap(h)
    <3>1. r = TakeAligned(h, n, real, align, frame)
      BY <1>1, <1>5, <2>4, <2>7 DEF Memalign
    <3>2. \A k \in 1 .. n : h.list[k].size < real + Before(h.list[k], align)
      BY <2>5, <2>7
    <3>3. QED BY <1>1, <1>2, <2>1, <2>7, <3>1, <3>2, TakeGood
  <2>8. CASE fit = 0 /\ ~EndsHeap(h)
    <3>1. PICK gap \in Nat : gap = M_ALIGN(end + SIZE_T, align)
      BY <1>2, <2>1, FirstGap
    <3>2. PICK first \in Nat : first = real + gap
      OBVIOUS
    <3>3. PICK m : m = n + 1
      OBVIOUS
    <3>4. PICK c, g : /\ c = Block(end, first)
                      /\ g = [list |-> Append(h.list, c), end |-> end + first]
      OBVIOUS
    <3>5. first % 4 = 0 /\ first >= 8
      <4>1. gap % 4 = 0
        BY <1>2, <2>1, <3>1, FirstGap
      <4>2. QED BY <1>2, <3>2, <4>1
    <3>6. gap % 4 = 0 /\ \A b : b.at = end => gap <= Before(b, align)
      BY <1>2, <2>1, <3>1, FirstGap
    <3>7. CASE ~CAN_ALLOC_P(end, frame, first)
      <4>1. r = Failure(h)
        BY <1>1, <1>5, <2>4, <2>8, <3>1, <3>2, <3>7 DEF Memalign
      <4>2. ASSUME NEW b \in ToSet(h.list), Place(b, real, align) PROVE FALSE
        <5>1. PICK k \in 1 .. n : b = h.list[k]
          BY <1>1, <1>2, InSet
        <5>2. b.at \in Nat /\ b.size \in Nat
          BY <2>2, <5>1
        <5>3. Before(b, align) \in Nat /\ Before(b, align) + real <= b.size
          BY <2>1, <4>2, <5>2, NoPlaceIn
        <5>4. b.size < real + Before(b, align)
          BY <2>5, <2>8, <5>1
        <5>5. QED BY <5>2, <5>3, <5>4
      <4>3. ASSUME Place(Rest(h, frame), real, align) PROVE FALSE
        <5>1. PICK room \in Int : room = frame - 32 - end
          BY <1>2
        <5>2. PICK b : b = Rest(h, frame)
          OBVIOUS
        <5>3. b.at = end /\ b.size = room
          BY <1>1, <2>8, <5>1, <5>2 DEF Rest, Block, MALLOC_MINIMUM_GAP
        <5>4. PICK before \in Nat : before = Before(b, align) /\ before + real <= room
          BY <2>1, <4>3, <5>2, <5>3, NoPlaceIn
        <5>5. gap <= before
          BY <3>6, <5>3, <5>4
        <5>6. frame \in Int
          BY <1>2
        <5>7. frame - end - 32 >= first /\ frame - end >= 32
          BY <3>2, <5>1, <5>4, <5>5, <5>6
        <5>8. QED BY <3>7, <5>7, GapIsExact DEF MALLOC_MINIMUM_GAP
      <4>4. NoPlace(h, frame, real, align)
        BY <4>2, <4>3 DEF NoPlace
      <4>5. QED BY <1>1, <1>3, <4>1, <4>4
    <3>8. CASE CAN_ALLOC_P(end, frame, first)
      <4>1. Enlarges(g, h, m, c)
        <5>1. c.size = first /\ c = Block(end, c.size)
          BY <3>4 DEF Block
        <5>2. QED BY <1>1, <2>8, <3>3, <3>4, <3>5, <5>1 DEF Enlarges
      <4>2. /\ Good(g.list, g.end, held) /\ EndsHeap(g) /\ Len(g.list) = m
            /\ \A k \in 1 .. m : k # m => g.list[k] = h.list[k]
        <5>1. Larger(g, h, held, m)
          BY <4>1, Enlarged
        <5>2. QED BY <5>1 DEF Larger
      <4>3. \A k \in 1 .. m : k # m => g.list[k].size < real + Before(g.list[k], align)
        <5>1. \A k \in 1 .. m : k # m => k \in 1 .. n
          BY <3>3
        <5>2. QED BY <2>5, <2>8, <4>2, <5>1
      <4>4. r = TakeAligned(g, m, real, align, frame)
        BY <1>1, <1>5, <2>4, <2>8, <3>1, <3>2, <3>4, <3>8, <4>2 DEF Memalign
      <4>5. PICK l : l = m /\ l = Len(g.list)
        BY <4>2
      <4>6. QED BY <1>1, <1>2, <2>1, <4>2, <4>3, <4>4, <4>5, TakeGood
    <3>9. QED BY <3>7, <3>8
  <2>9. QED BY <2>6, <2>7, <2>8
<1>6. QED BY <1>1, <1>4, <1>5

-----------------------------------------------------------------------------
(* The invariant.                                                          *)

HeldOf(f) == {Block(b, f[b].size) : b \in DOMAIN f}

(* What the program holds is as it asked for it.                           *)
InUse(f) ==
  /\ DOMAIN f \subseteq Nat
  /\ f \in [DOMAIN f -> [size : Nat, asked : Nat, align : Nat \ {0}]]
  /\ \A b \in DOMAIN f : /\ f[b].size - SIZE_T >= f[b].asked
                         /\ (b + SIZE_T) % f[b].align = 0

NoSpace(list, end, lim, fail) ==
  fail # Nothing /\ IsPowerOfTwo(fail.align) =>
    NoPlace([list |-> list, end |-> end], lim, REAL_SIZE(fail.sz), fail.align)

State(list, end, f, lim, fail) ==
  /\ Good(list, end, HeldOf(f)) /\ InUse(f) /\ lim \in Limits
  /\ NoSpace(list, end, lim, fail)

LEMMA HeldBlocks ==
  ASSUME NEW f, InUse(f)
  PROVE  /\ HeldOf(f) \in SUBSET Blocks
         /\ \A b \in DOMAIN f : /\ b \in Nat /\ f[b].size \in Nat /\ f[b].asked \in Nat
                                /\ Block(b, f[b].size) \in HeldOf(f)
                                /\ Block(b, f[b].size).at = b
                                /\ Block(b, f[b].size).size = f[b].size
<1>1. \A b \in DOMAIN f : b \in Nat /\ f[b].size \in Nat /\ f[b].asked \in Nat
  BY DEF InUse
<1>2. \A b \in DOMAIN f : /\ Block(b, f[b].size) \in HeldOf(f)
                          /\ Block(b, f[b].size).at = b
                          /\ Block(b, f[b].size).size = f[b].size
  BY DEF HeldOf, Block
<1>3. HeldOf(f) \in SUBSET Blocks
  BY <1>1 DEF HeldOf, Block, Blocks
<1>4. QED BY <1>1, <1>2, <1>3

(* The parts of the invariant.                                             *)
LEMMA InvState ==
  MallocInv <=> State(freelist, malloc_end, inuse, limit, failed)
<1>1. Held = HeldOf(inuse)
  BY DEF Held, HeldOf
<1>2. InUse(inuse) <=> /\ DOMAIN inuse \subseteq Nat
                       /\ inuse \in [DOMAIN inuse -> [size : Nat, asked : Nat, align : Nat \ {0}]]
                       /\ FitsRequest
  BY DEF InUse, FitsRequest, malloc_usable_size
<1>3. FailsForWantOfSpace <=> NoSpace(freelist, malloc_end, limit, failed)
  <2>1. PICK h : h = [list |-> freelist, end |-> malloc_end]
    OBVIOUS
  <2>2. Heap = h /\ h.list = freelist /\ h.end = malloc_end
    BY <2>1 DEF Heap
  <2>3. FailsForWantOfSpace <=>
          (failed # Nothing /\ IsPowerOfTwo(failed.align) =>
             \A b \in ToSet(freelist) \cup {Rest(h, limit)} :
               ~Place(b, REAL_SIZE(failed.sz), failed.align))
    BY <2>2 DEF FailsForWantOfSpace, Rest
  <2>4. QED BY <2>1, <2>2, <2>3 DEF NoSpace, NoPlace
<1>4. ASSUME MallocInv PROVE State(freelist, malloc_end, inuse, limit, failed)
  <2>1. InUse(inuse)
    BY <1>2, <1>4 DEF MallocInv, MallocType
  <2>2. HeldOf(inuse) \in SUBSET Blocks
    BY <2>1, HeldBlocks
  <2>3. Good(freelist, malloc_end, HeldOf(inuse))
    BY <1>1, <1>4, <2>2 DEF MallocInv, MallocType, HeapTiled, Good
  <2>4. QED BY <1>3, <1>4, <2>1, <2>3 DEF MallocInv, MallocType, State
<1>5. ASSUME State(freelist, malloc_end, inuse, limit, failed) PROVE MallocInv
  <2>1. MallocType /\ FitsRequest
    BY <1>2, <1>5 DEF MallocType, State, Good
  <2>2. HeapTiled /\ Words(Held \cup ToSet(freelist)) /\ Sorted(freelist)
    BY <1>1, <1>5 DEF HeapTiled, State, Good
  <2>3. FailsForWantOfSpace
    BY <1>3, <1>5 DEF State
  <2>4. QED BY <2>1, <2>2, <2>3 DEF MallocInv
<1>6. QED BY <1>4, <1>5

(* The program gets the block at an address at which it holds none.        *)
Adds(g, f, at, size, asked, align) ==
  g = [b \in DOMAIN f \cup {at} |->
         IF b = at THEN [size |-> size, asked |-> asked, align |-> align] ELSE f[b]]

LEMMA HoldMore ==
  ASSUME NEW f, InUse(f), NEW at \in Nat, at \notin DOMAIN f,
         NEW size \in Nat, NEW asked \in Nat, NEW align \in Nat \ {0},
         size >= asked + SIZE_T, (at + SIZE_T) % align = 0,
         NEW g, Adds(g, f, at, size, asked, align)
  PROVE  InUse(g) /\ HeldOf(g) = HeldOf(f) \cup {Block(at, size)}
<1> USE DEF Adds
<1>1. DOMAIN g = DOMAIN f \cup {at}
  OBVIOUS
<1>2. PICK e : e = [size |-> size, asked |-> asked, align |-> align]
  OBVIOUS
<1>3. /\ e \in [size : Nat, asked : Nat, align : Nat \ {0}]
      /\ e.size = size /\ e.asked = asked /\ e.align = align
  BY <1>2
<1>4. g[at] = e /\ \A b \in DOMAIN f : g[b] = f[b]
  BY <1>1, <1>2
<1>5. \A b \in DOMAIN f : /\ b \in Nat /\ f[b] \in [size : Nat, asked : Nat, align : Nat \ {0}]
                          /\ f[b].size - SIZE_T >= f[b].asked
                          /\ (b + SIZE_T) % f[b].align = 0
  BY DEF InUse
<1>6. g \in [DOMAIN g -> [size : Nat, asked : Nat, align : Nat \ {0}]]
  <2>1. \A b \in DOMAIN g : g[b] \in [size : Nat, asked : Nat, align : Nat \ {0}]
    BY <1>1, <1>3, <1>4, <1>5
  <2>2. g = [b \in DOMAIN g |-> g[b]]
    BY <1>1
  <2>3. QED BY <2>1, <2>2
<1>7. size - SIZE_T >= asked
  BY DEF SIZE_T
<1>8. \A b \in DOMAIN g : /\ b \in Nat /\ g[b].size - SIZE_T >= g[b].asked
                          /\ (b + SIZE_T) % g[b].align = 0
  BY <1>1, <1>3, <1>4, <1>5, <1>7
<1>9. InUse(g)
  BY <1>6, <1>8 DEF InUse
<1>10. HeldOf(g) = HeldOf(f) \cup {Block(at, size)}
  <2> HIDE DEF Adds
  <2>1. \A c : c \in HeldOf(g) <=> \E b \in DOMAIN g : c = Block(b, g[b].size)
    BY DEF HeldOf
  <2>2. \A c : c \in HeldOf(f) <=> \E b \in DOMAIN f : c = Block(b, f[b].size)
    BY DEF HeldOf
  <2>3. g[at].size = size /\ \A b \in DOMAIN f : g[b].size = f[b].size
    BY <1>3, <1>4
  <2>4. \A c : c \in HeldOf(g) <=> c \in HeldOf(f) \/ c = Block(at, size)
    BY <1>1, <2>1, <2>2, <2>3
  <2>5. QED BY <2>4
<1>11. QED BY <1>9, <1>10

(* The program gives back the block at b.                                  *)
LEMMA HoldLess ==
  ASSUME NEW f, InUse(f), NEW b \in DOMAIN f, NEW g, g = Restrict(f, DOMAIN f \ {b})
  PROVE  /\ InUse(g)
         /\ \A c : c \in HeldOf(g) <=> c \in HeldOf(f) /\ c # Block(b, f[b].size)
<1>1. DOMAIN g = DOMAIN f \ {b} /\ \A k \in DOMAIN g : g[k] = f[k]
  BY DEF Restrict
<1>2. g = [k \in DOMAIN g |-> g[k]]
  BY DEF Restrict
<1>3. \A k \in DOMAIN f : /\ k \in Nat /\ f[k] \in [size : Nat, asked : Nat, align : Nat \ {0}]
                          /\ f[k].size - SIZE_T >= f[k].asked
                          /\ (k + SIZE_T) % f[k].align = 0
  BY DEF InUse
<1>4. InUse(g)
  <2>1. g \in [DOMAIN g -> [size : Nat, asked : Nat, align : Nat \ {0}]]
    BY <1>1, <1>2, <1>3
  <2>2. QED BY <1>1, <1>3, <2>1 DEF InUse
<1>5. \A k \in DOMAIN f : Block(k, f[k].size) = Block(b, f[b].size) => k = b
  <2>1. \A k \in DOMAIN f : Block(k, f[k].size).at = k
    BY DEF Block
  <2>2. QED BY <2>1
<1>6. \A c : c \in HeldOf(g) <=> \E k \in DOMAIN f : k # b /\ c = Block(k, f[k].size)
  BY <1>1 DEF HeldOf
<1>7. \A c : c \in HeldOf(f) <=> \E k \in DOMAIN f : c = Block(k, f[k].size)
  BY DEF HeldOf
<1>8. QED BY <1>4, <1>5, <1>6, <1>7

(* A call that gets a block, or none.                                      *)
LEMMA AllocGood ==
  ASSUME NEW others, InUse(others), NEW frame \in Limits, NEW sz \in Nat,
         REAL_SIZE(sz) \in Nat, REAL_SIZE(sz) >= sz + SIZE_T, NEW align,
         NEW r, Got(r, HeldOf(others), frame, REAL_SIZE(sz), align),
         Allocates(r, sz, align, others), limit' = frame
  PROVE  State(freelist', malloc_end', inuse', limit', failed')
<1>1. /\ freelist' = r.list /\ malloc_end' = r.end
      /\ inuse' = [b \in DOMAIN others \cup ({r.block.at} \ {NULL}) |->
                     IF b = r.block.at
                     THEN [size |-> r.block.size, asked |-> sz, align |-> align]
                     ELSE others[b]]
      /\ failed' = IF r.block.at = NULL THEN [sz |-> sz, align |-> align] ELSE Nothing
  BY DEF Allocates
<1>2. CASE r.block.at = NULL
  <2>1. /\ Good(r.list, r.end, HeldOf(others))
        /\ IsPowerOfTwo(align) =>
             NoPlace([list |-> r.list, end |-> r.end], frame, REAL_SIZE(sz), align)
    BY <1>2 DEF Got
  <2>2. inuse' = others
    <3>1. others = [b \in DOMAIN others |-> others[b]]
      BY DEF InUse
    <3>2. DOMAIN others \cup ({r.block.at} \ {NULL}) = DOMAIN others
      BY <1>2
    <3>3. \A b \in DOMAIN others : b # r.block.at
      <4>1. PICK n, list, end, held : n = 0 /\ list = r.list /\ end = r.end /\ held = HeldOf(others)
        OBVIOUS
      <4>2. ASSUME NEW b \in DOMAIN others, b = NULL PROVE FALSE
        <5>1. Block(b, others[b].size) \in held /\ Block(b, others[b].size).at = b
          BY <4>1, HeldBlocks
        <5>2. Good(list, end, held)
          BY <2>1, <4>1
        <5>3. QED BY <4>2, <5>1, <5>2, NotNull
      <4>3. QED BY <1>2, <4>2
    <3>4. QED BY <1>1, <3>1, <3>2, <3>3
  <2>3. failed'.sz = sz /\ failed'.align = align
    BY <1>1, <1>2
  <2>4. NoSpace(freelist', malloc_end', limit', failed')
    BY <1>1, <2>1, <2>3 DEF NoSpace
  <2>5. QED BY <1>1, <2>1, <2>2, <2>4 DEF State
<1>3. CASE r.block.at # NULL
  <2>1. /\ r.block \in Blocks /\ r.block \notin HeldOf(others) /\ r.block.size >= REAL_SIZE(sz)
        /\ align \in Nat \ {0} /\ (r.block.at + SIZE_T) % align = 0
        /\ Good(r.list, r.end, HeldOf(others) \cup {r.block})
    BY <1>3 DEF Got
  <2>2. PICK at \in Nat, size \in Nat : /\ at = r.block.at /\ size = r.block.size
                                        /\ r.block = Block(at, size)
    BY <2>1 DEF Blocks, Block
  <2>3. PICK f, held : f = inuse' /\ held = HeldOf(others)
    OBVIOUS
  <2>4. at \notin DOMAIN others
    <3> SUFFICES ASSUME at \in DOMAIN others PROVE FALSE
      OBVIOUS
    <3>1. PICK c : c = Block(at, others[at].size)
      OBVIOUS
    <3>2. c \in held /\ c.at = at
      BY <2>3, <3>1, HeldBlocks
    <3>3. PICK list, end, both : list = r.list /\ end = r.end /\ both = held \cup {r.block}
      OBVIOUS
    <3>4. Good(list, end, both) /\ c \in both /\ r.block \in both /\ c # r.block
      BY <2>1, <2>3, <3>2, <3>3
    <3>5. Apart(c, r.block) /\ c.size >= 8 /\ r.block.size >= 8 /\ c.size \in Nat
      BY <3>4, GoodBlocks
    <3>6. PICK m \in Nat : m = c.size
      BY <3>5
    <3>7. at + m <= at \/ at + size <= at
      <4>1. c.at + c.size <= r.block.at \/ r.block.at + r.block.size <= c.at
        BY <3>5 DEF Apart
      <4>2. c.at = at /\ c.size = m /\ r.block.at = at /\ r.block.size = size
        BY <2>2, <3>2, <3>6
      <4>3. QED BY <4>1, <4>2
    <3>8. m >= 8 /\ size >= 8
      BY <2>2, <3>5, <3>6
    <3>9. QED BY <3>7, <3>8
  <2>5. Adds(f, others, at, size, sz, align)
    <3>1. DOMAIN others \cup ({r.block.at} \ {NULL}) = DOMAIN others \cup {at}
      BY <1>3, <2>2
    <3>2. QED BY <1>1, <2>2, <2>3, <3>1 DEF Adds
  <2>6. InUse(f) /\ HeldOf(f) = HeldOf(others) \cup {r.block}
    <3>1. size >= sz + SIZE_T
      <4>1. PICK real \in Nat, want \in Nat : real = REAL_SIZE(sz) /\ want = sz + SIZE_T
        BY DEF SIZE_T
      <4>2. real >= want /\ size >= real
        BY <2>1, <2>2, <4>1
      <4>3. QED BY <4>1, <4>2
    <3>2. align \in Nat \ {0} /\ (at + SIZE_T) % align = 0
      BY <2>1, <2>2
    <3>3. QED BY <2>2, <2>4, <2>5, <3>1, <3>2, HoldMore
  <2>7. NoSpace(freelist', malloc_end', limit', failed')
    BY <1>1, <1>3 DEF NoSpace
  <2>8. QED BY <1>1, <2>1, <2>3, <2>6, <2>7 DEF State
<1>4. QED BY <1>2, <1>3

(* The program gives back, and keeps, parts of one of its blocks.          *)
Resizes(g, f, b, size, asked) == g = [f EXCEPT ![b].asked = asked, ![b].size = size]

LEMMA HoldOther ==
  ASSUME NEW f, InUse(f), NEW b \in DOMAIN f, NEW size \in Nat, NEW asked \in Nat,
         size >= asked + SIZE_T,
         NEW g, Resizes(g, f, b, size, asked)
  PROVE  /\ InUse(g)
         /\ \A c : c \in HeldOf(g) <=> \/ c \in HeldOf(f) /\ c # Block(b, f[b].size)
                                       \/ c = Block(b, size)
<1>1. \A k \in DOMAIN f : /\ k \in Nat /\ f[k] \in [size : Nat, asked : Nat, align : Nat \ {0}]
                          /\ f[k].size - SIZE_T >= f[k].asked
                          /\ (k + SIZE_T) % f[k].align = 0
  BY DEF InUse
<1>2. PICK e : e = [f[b] EXCEPT !.asked = asked, !.size = size]
  OBVIOUS
<1>3. /\ e \in [size : Nat, asked : Nat, align : Nat \ {0}]
      /\ e.size = size /\ e.asked = asked /\ e.align = f[b].align
  BY <1>1, <1>2
<1>4. /\ DOMAIN g = DOMAIN f /\ g[b] = e /\ \A k \in DOMAIN f : k # b => g[k] = f[k]
      /\ g = [k \in DOMAIN g |-> g[k]]
  <2>1. f \in [DOMAIN f -> [size : Nat, asked : Nat, align : Nat \ {0}]]
    BY DEF InUse
  <2>2. QED BY <1>1, <1>2, <2>1 DEF Resizes
<1>5. size - SIZE_T >= asked
  BY DEF SIZE_T
<1>6. InUse(g)
  <2>1. g \in [DOMAIN g -> [size : Nat, asked : Nat, align : Nat \ {0}]]
    <3>1. \A k \in DOMAIN g : g[k] \in [size : Nat, asked : Nat, align : Nat \ {0}]
      BY <1>1, <1>3, <1>4
    <3>2. QED BY <1>4, <3>1
  <2>2. \A k \in DOMAIN g : /\ k \in Nat /\ g[k].size - SIZE_T >= g[k].asked
                            /\ (k + SIZE_T) % g[k].align = 0
    BY <1>1, <1>3, <1>4, <1>5
  <2>3. QED BY <2>1, <2>2 DEF InUse
<1>7. \A k, m \in DOMAIN f : Block(k, f[k].size) = Block(m, f[m].size) => k = m
  <2>1. \A k \in DOMAIN f : Block(k, f[k].size).at = k
    BY DEF Block
  <2>2. QED BY <2>1
<1>8. \A c : c \in HeldOf(g) <=> \E k \in DOMAIN f : c = Block(k, g[k].size)
  BY <1>4 DEF HeldOf
<1>9. \A c : c \in HeldOf(f) <=> \E k \in DOMAIN f : c = Block(k, f[k].size)
  BY DEF HeldOf
<1>10. g[b].size = size /\ \A k \in DOMAIN f : k # b => g[k].size = f[k].size
  BY <1>3, <1>4
<1>11. ASSUME NEW c
       PROVE  c \in HeldOf(g) <=> \/ c \in HeldOf(f) /\ c # Block(b, f[b].size)
                                  \/ c = Block(b, size)
  <2>1. c \in HeldOf(g) <=> \/ c = Block(b, size)
                            \/ \E k \in DOMAIN f : k # b /\ c = Block(k, f[k].size)
    BY <1>8, <1>10
  <2>2. (\E k \in DOMAIN f : k # b /\ c = Block(k, f[k].size))
          <=> c \in HeldOf(f) /\ c # Block(b, f[b].size)
    BY <1>7, <1>9
  <2>3. QED BY <2>1, <2>2
<1>12. QED BY <1>6, <1>11

-----------------------------------------------------------------------------
(* The calls.                                                              *)

Now == State(freelist, malloc_end, inuse, limit, failed)
Later == State(freelist', malloc_end', inuse', limit', failed')

(* A size that REAL_SIZE has room for.                                     *)
Size(sz) == sz \in Nat /\ Wanted(REAL_SIZE(sz)) /\ REAL_SIZE(sz) >= sz + SIZE_T

(* The sizes and the alignments of the calls.                              *)
LEMMA Sizes ==
  ASSUME Assumptions
  PROVE  /\ \A sz \in Requests : /\ Size(sz) /\ Size((2 * sz) % WordMod)
                                 /\ Size(sz + M_ALIGN(sz, PAGE_ALIGN))
         /\ \A align \in Alignments \cup {PAGE_ALIGN} : IsPowerOfTwo(align) => Aligns(align)
<1>1. \A sz \in 0 .. WordMod - 2 * ENTRY : Size(sz)
  <2> SUFFICES ASSUME NEW sz \in 0 .. WordMod - 2 * ENTRY PROVE Size(sz)
    OBVIOUS
  <2>1. /\ REAL_SIZE(sz) \in Nat /\ REAL_SIZE(sz) % SIZE_T = 0
        /\ REAL_SIZE(sz) >= ENTRY /\ REAL_SIZE(sz) >= sz + SIZE_T
    BY RealSize
  <2>2. sz \in Nat
    BY MallocAssumption DEF ENTRY, SIZE_T
  <2>3. SIZE_T = 4 /\ ENTRY = 8
    BY DEF ENTRY, SIZE_T
  <2>4. QED BY <2>1, <2>2, <2>3 DEF Size, Wanted
<1>2. ASSUME NEW sz \in Requests
      PROVE  Size(sz) /\ Size((2 * sz) % WordMod) /\ Size(sz + M_ALIGN(sz, PAGE_ALIGN))
  <2>1. {sz, (2 * sz) % WordMod, sz + M_ALIGN(sz, PAGE_ALIGN)} \subseteq 0 .. WordMod - 2 * ENTRY
    BY DEF Assumptions, SizesInReach
  <2>2. QED BY <1>1, <2>1
<1>3. ASSUME NEW align \in Alignments \cup {PAGE_ALIGN}, IsPowerOfTwo(align)
      PROVE  Aligns(align)
  <2>1. align \in {1, 2} \/ (align # 0 /\ align % SIZE_T = 0)
    BY <1>3 DEF Assumptions, PowersOfTwo
  <2>2. align \in Nat
    BY MallocAssumption
  <2>3. QED BY <2>1, <2>2 DEF Aligns
<1>4. QED BY <1>2, <1>3

(* malloc(), and calloc(), which calls it.                                 *)
LEMMA MallocStep ==
  ASSUME Now, NEW sz, Size(sz), malloc(sz)
  PROVE  Later
<1>1. PICK frame \in Limits : Call(frame) /\ Allocates(Malloc(Heap, sz, frame), sz, SIZE_T, inuse)
  BY DEF malloc
<1>2. PICK h, r : h = Heap /\ r = Malloc(h, sz, frame)
  OBVIOUS
<1>3. Good(h.list, h.end, HeldOf(inuse)) /\ InUse(inuse)
  BY <1>2 DEF Now, State, Heap
<1>4. PICK held : held = HeldOf(inuse)
  OBVIOUS
<1>5. sz \in Nat /\ Wanted(REAL_SIZE(sz)) /\ REAL_SIZE(sz) \in Nat /\ REAL_SIZE(sz) >= sz + SIZE_T
  BY DEF Size, Wanted
<1>6. Got(r, held, frame, REAL_SIZE(sz), SIZE_T)
  BY <1>2, <1>3, <1>4, <1>5, MallocGood
<1>7. Got(r, HeldOf(inuse), frame, REAL_SIZE(sz), SIZE_T)
  BY <1>4, <1>6
<1>8. Allocates(r, sz, SIZE_T, inuse) /\ limit' = frame
  BY <1>1, <1>2 DEF Call
<1>9. QED BY <1>3, <1>5, <1>7, <1>8, AllocGood DEF Later

(* memalign(), and valloc() and pvalloc(), which call it.                  *)
LEMMA MemalignStep ==
  ASSUME Now, NEW sz, Size(sz), NEW align, IsPowerOfTwo(align) => Aligns(align),
         memalign(align, sz)
  PROVE  Later
<1>1. PICK frame \in Limits :
        Call(frame) /\ Allocates(Memalign(Heap, align, sz, frame), sz, align, inuse)
  BY DEF memalign
<1>2. PICK h, r : h = Heap /\ r = Memalign(h, align, sz, frame)
  OBVIOUS
<1>3. Good(h.list, h.end, HeldOf(inuse)) /\ InUse(inuse)
  BY <1>2 DEF Now, State, Heap
<1>4. PICK held : held = HeldOf(inuse)
  OBVIOUS
<1>5. sz \in Nat /\ Wanted(REAL_SIZE(sz)) /\ REAL_SIZE(sz) \in Nat /\ REAL_SIZE(sz) >= sz + SIZE_T
  BY DEF Size, Wanted
<1>6. Got(r, held, frame, REAL_SIZE(sz), align)
  BY <1>2, <1>3, <1>4, <1>5, MemalignGood
<1>7. Got(r, HeldOf(inuse), frame, REAL_SIZE(sz), align)
  BY <1>4, <1>6
<1>8. Allocates(r, sz, align, inuse) /\ limit' = frame
  BY <1>1, <1>2 DEF Call
<1>9. QED BY <1>3, <1>5, <1>7, <1>8, AllocGood DEF Later

(* free(), and cfree(), which is the same.                                 *)
LEMMA FreeStep ==
  ASSUME Now, NEW b \in DOMAIN inuse, free(b)
  PROVE  Later
<1>1. PICK list, end, held, c, t, g :
        /\ list = freelist /\ end = malloc_end /\ held = HeldOf(inuse)
        /\ c = Block(b, inuse[b].size) /\ t = Free(list, c)
        /\ g = Restrict(inuse, DOMAIN inuse \ {b})
  OBVIOUS
<1>2. /\ freelist' = t /\ malloc_end' = end /\ inuse' = g /\ limit' = limit
      /\ failed' = Nothing
  BY <1>1 DEF free
<1>3. Good(list, end, held) /\ InUse(inuse) /\ limit \in Limits
  BY <1>1 DEF Now, State
<1>4. c \in held
  BY <1>1, <1>3, HeldBlocks
<1>5. PICK after : after = HeldOf(g)
  OBVIOUS
<1>6. InUse(g) /\ \A d : d \in after <=> d \in held /\ d # c
  BY <1>1, <1>3, <1>5, HoldLess
<1>7. Good(t, end, after)
  BY <1>1, <1>3, <1>4, <1>6, FreeGood
<1>8. NoSpace(t, end, limit, Nothing)
  BY DEF NoSpace
<1>9. QED BY <1>2, <1>3, <1>5, <1>6, <1>7, <1>8 DEF Later, State

(* What malloc() leaves has the heap and the block.                        *)
LEMMA MallocShape ==
  ASSUME NEW h, NEW sz, NEW frame
  PROVE  \E l, e, b : Malloc(h, sz, frame) = [list |-> l, end |-> e, block |-> b]
BY DEF Malloc, Carve, Failure

(* realloc() of more than the block has.                                   *)
LEMMA MovesStep ==
  ASSUME Now, NEW b \in DOMAIN inuse, NEW sz, Size(sz), NEW frame \in Limits,
         Moves(b, sz, frame), limit' = frame
  PROVE  Later
<1>1. PICK h, r, old : h = Heap /\ r = Malloc(h, sz, frame) /\ old = Block(b, inuse[b].size)
  OBVIOUS
<1>2. Good(h.list, h.end, HeldOf(inuse)) /\ InUse(inuse)
  BY <1>1 DEF Now, State, Heap
<1>3. PICK held : held = HeldOf(inuse)
  OBVIOUS
<1>4. sz \in Nat /\ Wanted(REAL_SIZE(sz)) /\ REAL_SIZE(sz) \in Nat /\ REAL_SIZE(sz) >= sz + SIZE_T
  BY DEF Size, Wanted
<1>5. PICK real \in Nat : real = REAL_SIZE(sz)
  BY <1>4
<1>6. Got(r, held, frame, real, SIZE_T)
  BY <1>1, <1>2, <1>3, <1>4, <1>5, MallocGood
<1>7. CASE r.block.at = NULL
  <2>1. Allocates(r, sz, SIZE_T, inuse)
    BY <1>1, <1>7 DEF Moves
  <2>2. Got(r, HeldOf(inuse), frame, REAL_SIZE(sz), SIZE_T)
    BY <1>3, <1>5, <1>6
  <2>3. QED BY <1>2, <1>4, <2>1, <2>2, AllocGood DEF Later
<1>8. CASE r.block.at # NULL
  <2>1. PICK others, s, t :
          /\ others = Restrict(inuse, DOMAIN inuse \ {b})
          /\ t = Free(r.list, old) /\ s = [r EXCEPT !.list = t]
    OBVIOUS
  <2>2. Allocates(s, sz, SIZE_T, others)
    BY <1>1, <1>8, <2>1 DEF Moves
  <2>3. s.list = t /\ s.end = r.end /\ s.block = r.block
    BY <1>1, <2>1, MallocShape
  <2>4. PICK g : g = r.block
    OBVIOUS
  <2>5. /\ g.at # NULL /\ g \in Blocks /\ g \notin held /\ g.size >= real
        /\ SIZE_T \in Nat \ {0} /\ (g.at + SIZE_T) % SIZE_T = 0
        /\ Good(r.list, r.end, held \cup {g})
    BY <1>6, <1>8, <2>4 DEF Got
  <2>6. PICK less, both, after : /\ less = HeldOf(others) /\ both = held \cup {g}
                                 /\ after = less \cup {g}
    OBVIOUS
  <2>7. InUse(others) /\ \A d : d \in less <=> d \in held /\ d # old
    BY <1>1, <1>2, <1>3, <2>1, <2>6, HoldLess
  <2>8. old \in held
    BY <1>1, <1>2, <1>3, HeldBlocks
  <2>9. old \in both /\ \A d : d \in after <=> d \in both /\ d # old
    BY <2>5, <2>6, <2>7, <2>8
  <2>10. Good(t, s.end, after)
    <3>1. PICK list, end : list = r.list /\ end = r.end
      OBVIOUS
    <3>2. Good(list, end, both) /\ t = Free(list, old)
      BY <2>1, <2>5, <2>6, <3>1
    <3>3. Good(t, end, after)
      BY <2>9, <3>2, FreeGood
    <3>4. QED BY <2>3, <3>1, <3>3
  <2>11. Got(s, less, frame, real, SIZE_T)
    BY <2>3, <2>4, <2>5, <2>6, <2>7, <2>10 DEF Got
  <2>12. Got(s, HeldOf(others), frame, REAL_SIZE(sz), SIZE_T)
    BY <1>5, <2>6, <2>11
  <2>13. QED BY <1>4, <2>2, <2>7, <2>12, AllocGood DEF Later
<1>9. QED BY <1>7, <1>8

(* A block of the program is cut in two.                                   *)
LEMMA SplitGood ==
  ASSUME NEW list, NEW end, NEW held, Good(list, end, held), NEW c \in held,
         NEW real, Wanted(real), NEW rest, Wanted(rest), real + rest = c.size,
         NEW f, f = Block(c.at, real), NEW k, k = Block(c.at + real, rest),
         NEW both, \A b : b \in both <=> (b \in held /\ b # c) \/ b = f \/ b = k
  PROVE  Good(list, end, both) /\ f # k
<1>1. PICK at \in Nat : at = c.at /\ real \in Nat /\ rest \in Nat /\ real >= 8 /\ rest >= 8
  BY GoodBlocks DEF Wanted
<1>2. Whole(c, end) /\ end \in Nat /\ end % SIZE_T = 0 /\ list \in Seq(Blocks)
  BY GoodBlocks DEF Whole, Good, Tiled, Words
<1>3. PICK new : \A b : b \in new <=> b = f \/ b = k
  <2> WITNESS {f, k}
  <2> QED OBVIOUS
<1>4. CutUp(c, 0, real, rest, new)
  <2>1. Parts(0, real, rest)
    BY <1>1 DEF Parts, Wanted
  <2>2. 0 + real + rest = c.size
    BY <1>1
  <2>3. Block(c.at + 0, real) = f /\ Block(c.at + 0 + real, rest) = k
    BY <1>1
  <2>4. rest # 0
    BY <1>1
  <2>5. QED BY <1>3, <2>1, <2>2, <2>3, <2>4 DEF CutUp
<1>5. /\ Laid(new, end) /\ \A b \in new : b \in Blocks
      /\ \A x \in Nat : (\E b \in new : Holds(b, x)) <=> Holds(c, x)
  BY <1>2, <1>4, Pieces
<1>6. PICK seg : seg = <<>> /\ seg \in Seq(Blocks) /\ Len(seg) = 0
                 /\ Sorted(seg) /\ ToSet(seg) = {}
  BY Empty
<1>7. Splice(list, list, 1, 0, seg)
  <2>1. PICK n \in Nat : n = Len(list)
    BY <1>2
  <2>2. 1 \in 1 .. n + 1 /\ 0 \in 1 - 1 .. n /\ n = n + 0 - (0 + 1 - 1)
    BY <2>1
  <2>3. \A m \in 1 .. n : /\ ~(m < 1) /\ ~(m < 1 + 0) /\ m - 0 + (0 + 1 - 1) = m
    BY <2>1
  <2>4. QED BY <1>2, <1>6, <2>1, <2>2, <2>3 DEF Splice
<1>8. Between(list, 1, 0, seg)
  BY <1>6 DEF Between
<1>9. PICK old, back : old = {c} /\ back = {c}
  OBVIOUS
<1>10. Exchanges(list, 1, 0, seg, held, back, new, old, new, both)
  <2>1. 1 .. 0 = {}
    OBVIOUS
  <2>2. QED BY <1>3, <1>5, <1>6, <1>9, <2>1 DEF Exchanges
<1>11. SameBytes(new, old, end, end)
  <2>1. end .. end - 1 = {}
    BY <1>2
  <2>2. QED BY <1>5, <1>9, <2>1 DEF SameBytes
<1>12. end <= end
  BY <1>2
<1>13. Good(list, end, both)
  BY <1>2, <1>5, <1>6, <1>7, <1>8, <1>10, <1>11, <1>12, GoodSplice
<1>14. f # k
  <2>1. f.at = at /\ k.at = at + real
    BY <1>1 DEF Block
  <2>2. QED BY <1>1, <2>1
<1>15. QED BY <1>13, <1>14

(* realloc() of no more than the block has.                                *)
LEMMA ShrinksStep ==
  ASSUME Now, NEW b \in DOMAIN inuse, NEW sz, Size(sz), inuse[b].size >= REAL_SIZE(sz),
         Shrinks(b, sz), limit' \in Limits
  PROVE  Later
<1>1. PICK list, end, held, g :
        /\ list = freelist /\ end = malloc_end /\ held = HeldOf(inuse) /\ g = inuse'
  OBVIOUS
<1>2. Good(list, end, held) /\ InUse(inuse)
  BY <1>1 DEF Now, State
<1>3. sz \in Nat /\ Wanted(REAL_SIZE(sz)) /\ REAL_SIZE(sz) >= sz + SIZE_T /\ SIZE_T = 4
  BY DEF Size, SIZE_T
<1>4. PICK real \in Nat : real = REAL_SIZE(sz)
  BY <1>3 DEF Wanted
<1>5. PICK c : c = Block(b, inuse[b].size)
  OBVIOUS
<1>6. b \in Nat /\ c \in held /\ c.at = b /\ c.size = inuse[b].size /\ inuse[b].size \in Nat
  BY <1>1, <1>2, <1>5, HeldBlocks
<1>7. c.size % 4 = 0
  BY <1>2, <1>6, GoodBlocks
<1>8. PICK size \in Nat, rest \in Nat : size = c.size /\ rest = size - real
  BY <1>4, <1>6
<1>9. real % 4 = 0 /\ real >= 8 /\ real >= sz + 4 /\ rest % 4 = 0 /\ ENTRY = 8
  <2>1. real % 4 = 0 /\ real >= 8 /\ real >= sz + 4 /\ size % 4 = 0
    BY <1>3, <1>4, <1>7, <1>8 DEF Wanted
  <2>2. rest % 4 = 0
    BY <1>8, <2>1
  <2>3. QED BY <2>1, <2>2 DEF ENTRY, SIZE_T
<1>10. /\ malloc_end' = end /\ failed' = Nothing
       /\ g = [inuse EXCEPT ![b].asked = sz, ![b].size = IF rest >= 8 THEN real ELSE @]
       /\ freelist' = IF rest >= 8 THEN Free(list, Block(b + real, rest)) ELSE list
  BY <1>1, <1>4, <1>6, <1>8, <1>9 DEF Shrinks
<1>11. NoSpace(freelist', malloc_end', limit', failed')
  BY <1>10 DEF NoSpace
<1>12. PICK after : after = HeldOf(g)
  OBVIOUS
<1>13. CASE rest >= 8
  <2>1. Resizes(g, inuse, b, real, sz) /\ real >= sz + SIZE_T
    BY <1>3, <1>4, <1>10, <1>13 DEF Resizes
  <2>2. PICK f, k, t : f = Block(b, real) /\ k = Block(b + real, rest) /\ t = Free(list, k)
    OBVIOUS
  <2>3. InUse(g) /\ \A d : d \in after <=> (d \in held /\ d # c) \/ d = f
    <3>1. InUse(g) /\ \A d : d \in HeldOf(g) <=> \/ d \in HeldOf(inuse) /\ d # Block(b, inuse[b].size)
                                                 \/ d = Block(b, real)
      BY <1>2, <1>3, <2>1, HoldOther
    <3>2. QED BY <1>1, <1>5, <1>12, <2>2, <3>1
  <2>4. PICK both : both = after \cup {k}
    OBVIOUS
  <2>5. \A d : d \in both <=> (d \in held /\ d # c) \/ d = f \/ d = k
    BY <2>3, <2>4
  <2>6. Wanted(real) /\ Wanted(rest) /\ real + rest = c.size
    BY <1>8, <1>9, <1>13 DEF Wanted
  <2>7. Good(list, end, both) /\ f # k
    BY <1>2, <1>6, <2>2, <2>5, <2>6, SplitGood
  <2>8. k \notin after
    <3>1. k \in Blocks /\ k.at = b + real /\ k.size = rest
      BY <1>6, <2>2 DEF Block, Blocks
    <3>2. k # c
      BY <1>6, <1>9, <3>1
    <3>3. ASSUME k \in held PROVE FALSE
      <4>1. Apart(k, c)
        BY <1>2, <1>6, <3>2, <3>3, GoodBlocks
      <4>2. b + real + rest <= b \/ b + size <= b + real
        BY <1>6, <1>8, <3>1, <4>1 DEF Apart
      <4>3. QED BY <1>6, <1>8, <1>9, <1>13, <4>2
    <3>4. QED BY <2>3, <2>7, <3>3
  <2>9. \A d : d \in after <=> d \in both /\ d # k
    BY <2>4, <2>8
  <2>10. k \in both
    BY <2>4
  <2>11. Good(t, end, after)
    BY <2>2, <2>7, <2>9, <2>10, FreeGood
  <2>12. freelist' = t
    BY <1>10, <1>13, <2>2
  <2>13. QED BY <1>1, <1>10, <1>11, <1>12, <2>3, <2>11, <2>12 DEF Later, State
<1>14. CASE rest < 8
  <2>1. Resizes(g, inuse, b, size, sz)
    <3>1. inuse \in [DOMAIN inuse -> [size : Nat, asked : Nat, align : Nat \ {0}]]
      BY <1>2 DEF InUse
    <3>2. ~(rest >= 8)
      BY <1>14
    <3>3. g = [inuse EXCEPT ![b].asked = sz, ![b].size = @]
      BY <1>10, <3>2
    <3>4. QED BY <1>6, <1>8, <3>1, <3>3 DEF Resizes
  <2>2. size >= sz + SIZE_T
    BY <1>3, <1>8, <1>9
  <2>3. c = Block(b, size)
    BY <1>5, <1>6, <1>8
  <2>4. InUse(g) /\ \A d : d \in after <=> (d \in held /\ d # c) \/ d = c
    <3>1. InUse(g) /\ \A d : d \in HeldOf(g) <=> \/ d \in HeldOf(inuse) /\ d # Block(b, inuse[b].size)
                                                 \/ d = Block(b, size)
      BY <1>2, <1>3, <2>1, <2>2, HoldOther
    <3>2. QED BY <1>1, <1>5, <1>12, <2>3, <3>1
  <2>5. after = held
    BY <1>6, <2>4
  <2>6. freelist' = list
    BY <1>10, <1>14
  <2>7. QED BY <1>1, <1>2, <1>10, <1>11, <1>12, <2>4, <2>5, <2>6 DEF Later, State
<1>15. QED BY <1>13, <1>14

LEMMA ReallocStep ==
  ASSUME Now, NEW b \in DOMAIN inuse, NEW sz, Size(sz), realloc(b, sz)
  PROVE  Later
<1>1. PICK frame \in Limits :
        /\ Call(frame)
        /\ \/ inuse[b].size < REAL_SIZE(sz) /\ Moves(b, sz, frame)
           \/ inuse[b].size >= REAL_SIZE(sz) /\ Shrinks(b, sz)
  BY DEF realloc
<1>2. limit' = frame /\ limit' \in Limits
  BY <1>1 DEF Call
<1>3. CASE inuse[b].size < REAL_SIZE(sz) /\ Moves(b, sz, frame)
  BY <1>2, <1>3, MovesStep
<1>4. CASE inuse[b].size >= REAL_SIZE(sz) /\ Shrinks(b, sz)
  BY <1>2, <1>4, ShrinksStep
<1>5. QED BY <1>1, <1>3, <1>4

-----------------------------------------------------------------------------
(* The invariant is inductive.                                             *)

LEMMA Starts ==
  ASSUME Init
  PROVE  Now
<1>1. PICK f : f = inuse
  OBVIOUS
<1>2. DOMAIN f = {} /\ f = [b \in DOMAIN f |-> f[b]]
  BY <1>1 DEF Init
<1>3. HeldOf(f) = {}
  BY <1>2 DEF HeldOf
<1>4. InUse(f)
  <2>1. f \in [DOMAIN f -> [size : Nat, asked : Nat, align : Nat \ {0}]]
    BY <1>2
  <2>2. QED BY <1>2, <2>1 DEF InUse
<1>5. NoSpace(freelist, malloc_end, limit, failed)
  BY DEF Init, NoSpace
<1>6. PICK list : list = freelist
  OBVIOUS
<1>7. list \in Seq(Blocks) /\ Len(list) = 0 /\ Sorted(list) /\ ToSet(list) = {}
  <2>1. list = <<>>
    BY <1>6 DEF Init
  <2>2. QED BY <2>1, Empty
<1>8. malloc_end \in Nat /\ malloc_end % SIZE_T = 0 /\ malloc_start = malloc_end /\ limit \in Limits
  BY MallocAssumption DEF Init
<1>9. Good(list, malloc_end, {})
  <2>1. malloc_start .. malloc_end - 1 = {}
    BY <1>8
  <2>2. Tiled({} \cup ToSet(list), malloc_end) /\ Words({} \cup ToSet(list))
    BY <1>7, <2>1 DEF Tiled, Words
  <2>3. QED BY <1>7, <1>8, <2>2 DEF Good
<1>10. QED BY <1>1, <1>3, <1>4, <1>5, <1>6, <1>8, <1>9 DEF Now, State

LEMMA Stays ==
  ASSUME Assumptions, Now, [Next]_vars
  PROVE  Later
<1>1. /\ \A sz \in Requests : /\ Size(sz) /\ Size((2 * sz) % WordMod)
                              /\ Size(sz + M_ALIGN(sz, PAGE_ALIGN))
      /\ \A align \in Alignments \cup {PAGE_ALIGN} : IsPowerOfTwo(align) => Aligns(align)
  BY Sizes
<1>2. ASSUME NEW sz \in Requests, malloc(sz) PROVE Later
  BY <1>1, <1>2, MallocStep
<1>3. ASSUME NEW sz \in Requests, calloc(2, sz) PROVE Later
  BY <1>1, <1>3, MallocStep DEF calloc
<1>4. ASSUME NEW sz \in Requests, valloc(sz) PROVE Later
  BY <1>1, <1>4, MemalignStep DEF valloc
<1>5. ASSUME NEW sz \in Requests, pvalloc(sz) PROVE Later
  BY <1>1, <1>5, MemalignStep DEF pvalloc
<1>6. ASSUME NEW sz \in Requests, NEW align \in Alignments, memalign(align, sz) PROVE Later
  BY <1>1, <1>6, MemalignStep
<1>7. ASSUME NEW sz \in Requests, NEW b \in DOMAIN inuse, realloc(b, sz) PROVE Later
  BY <1>1, <1>7, ReallocStep
<1>8. ASSUME NEW b \in DOMAIN inuse, free(b) PROVE Later
  BY <1>8, FreeStep
<1>9. CASE UNCHANGED vars
  BY <1>9 DEF Now, Later, vars
<1>10. QED BY <1>2, <1>3, <1>4, <1>5, <1>6, <1>7, <1>8, <1>9 DEF Next

LEMMA Always ==
  ASSUME Assumptions
  PROVE  Spec => []MallocInv
<1>1. Init => MallocInv
  BY Starts, InvState DEF Now
<1>2. (MallocInv <=> Now) /\ (MallocInv <=> Now)'
  <2>1. MallocInv <=> Now
    BY InvState DEF Now
  <2>2. QED BY <2>1, PTL
<1>3. Now' <=> Later
  BY DEF Now, Later
<1>4. MallocInv /\ [Next]_vars => MallocInv'
  BY <1>2, <1>3, Stays
<1>5. QED BY <1>1, <1>4, PTL DEF Spec

(* Whatever is called, and with any size and alignment, the blocks that    *)
(* the program holds and those of __malloc_freelist are apart, and every   *)
(* byte between the start of the heap and __malloc_end is in one of them.  *)
THEOREM BytesKept ==
  ASSUME Assumptions
  PROVE  Spec => []HeapTiled
<1>1. MallocInv => HeapTiled
  BY DEF MallocInv
<1>2. QED BY <1>1, Always, PTL

(* free(), and the splits of malloc() and memalign(), leave the freelist   *)
(* in the order of the addresses and no two of its blocks touching.        *)
THEOREM Coalesced ==
  ASSUME Assumptions
  PROVE  Spec => []FreelistCoalesced
<1>1. ASSUME MallocInv, NEW i \in 1 .. Len(freelist) - 1
      PROVE  freelist[i].at + freelist[i].size < freelist[i + 1].at
  <2>1. freelist \in Seq(Blocks) /\ Sorted(freelist)
    BY <1>1 DEF MallocInv, MallocType
  <2>2. Len(freelist) \in Nat
    BY <2>1
  <2>3. i \in 1 .. Len(freelist) /\ i + 1 \in 1 .. Len(freelist) /\ i < i + 1
    BY <2>2
  <2>4. QED BY <2>1, <2>3 DEF Sorted
<1>2. MallocInv => FreelistCoalesced
  BY <1>1 DEF FreelistCoalesced
<1>3. QED BY <1>2, Always, PTL

(* malloc(), memalign() and realloc() give the bytes and the alignment     *)
(* that were asked for, and no later call takes them away.                 *)
THEOREM BytesAndAlignment ==
  ASSUME Assumptions
  PROVE  Spec => []FitsRequest
<1>1. MallocInv => FitsRequest
  BY DEF MallocInv
<1>2. QED BY <1>1, Always, PTL

(* A call that returns null had no place for the block: not in a block of  *)
(* the freelist, nor in what is left up to the gap below the stack.        *)
THEOREM NullForWantOfSpace ==
  ASSUME Assumptions
  PROVE  Spec => []FailsForWantOfSpace
<1>1. MallocInv => FailsForWantOfSpace
  BY DEF MallocInv
<1>2. QED BY <1>1, Always, PTL

-----------------------------------------------------------------------------
(* The gap below the stack.                                                *)

(* A call at frame that finds the gap leaves it.                           *)
LeavesGap(end, top, frame) ==
  top # end /\ frame - end >= MALLOC_MINIMUM_GAP => frame - top >= MALLOC_MINIMUM_GAP

LEMMA MallocGap ==
  ASSUME NEW h, NEW held, Good(h.list, h.end, held), NEW frame \in Limits,
         NEW sz, Wanted(REAL_SIZE(sz)), NEW r, r = Malloc(h, sz, frame)
  PROVE  LeavesGap(h.end, r.end, frame)
<1>1. PICK real \in Nat, n \in Nat, end \in Nat :
        real = REAL_SIZE(sz) /\ n = Len(h.list) /\ end = h.end
  <2>1. REAL_SIZE(sz) \in Nat /\ h.end \in Nat /\ Len(h.list) \in Nat
    BY DEF Wanted, Good
  <2>2. QED BY <2>1
<1>2. PICK have \in Nat : have = IF EndsHeap(h) THEN Last(h.list).size ELSE 0
  <2>1. EndsHeap(h) => n \in 1 .. n /\ Last(h.list) = h.list[n]
    <3>1. EndsHeap(h) => n >= 1 /\ Last(h.list) = h.list[n]
      BY <1>1, TopOfHeap
    <3>2. QED BY <3>1
  <2>2. EndsHeap(h) => Last(h.list).size \in Nat
    BY <1>1, <2>1, GoodBlocks
  <2>3. QED BY <2>2
<1>3. \/ r.end = end
      \/ CAN_ALLOC_P(end, frame, real - have) /\ r.end = end - have + real
  <2>1. CASE Fit(h.list, real) # 0
    BY <1>1, <2>1 DEF Malloc, Carve
  <2>2. CASE Fit(h.list, real) = 0 /\ ~CAN_ALLOC_P(end, frame, real - have)
    BY <1>1, <1>2, <2>2 DEF Malloc, Failure
  <2>3. CASE Fit(h.list, real) = 0 /\ CAN_ALLOC_P(end, frame, real - have)
    BY <1>1, <1>2, <2>3 DEF Malloc
  <2>4. QED BY <2>1, <2>2, <2>3
<1>4. ASSUME CAN_ALLOC_P(end, frame, real - have), frame - end >= MALLOC_MINIMUM_GAP
      PROVE  frame - (end - have + real) >= MALLOC_MINIMUM_GAP
  <2>1. real - have \in Int /\ frame \in Int
    BY MallocAssumption
  <2>2. frame - end - MALLOC_MINIMUM_GAP >= real - have
    BY <1>4, <2>1, GapIsExact
  <2>3. QED BY <2>1, <2>2 DEF MALLOC_MINIMUM_GAP
<1>5. QED BY <1>1, <1>3, <1>4 DEF LeavesGap

LEMMA TakeGap ==
  ASSUME NEW h, NEW held, Good(h.list, h.end, held), NEW frame \in Limits,
         NEW real \in Nat, NEW align, Aligns(align), NEW n \in 1 .. Len(h.list),
         \/ h.list[n].size >= real + Before(h.list[n], align)
         \/ h.list[n].at + h.list[n].size = h.end,
         NEW r, r = TakeAligned(h, n, real, align, frame)
  PROVE  LeavesGap(h.end, r.end, frame)
<1>1. PICK at \in Nat, size \in Nat, need \in Nat, end \in Nat :
        /\ at = h.list[n].at /\ size = h.list[n].size /\ end = h.end
        /\ need = Before(h.list[n], align) + real
  <2>1. /\ h.list[n].at \in Nat /\ h.list[n].size \in Nat /\ h.list[n].at % SIZE_T = 0
    BY GoodBlocks DEF SIZE_T
  <2>2. PICK c : c = h.list[n]
    OBVIOUS
  <2>3. Before(c, align) \in Nat
    BY <2>1, <2>2, BeforeAligns
  <2>4. h.end \in Nat /\ Before(h.list[n], align) + real \in Nat
    BY <2>2, <2>3 DEF Good
  <2>5. QED BY <2>1, <2>4
<1>2. size >= need \/ at + size = end
  <2>1. PICK before \in Int : before = need - real /\ before = Before(h.list[n], align)
    <3>1. PICK b : b = Before(h.list[n], align)
      OBVIOUS
    <3>2. b \in Nat
      <4>1. PICK c : c = h.list[n]
        OBVIOUS
      <4>2. c.at \in Nat /\ c.at % SIZE_T = 0
        BY <4>1, GoodBlocks DEF SIZE_T
      <4>3. QED BY <3>1, <4>1, <4>2, BeforeAligns
    <3>3. need = b + real
      BY <1>1, <3>1
    <3>4. QED BY <3>1, <3>2, <3>3
  <2>2. QED BY <1>1, <2>1
<1>3. \/ r.end = end
      \/ size < need /\ CAN_ALLOC_P(end, frame, need - size) /\ r.end = at + need
  <2>1. CASE size >= need
    BY <1>1, <2>1 DEF TakeAligned, Carve
  <2>2. CASE size < need /\ ~CAN_ALLOC_P(end, frame, need - size)
    BY <1>1, <2>2 DEF TakeAligned, Failure
  <2>3. CASE size < need /\ CAN_ALLOC_P(end, frame, need - size)
    BY <1>1, <2>3 DEF TakeAligned, Carve
  <2>4. QED BY <2>1, <2>2, <2>3
<1>4. ASSUME size < need, CAN_ALLOC_P(end, frame, need - size),
             frame - end >= MALLOC_MINIMUM_GAP
      PROVE  frame - (at + need) >= MALLOC_MINIMUM_GAP
  <2>1. need - size \in Int /\ frame \in Int /\ at + size = end
    <3>1. at + size = end
      BY <1>2, <1>4
    <3>2. QED BY <3>1, MallocAssumption
  <2>2. frame - end - MALLOC_MINIMUM_GAP >= need - size
    BY <1>4, <2>1, GapIsExact
  <2>3. QED BY <2>1, <2>2 DEF MALLOC_MINIMUM_GAP
<1>5. QED BY <1>1, <1>3, <1>4 DEF LeavesGap

LEMMA MemalignGap ==
  ASSUME NEW h, NEW held, Good(h.list, h.end, held), NEW frame \in Limits,
         NEW sz, Wanted(REAL_SIZE(sz)), NEW align, IsPowerOfTwo(align) => Aligns(align),
         NEW r, r = Memalign(h, align, sz, frame)
  PROVE  LeavesGap(h.end, r.end, frame)
<1>1. PICK real \in Nat, n \in Nat, end \in Nat :
        real = REAL_SIZE(sz) /\ n = Len(h.list) /\ end = h.end
  <2>1. REAL_SIZE(sz) \in Nat /\ h.end \in Nat /\ Len(h.list) \in Nat
    BY DEF Wanted, Good
  <2>2. QED BY <2>1
<1>2. /\ real % 4 = 0 /\ real >= 8 /\ h.list \in Seq(Blocks) /\ end % SIZE_T = 0
      /\ frame \in Int
  BY <1>1, MallocAssumption DEF Wanted, Good
<1>3. ASSUME r = Failure(h) PROVE LeavesGap(h.end, r.end, frame)
  BY <1>3 DEF Failure, LeavesGap
<1>4. CASE ~IsPowerOfTwo(align)
  BY <1>3, <1>4 DEF Memalign
<1>5. CASE IsPowerOfTwo(align)
  <2>1. Aligns(align)
    BY <1>5
  <2>2. \A k \in 1 .. n : Before(h.list[k], align) \in Nat
    <3>1. ASSUME NEW k \in 1 .. n PROVE Before(h.list[k], align) \in Nat
      <4>1. PICK c : c = h.list[k]
        OBVIOUS
      <4>2. c.at \in Nat /\ c.at % SIZE_T = 0
        BY <1>1, <4>1, GoodBlocks DEF SIZE_T
      <4>3. Before(c, align) \in Nat
        BY <2>1, <4>2, BeforeAligns
      <4>4. QED BY <4>1, <4>3
    <3>2. QED BY <3>1
  <2>3. PICK fit : fit = AlignedFit(h.list, real, align)
    OBVIOUS
  <2>4. \/ fit = 0
        \/ fit \in 1 .. n /\ h.list[fit].size >= real + Before(h.list[fit], align)
    BY <1>1, <1>2, <2>2, <2>3, PlaceOfAligned
  <2>5. CASE fit # 0
    <3>1. r = TakeAligned(h, fit, real, align, frame)
      BY <1>1, <1>5, <2>3, <2>5 DEF Memalign
    <3>2. fit \in 1 .. Len(h.list) /\ h.list[fit].size >= real + Before(h.list[fit], align)
      BY <1>1, <2>4, <2>5
    <3>3. QED BY <2>1, <3>1, <3>2, TakeGap
  <2>6. CASE fit = 0 /\ EndsHeap(h)
    <3>1. r = TakeAligned(h, n, real, align, frame)
      BY <1>1, <1>5, <2>3, <2>6 DEF Memalign
    <3>2. n >= 1 /\ h.list[n].at + h.list[n].size = h.end
      BY <1>1, <2>6, TopOfHeap
    <3>3. n \in 1 .. Len(h.list)
      BY <1>1, <3>2
    <3>4. QED BY <2>1, <3>1, <3>2, <3>3, TakeGap
  <2>7. CASE fit = 0 /\ ~EndsHeap(h)
    <3>1. PICK gap \in Nat : gap = M_ALIGN(end + SIZE_T, align)
      BY <1>2, <2>1, FirstGap
    <3>2. PICK first \in Nat : first = real + gap
      OBVIOUS
    <3>3. PICK m : m = n + 1
      OBVIOUS
    <3>4. PICK c, g : /\ c = Block(end, first)
                      /\ g = [list |-> Append(h.list, c), end |-> end + first]
      OBVIOUS
    <3>5. first % 4 = 0 /\ first >= 8
      <4>1. gap % 4 = 0
        BY <1>2, <2>1, <3>1, FirstGap
      <4>2. QED BY <1>2, <3>2, <4>1
    <3>6. CASE ~CAN_ALLOC_P(end, frame, first)
      <4>1. r = Failure(h)
        BY <1>1, <1>5, <2>3, <2>7, <3>1, <3>2, <3>6 DEF Memalign
      <4>2. QED BY <1>3, <4>1
    <3>7. CASE CAN_ALLOC_P(end, frame, first)
      <4>1. Enlarges(g, h, m, c)
        <5>1. c.size = first /\ c = Block(end, c.size)
          BY <3>4 DEF Block
        <5>2. QED BY <1>1, <2>7, <3>3, <3>4, <3>5, <5>1 DEF Enlarges
      <4>2. Good(g.list, g.end, held) /\ EndsHeap(g) /\ Len(g.list) = m
        <5>1. Larger(g, h, held, m)
          BY <4>1, Enlarged
        <5>2. QED BY <5>1 DEF Larger
      <4>3. r = TakeAligned(g, m, real, align, frame)
        BY <1>1, <1>5, <2>3, <2>7, <3>1, <3>2, <3>4, <3>7, <4>2 DEF Memalign
      <4>4. PICK l : l = m /\ l = Len(g.list)
        BY <4>2
      <4>5. l >= 1 /\ g.list[l].at + g.list[l].size = g.end
        BY <4>2, <4>4, TopOfHeap
      <4>6. l \in 1 .. Len(g.list)
        BY <3>3, <4>4, <4>5
      <4>7. LeavesGap(g.end, r.end, frame)
        BY <2>1, <4>2, <4>3, <4>4, <4>5, <4>6, TakeGap
      <4>8. PICK top \in Nat : top = end + first /\ top = g.end
        BY <3>4
      <4>9. ASSUME frame - end >= 32 PROVE frame - top >= 32
        <5>1. frame - end - 32 >= first
          BY <3>7, <4>9, GapIsExact DEF MALLOC_MINIMUM_GAP
        <5>2. QED BY <1>2, <4>8, <5>1
      <4>10. CASE r.end = g.end
        BY <1>1, <4>8, <4>9, <4>10 DEF LeavesGap, MALLOC_MINIMUM_GAP
      <4>11. CASE r.end # g.end
        BY <1>1, <4>7, <4>8, <4>9, <4>11 DEF LeavesGap, MALLOC_MINIMUM_GAP
      <4>12. QED BY <4>10, <4>11
    <3>8. QED BY <3>6, <3>7
  <2>8. QED BY <2>5, <2>6, <2>7
<1>6. QED BY <1>4, <1>5

(* The step that the heap grows by is a call's.                            *)
LEMMA GapStays ==
  ASSUME Assumptions, Now, [Next]_vars
  PROVE  LeavesGap(malloc_end, malloc_end', limit')
<1>1. ASSUME malloc_end' = malloc_end PROVE LeavesGap(malloc_end, malloc_end', limit')
  BY <1>1 DEF LeavesGap
<1>2. PICK h, held : h = Heap /\ held = HeldOf(inuse)
  OBVIOUS
<1>3. Good(h.list, h.end, held) /\ h.end = malloc_end
  BY <1>2 DEF Now, State, Heap
<1>4. ASSUME NEW sz, Size(sz), NEW frame \in Limits, limit' = frame,
             malloc_end' = Malloc(Heap, sz, frame).end
      PROVE  LeavesGap(malloc_end, malloc_end', limit')
  <2>1. PICK r : r = Malloc(h, sz, frame)
    OBVIOUS
  <2>2. LeavesGap(h.end, r.end, frame)
    BY <1>3, <1>4, <2>1, MallocGap DEF Size
  <2>3. QED BY <1>2, <1>3, <1>4, <2>1, <2>2
<1>5. ASSUME NEW sz, Size(sz), malloc(sz) PROVE LeavesGap(malloc_end, malloc_end', limit')
  BY <1>4, <1>5 DEF malloc, Call, Allocates
<1>6. ASSUME NEW sz, Size(sz), NEW align, IsPowerOfTwo(align) => Aligns(align),
             memalign(align, sz)
      PROVE  LeavesGap(malloc_end, malloc_end', limit')
  <2>1. PICK frame \in Limits :
          Call(frame) /\ Allocates(Memalign(Heap, align, sz, frame), sz, align, inuse)
    BY <1>6 DEF memalign
  <2>2. PICK r : r = Memalign(h, align, sz, frame)
    OBVIOUS
  <2>3. LeavesGap(h.end, r.end, frame)
    BY <1>3, <1>6, <2>2, MemalignGap DEF Size
  <2>4. malloc_end' = r.end /\ limit' = frame
    BY <1>2, <2>1, <2>2 DEF Allocates, Call
  <2>5. QED BY <1>3, <2>3, <2>4
<1>7. ASSUME NEW sz, Size(sz), NEW b \in DOMAIN inuse, realloc(b, sz)
      PROVE  LeavesGap(malloc_end, malloc_end', limit')
  <2>1. PICK frame \in Limits : Call(frame) /\ (Moves(b, sz, frame) \/ Shrinks(b, sz))
    BY <1>7 DEF realloc
  <2>2. CASE Shrinks(b, sz)
    BY <1>1, <2>2 DEF Shrinks
  <2>3. CASE Moves(b, sz, frame)
    <3>1. PICK r, t : r = Malloc(Heap, sz, frame)
                      /\ t = Free(r.list, Block(b, inuse[b].size))
      OBVIOUS
    <3>2. malloc_end' = IF r.block.at = NULL THEN r.end ELSE [r EXCEPT !.list = t].end
      BY <2>3, <3>1 DEF Moves, Allocates
    <3>3. [r EXCEPT !.list = t].end = r.end
      BY <3>1, MallocShape
    <3>4. malloc_end' = r.end /\ limit' = frame
      BY <2>1, <3>2, <3>3 DEF Call
    <3>5. QED BY <1>4, <1>7, <3>1, <3>4
  <2>4. QED BY <2>1, <2>2, <2>3
<1>8. ASSUME NEW b \in DOMAIN inuse, free(b) PROVE LeavesGap(malloc_end, malloc_end', limit')
  BY <1>1, <1>8 DEF free
<1>9. CASE UNCHANGED vars
  BY <1>1, <1>9 DEF vars
<1>10. ASSUME NEW sz \in Requests
       PROVE  /\ malloc(sz) \/ calloc(2, sz) \/ valloc(sz) \/ pvalloc(sz)
                   => LeavesGap(malloc_end, malloc_end', limit')
              /\ \A align \in Alignments :
                   memalign(align, sz) => LeavesGap(malloc_end, malloc_end', limit')
              /\ \A b \in DOMAIN inuse :
                   realloc(b, sz) => LeavesGap(malloc_end, malloc_end', limit')
  BY <1>5, <1>6, <1>7, Sizes DEF calloc, valloc, pvalloc
<1>11. QED BY <1>8, <1>9, <1>10 DEF Next

(* "the minimum gap allowed between __malloc_end and the top of the        *)
(* stack": a call of malloc(), memalign() or realloc() that finds the gap  *)
(* leaves it, however it grows the heap.                                   *)
THEOREM GapIsKept ==
  ASSUME Assumptions
  PROVE  Spec => GapKept
<1>1. MallocInv /\ [Next]_vars
        => [malloc_end' # malloc_end /\ limit' - malloc_end >= MALLOC_MINIMUM_GAP
              => limit' - malloc_end' >= MALLOC_MINIMUM_GAP]_vars
  <2>1. MallocInv => Now
    BY InvState DEF Now
  <2>2. QED BY <2>1, GapStays DEF LeavesGap
<1>2. QED BY <1>1, Always, PTL DEF Spec, GapKept

-----------------------------------------------------------------------------
(* What mallinfo counts.                                                   *)

(* A sum that takes the members of a set one by one, in the order in which *)
(* CHOOSE gives them.                                                      *)
One(s) == CHOOSE x \in s : TRUE

Sums(iter, of, size) ==
  \A s \in SUBSET of :
    iter[s] = IF s = {} THEN 0 ELSE size[One(s)] + iter[s \ {One(s)}]

(* The parts of are apart and finite, and have their sizes.                *)
Spread(of, part, size) ==
  /\ IsFiniteSet(of) /\ IsFiniteSet(UNION {part[x] : x \in of})
  /\ \A x \in of : Cardinality(part[x]) = size[x]
  /\ \A x, y \in of : x # y => part[x] \cap part[y] = {}

AllOf(s, part) == UNION {part[x] : x \in s}

LEMMA FirstOf ==
  ASSUME NEW of, IsFiniteSet(of), NEW T \in SUBSET (SUBSET of), T # {}
  PROVE  \E s \in T : \A r \in T : Cardinality(s) <= Cardinality(r)
<1>1. PICK N : N = {Cardinality(s) : s \in T}
  OBVIOUS
<1>2. ASSUME NEW s \in T PROVE Cardinality(s) \in Nat
  <2>1. IsFiniteSet(s)
    BY FS_Subset
  <2>2. QED BY <2>1, FS_CardinalityType
<1>3. N \subseteq Nat /\ N # {}
  BY <1>1, <1>2
<1> DEFINE less == {ss \in Nat \X Nat : ss[1] < ss[2]}
<1>4. IsWellFoundedOn(less, Nat)
  BY NatLessThanWellFounded DEF OpToRel
<1>5. PICK m \in N : \A n \in N : <<n, m>> \notin less
  <2> HIDE DEF less
  <2> QED BY <1>3, <1>4, WFMin
<1>6. ASSUME NEW n \in N PROVE m <= n
  <2>1. n \in Nat /\ m \in Nat /\ <<n, m>> \notin less
    BY <1>3, <1>5
  <2>2. QED BY <2>1
<1>7. PICK s \in T : m = Cardinality(s)
  BY <1>1
<1>8. QED BY <1>1, <1>6, <1>7

(* The bytes of one part more.                                             *)
LEMMA OneMore ==
  ASSUME NEW of, NEW part, NEW size, Spread(of, part, size),
         NEW s \in SUBSET of, s # {}
  PROVE  /\ One(s) \in s /\ s \ {One(s)} \in SUBSET of
         /\ Cardinality(AllOf(s, part)) =
              size[One(s)] + Cardinality(AllOf(s \ {One(s)}, part))
<1>1. PICK x : x = One(s)
  OBVIOUS
<1>2. x \in s
  BY <1>1 DEF One
<1>3. PICK r : r = s \ {x}
  OBVIOUS
<1>4. AllOf(s, part) = part[x] \cup AllOf(r, part)
  BY <1>2, <1>3 DEF AllOf
<1>5. part[x] \cap AllOf(r, part) = {}
  <2>1. ASSUME NEW y \in r PROVE part[x] \cap part[y] = {}
    BY <1>2, <1>3 DEF Spread
  <2>2. QED BY <2>1 DEF AllOf
<1>6. IsFiniteSet(part[x]) /\ IsFiniteSet(AllOf(r, part))
  <2>1. part[x] \subseteq AllOf(of, part) /\ AllOf(r, part) \subseteq AllOf(of, part)
    BY <1>2, <1>3 DEF AllOf
  <2>2. IsFiniteSet(AllOf(of, part))
    BY DEF Spread, AllOf
  <2>3. QED BY <2>1, <2>2, FS_Subset
<1>7. Cardinality(part[x]) = size[x]
  BY <1>2 DEF Spread
<1>8. Cardinality(AllOf(s, part)) = Cardinality(part[x]) + Cardinality(AllOf(r, part))
  <2>1. Cardinality(AllOf(s, part)) = Cardinality(part[x]) + Cardinality(AllOf(r, part))
                                        - Cardinality({})
    BY <1>4, <1>5, <1>6, FS_Union
  <2>2. Cardinality(part[x]) \in Nat /\ Cardinality(AllOf(r, part)) \in Nat
    BY <1>6, FS_CardinalityType
  <2>3. QED BY <2>1, <2>2, FS_EmptySet
<1>9. QED BY <1>1, <1>2, <1>3, <1>7, <1>8

(* The sum is the number of the bytes: as a solution of the recursion, and *)
(* as the only one.                                                        *)
LEMMA BytesAreASum ==
  ASSUME NEW of, NEW part, NEW size, Spread(of, part, size),
         NEW f, f = [s \in SUBSET of |-> Cardinality(AllOf(s, part))]
  PROVE  Sums(f, of, size)
<1>1. f[{}] = 0
  <2>1. AllOf({}, part) = {}
    BY DEF AllOf
  <2>2. QED BY <2>1, FS_EmptySet
<1>2. ASSUME NEW s \in SUBSET of, s # {}
      PROVE  f[s] = size[One(s)] + f[s \ {One(s)}]
  BY <1>2, OneMore
<1>3. QED BY <1>1, <1>2 DEF Sums

LEMMA SumIsBytes ==
  ASSUME NEW of, NEW part, NEW size, Spread(of, part, size),
         NEW iter, Sums(iter, of, size)
  PROVE  iter[of] = Cardinality(AllOf(of, part))
<1>1. PICK f : f = [s \in SUBSET of |-> Cardinality(AllOf(s, part))]
  OBVIOUS
<1>2. Sums(f, of, size)
  BY <1>1, BytesAreASum
<1>3. PICK T : T = {s \in SUBSET of : iter[s] # f[s]}
  OBVIOUS
<1>4. T = {}
  <2> SUFFICES ASSUME T # {} PROVE FALSE
    OBVIOUS
  <2>1. IsFiniteSet(of) /\ T \in SUBSET (SUBSET of)
    BY <1>3 DEF Spread
  <2>2. PICK s \in T : \A r \in T : Cardinality(s) <= Cardinality(r)
    BY <2>1, FirstOf
  <2>3. s \in SUBSET of /\ iter[s] # f[s]
    BY <1>3
  <2>4. s # {}
    BY <1>2, <2>3 DEF Sums
  <2>5. PICK x, r : x = One(s) /\ r = s \ {x}
    OBVIOUS
  <2>6. x \in s /\ r \in SUBSET of
    BY <2>3, <2>4, <2>5 DEF One
  <2>7. r \notin T
    <3>1. IsFiniteSet(s)
      BY <2>1, <2>3, FS_Subset
    <3>2. Cardinality(r) = Cardinality(s) - 1 /\ Cardinality(s) \in Nat
      BY <2>5, <2>6, <3>1, FS_RemoveElement, FS_CardinalityType
    <3>3. ~(Cardinality(s) <= Cardinality(r))
      BY <3>2
    <3>4. QED BY <2>2, <3>3
  <2>8. iter[r] = f[r]
    BY <1>3, <2>6, <2>7
  <2>9. iter[s] = size[x] + iter[r] /\ f[s] = size[x] + f[r]
    BY <1>2, <2>3, <2>4, <2>5 DEF Sums
  <2>10. QED BY <2>3, <2>8, <2>9
<1>5. of \in SUBSET of
  OBVIOUS
<1>6. QED BY <1>1, <1>3, <1>4, <1>5

(* The bytes of a block.                                                   *)
Bytes(b) == b.at .. b.at + b.size - 1

LEMMA BytesOf ==
  ASSUME NEW b \in Blocks
  PROVE  /\ IsFiniteSet(Bytes(b)) /\ Cardinality(Bytes(b)) = b.size
         /\ Bytes(b) \subseteq Nat
         /\ \A x \in Nat : x \in Bytes(b) <=> Holds(b, x)
<1>1. b.at \in Nat /\ b.size \in Nat
  BY DEF Blocks
<1>2. PICK lo, hi : lo = b.at /\ hi = b.at + b.size - 1
  OBVIOUS
<1>3. lo \in Int /\ hi \in Int
  BY <1>1, <1>2
<1>4. IsFiniteSet(lo .. hi) /\ Cardinality(lo .. hi) = IF lo > hi THEN 0 ELSE hi - lo + 1
  BY <1>3, FS_Interval
<1>5. (IF lo > hi THEN 0 ELSE hi - lo + 1) = b.size
  BY <1>1, <1>2
<1>6. Bytes(b) \subseteq Nat /\ \A x \in Nat : x \in Bytes(b) <=> Holds(b, x)
  BY <1>1 DEF Bytes, Holds
<1>7. Bytes(b) = lo .. hi
  BY <1>2 DEF Bytes
<1>8. QED BY <1>4, <1>5, <1>6, <1>7

(* Blocks of a heap that are apart, under whatever indices.                *)
LEMMA Spreads ==
  ASSUME NEW blocks, blocks \subseteq Blocks, NEW end \in Nat,
         malloc_start \in Nat, Tiled(blocks, end),
         NEW of, IsFiniteSet(of), NEW at \in [of -> blocks],
         \A i, j \in of : i # j => at[i] # at[j],
         NEW part, part = [i \in of |-> Bytes(at[i])],
         NEW size, size = [i \in of |-> at[i].size]
  PROVE  Spread(of, part, size)
<1>1. ASSUME NEW i \in of PROVE /\ at[i] \in Blocks /\ part[i] = Bytes(at[i])
                                /\ size[i] = at[i].size
  OBVIOUS
<1>2. ASSUME NEW i \in of PROVE /\ IsFiniteSet(part[i]) /\ Cardinality(part[i]) = size[i]
                                /\ part[i] \subseteq Nat
  BY <1>1, BytesOf
<1>3. IsFiniteSet(UNION {part[i] : i \in of})
  <2>1. ASSUME NEW i \in of PROVE part[i] \subseteq 0 .. end
    <3>1. PICK b : b = at[i]
      OBVIOUS
    <3>2. b \in Blocks /\ InHeap(b, end) /\ part[i] = Bytes(b)
      BY <1>1, <3>1 DEF Tiled
    <3>3. b.at \in Nat /\ b.size \in Nat /\ b.at + b.size <= end
      BY <3>2 DEF Blocks, InHeap
    <3>4. Bytes(b) \subseteq 0 .. end
      BY <3>3 DEF Bytes
    <3>5. QED BY <3>2, <3>4
  <2>2. UNION {part[i] : i \in of} \in SUBSET (0 .. end)
    BY <2>1
  <2>3. IsFiniteSet(0 .. end)
    BY FS_Interval
  <2>4. QED BY <2>2, <2>3, FS_Subset
<1>4. ASSUME NEW i \in of, NEW j \in of, i # j PROVE part[i] \cap part[j] = {}
  <2>1. PICK b, c : b = at[i] /\ c = at[j]
    OBVIOUS
  <2>2. b \in Blocks /\ c \in Blocks /\ b # c /\ b \in blocks /\ c \in blocks
    BY <1>4, <2>1
  <2>3. Apart(b, c) /\ InHeap(b, end) /\ InHeap(c, end)
    BY <2>2 DEF Tiled
  <2>4. b.size > 0 /\ c.size > 0
    <3>1. ENTRY > 0
      BY DEF ENTRY, SIZE_T
    <3>2. b.size \in Nat /\ c.size \in Nat /\ ENTRY \in Nat
      BY <2>2 DEF Blocks, ENTRY, SIZE_T
    <3>3. QED BY <2>3, <3>1, <3>2 DEF InHeap
  <2>5. \A x \in Nat : ~(Holds(b, x) /\ Holds(c, x))
    BY <2>2, <2>3, <2>4, ApartBytes
  <2>6. Bytes(b) \cap Bytes(c) = {}
    BY <2>2, <2>5, BytesOf
  <2>7. QED BY <1>1, <2>1, <2>6
<1>5. QED BY <1>2, <1>3, <1>4 DEF Spread

(* What the loop of mallinfo adds up.                                      *)
LEMMA FreeBytes ==
  ASSUME NEW list \in Seq(Blocks), Sorted(list), NEW end \in Nat,
         malloc_start \in Nat, NEW blocks, blocks \subseteq Blocks,
         ToSet(list) \subseteq blocks, Tiled(blocks, end)
  PROVE  FoldSeq(LAMBDA b, n : b.size + n, 0, list)
           = Cardinality(UNION {Bytes(b) : b \in ToSet(list)})
<1>1. PICK of : of = DOMAIN list
  OBVIOUS
<1>2. of = 1 .. Len(list) /\ Len(list) \in Nat
  BY <1>1
<1>3. IsFiniteSet(of)
  BY <1>2, FS_Interval
<1>4. list \in [of -> blocks]
  <2>1. ASSUME NEW i \in of PROVE list[i] \in ToSet(list)
    BY <1>1 DEF ToSet
  <2>2. QED BY <1>1, <1>2, <2>1
<1>5. \A i, j \in of : i # j => list[i] # list[j]
  BY <1>2, SortedApart
<1>6. PICK part, size : part = [i \in of |-> Bytes(list[i])]
                        /\ size = [i \in of |-> list[i].size]
  OBVIOUS
<1>7. Spread(of, part, size)
  BY <1>3, <1>4, <1>5, <1>6, Spreads
<1> DEFINE rec(g) == [s \in SUBSET of |->
                        IF s = {} THEN 0 ELSE list[One(s)].size + g[s \ {One(s)}]]
           iter == CHOOSE g : g = rec(g)
<1>8. FoldSeq(LAMBDA b, n : b.size + n, 0, list) = iter[of]
  BY <1>1 DEF FoldSeq, FoldFunction, FoldFunctionOnSet, MapThenFoldSet, One
<1>9. ASSUME NEW s \in SUBSET of, s # {} PROVE size[One(s)] = list[One(s)].size
  BY <1>6, <1>9 DEF One
<1>10. iter = rec(iter)
  <2>1. PICK f : f = [s \in SUBSET of |-> Cardinality(AllOf(s, part))]
    OBVIOUS
  <2>2. Sums(f, of, size)
    BY <1>7, <2>1, BytesAreASum
  <2>3. ASSUME NEW s \in SUBSET of
        PROVE  f[s] = IF s = {} THEN 0 ELSE list[One(s)].size + f[s \ {One(s)}]
    BY <1>9, <2>2 DEF Sums
  <2>4. f = [s \in SUBSET of |-> f[s]]
    BY <2>1
  <2>5. f = rec(f)
    BY <2>3, <2>4
  <2> HIDE DEF rec
  <2>6. QED BY <2>5
<1>11. Sums(iter, of, size)
  <2> HIDE DEF iter
  <2>1. ASSUME NEW s \in SUBSET of
        PROVE  iter[s] = IF s = {} THEN 0 ELSE list[One(s)].size + iter[s \ {One(s)}]
    BY <1>10
  <2>2. QED BY <1>9, <2>1 DEF Sums
<1>12. AllOf(of, part) = UNION {Bytes(b) : b \in ToSet(list)}
  BY <1>1, <1>6 DEF AllOf, ToSet
<1> HIDE DEF iter
<1>13. QED BY <1>7, <1>8, <1>11, <1>12, SumIsBytes

(* What the program holds.                                                 *)
LEMMA HeldBytes ==
  ASSUME NEW held, IsFiniteSet(held), NEW end \in Nat,
         malloc_start \in Nat, NEW blocks, blocks \subseteq Blocks,
         held \subseteq blocks, Tiled(blocks, end)
  PROVE  FoldSet(LAMBDA b, n : b.size + n, 0, held)
           = Cardinality(UNION {Bytes(b) : b \in held})
<1>1. PICK at : at = [b \in held |-> b]
  OBVIOUS
<1>2. at \in [held -> blocks] /\ \A b, c \in held : b # c => at[b] # at[c]
  BY <1>1
<1>3. PICK part, size : part = [b \in held |-> Bytes(at[b])]
                        /\ size = [b \in held |-> at[b].size]
  OBVIOUS
<1>4. Spread(held, part, size)
  BY <1>2, <1>3, Spreads
<1> DEFINE rec(g) == [s \in SUBSET held |->
                        IF s = {} THEN 0 ELSE One(s).size + g[s \ {One(s)}]]
           iter == CHOOSE g : g = rec(g)
<1>5. FoldSet(LAMBDA b, n : b.size + n, 0, held) = iter[held]
  BY DEF FoldSet, MapThenFoldSet, One
<1>6. ASSUME NEW s \in SUBSET held, s # {} PROVE size[One(s)] = One(s).size
  BY <1>1, <1>3, <1>6 DEF One
<1>7. iter = rec(iter)
  <2>1. PICK f : f = [s \in SUBSET held |-> Cardinality(AllOf(s, part))]
    OBVIOUS
  <2>2. Sums(f, held, size)
    BY <1>4, <2>1, BytesAreASum
  <2>3. ASSUME NEW s \in SUBSET held
        PROVE  f[s] = IF s = {} THEN 0 ELSE One(s).size + f[s \ {One(s)}]
    BY <1>6, <2>2 DEF Sums
  <2>4. f = [s \in SUBSET held |-> f[s]]
    BY <2>1
  <2>5. f = rec(f)
    BY <2>3, <2>4
  <2> HIDE DEF rec
  <2>6. QED BY <2>5
<1>8. Sums(iter, held, size)
  <2> HIDE DEF iter
  <2>1. ASSUME NEW s \in SUBSET held
        PROVE  iter[s] = IF s = {} THEN 0 ELSE One(s).size + iter[s \ {One(s)}]
    BY <1>7
  <2>2. QED BY <1>6, <2>1 DEF Sums
<1>9. AllOf(held, part) = UNION {Bytes(b) : b \in held}
  BY <1>1, <1>3 DEF AllOf
<1> HIDE DEF iter
<1>10. QED BY <1>4, <1>5, <1>8, <1>9, SumIsBytes

(* Of n bytes, used are in blocks held and left in blocks spare.           *)
Shared(n, held, spare, used, left) ==
  /\ used \in Nat /\ used = Cardinality(UNION {Bytes(b) : b \in held})
  /\ left \in Nat /\ left = Cardinality(UNION {Bytes(b) : b \in spare})
  /\ n = used + left

(* The bytes of the heap are those of its blocks.                          *)
LEMMA BytesOfHeap ==
  ASSUME NEW blocks, blocks \subseteq Blocks, NEW end \in Nat,
         malloc_start \in Nat, malloc_start <= end, Tiled(blocks, end),
         NEW held, NEW spare, blocks = held \cup spare, held \cap spare = {},
         NEW n, n = end - malloc_start
  PROVE  \E used, left : Shared(n, held, spare, used, left)
<1>1. PICK H, F : H = UNION {Bytes(b) : b \in held} /\ F = UNION {Bytes(b) : b \in spare}
  OBVIOUS
<1>2. ASSUME NEW b \in blocks PROVE /\ b \in Blocks /\ InHeap(b, end) /\ b.size > 0
                                    /\ b.at \in Nat /\ b.size \in Nat
  <2>1. b \in Blocks /\ InHeap(b, end)
    BY DEF Tiled
  <2>2. QED BY <2>1 DEF Blocks, InHeap, ENTRY, SIZE_T
<1>3. ASSUME NEW b \in blocks PROVE Bytes(b) \subseteq malloc_start .. end - 1
  BY <1>2 DEF Bytes, InHeap
<1>4. malloc_start .. end - 1 \subseteq H \cup F
  <2>1. ASSUME NEW x \in malloc_start .. end - 1 PROVE \E b \in blocks : x \in Bytes(b)
    <3>1. PICK b \in blocks : Holds(b, x)
      BY DEF Tiled
    <3>2. b.at \in Nat /\ b.size \in Nat /\ x \in Int
      BY <1>2
    <3>3. QED BY <3>1, <3>2 DEF Holds, Bytes
  <2>2. QED BY <1>1, <2>1
<1>5. H \cup F = malloc_start .. end - 1
  BY <1>1, <1>3, <1>4
<1>6. H \cap F = {}
  <2>1. ASSUME NEW b \in held, NEW c \in spare PROVE Bytes(b) \cap Bytes(c) = {}
    <3>1. b \in blocks /\ c \in blocks /\ b # c
      OBVIOUS
    <3>2. /\ b \in Blocks /\ c \in Blocks /\ b.size > 0 /\ c.size > 0 /\ Apart(b, c)
      BY <1>2, <3>1 DEF Tiled
    <3>3. QED BY <3>2, ApartBytes, BytesOf
  <2>2. QED BY <1>1, <2>1
<1>7. IsFiniteSet(malloc_start .. end - 1)
      /\ Cardinality(malloc_start .. end - 1) = end - malloc_start
  <2>1. PICK lo, hi : lo = malloc_start /\ hi = end - 1
    OBVIOUS
  <2>2. lo \in Int /\ hi \in Int
    BY <2>1
  <2>3. IsFiniteSet(lo .. hi) /\ Cardinality(lo .. hi) = IF lo > hi THEN 0 ELSE hi - lo + 1
    BY <2>2, FS_Interval
  <2>4. (IF lo > hi THEN 0 ELSE hi - lo + 1) = end - malloc_start
    BY <2>1
  <2>5. QED BY <2>1, <2>3, <2>4
<1>8. IsFiniteSet(H) /\ IsFiniteSet(F)
  BY <1>5, <1>7, FS_Subset
<1>9. Cardinality(H \cup F) = Cardinality(H) + Cardinality(F)
  <2>1. Cardinality(H \cup F) = Cardinality(H) + Cardinality(F) - Cardinality({})
    BY <1>6, <1>8, FS_Union
  <2>2. Cardinality(H) \in Nat /\ Cardinality(F) \in Nat
    BY <1>8, FS_CardinalityType
  <2>3. QED BY <2>1, <2>2, FS_EmptySet
<1>10. Cardinality(H) \in Nat /\ Cardinality(F) \in Nat
  BY <1>8, FS_CardinalityType
<1>11. end - malloc_start = Cardinality(H) + Cardinality(F)
  BY <1>5, <1>7, <1>9
<1>12. QED BY <1>1, <1>10, <1>11 DEF Shared

LEMMA HeldIsFinite ==
  ASSUME MallocInv
  PROVE  IsFiniteSet(Held)
<1>1. Held \subseteq Blocks /\ \A b \in Held : InHeap(b, malloc_end)
  <2>1. ASSUME NEW a \in DOMAIN inuse PROVE a \in Nat /\ inuse[a].size \in Nat
    BY DEF MallocInv, MallocType
  <2>2. Held \subseteq Blocks
    BY <2>1 DEF Held, Block, Blocks
  <2>3. QED BY <2>2 DEF MallocInv, HeapTiled, Tiled
<1>2. malloc_end \in Nat /\ malloc_start \in Nat
  BY MallocAssumption DEF MallocInv, MallocType
<1>3. PICK f : f = [b \in Held |-> b.at]
  OBVIOUS
<1>4. ASSUME NEW b \in Held PROVE b.at \in 0 .. malloc_end
  BY <1>1, <1>2 DEF Blocks, InHeap
<1>5. ASSUME NEW b \in Held, NEW c \in Held, b.at = c.at PROVE b = c
  BY <1>5 DEF Held, Block
<1>6. f \in Injection(Held, 0 .. malloc_end)
  BY <1>3, <1>4, <1>5 DEF Injection, IsInjective
<1>7. IsFiniteSet(0 .. malloc_end)
  BY <1>2, FS_Interval
<1>8. QED BY <1>6, <1>7, FS_Injection

(* mallinfo's uordblks, which it gets from the end of the heap and the     *)
(* sizes of the freelist, is the sum of the sizes of the blocks that the   *)
(* program holds, whatever was called before.                              *)
THEOREM UsedBytesAreHeld ==
  ASSUME Assumptions
  PROVE  Spec => []UsedIsHeld
<1>1. ASSUME MallocInv PROVE UsedIsHeld
  <2>1. PICK spare, blocks : spare = ToSet(freelist) /\ blocks = Held \cup spare
    OBVIOUS
  <2>2. /\ freelist \in Seq(Blocks) /\ Sorted(freelist)
        /\ malloc_end \in Nat /\ malloc_start \in Nat /\ malloc_start <= malloc_end
    BY <1>1, MallocAssumption DEF MallocInv, MallocType
  <2>3. Tiled(blocks, malloc_end) /\ Held \cap spare = {}
    BY <1>1, <2>1 DEF MallocInv, HeapTiled
  <2>4. blocks \subseteq Blocks
    <3>1. ASSUME NEW a \in DOMAIN inuse PROVE a \in Nat /\ inuse[a].size \in Nat
      BY <1>1 DEF MallocInv, MallocType
    <3>2. Held \subseteq Blocks
      BY <3>1 DEF Held, Block, Blocks
    <3>3. spare \subseteq Blocks
      BY <2>1, <2>2 DEF ToSet
    <3>4. QED BY <2>1, <3>2, <3>3
  <2>5. PICK held, n : held = Held /\ n = malloc_end - malloc_start
    OBVIOUS
  <2>6. PICK used, left : Shared(n, held, spare, used, left)
    <3>1. blocks = held \cup spare /\ held \cap spare = {}
      BY <2>1, <2>3, <2>5
    <3>2. QED BY <2>2, <2>3, <2>4, <2>5, <3>1, BytesOfHeap
  <2>7. FoldSeq(LAMBDA b, m : b.size + m, 0, freelist) = left
    <3>1. left = Cardinality(UNION {Bytes(b) : b \in spare})
      BY <2>6 DEF Shared
    <3>2. QED BY <2>1, <2>2, <2>3, <2>4, <3>1, FreeBytes
  <2>8. FoldSet(LAMBDA b, m : b.size + m, 0, Held) = used
    <3>1. used = Cardinality(UNION {Bytes(b) : b \in Held})
      BY <2>5, <2>6 DEF Shared
    <3>2. QED BY <1>1, <2>1, <2>2, <2>3, <2>4, <3>1, HeldIsFinite, HeldBytes
  <2>9. mallinfo.uordblks = n - left
    BY <2>5, <2>7 DEF mallinfo
  <2>10. n - left = used
    BY <2>6 DEF Shared
  <2>11. QED BY <2>8, <2>9, <2>10 DEF UsedIsHeld
<1>2. MallocInv => UsedIsHeld
  BY <1>1
<1>3. QED BY <1>2, Always, PTL
=============================================================================
