---------------------------- MODULE tiny_malloc ----------------------------
(***************************************************************************)
(* debug/programs/tiny-malloc.c, the allocator the debugger calls inside   *)
(* the programs under test, for a heap that grows upwards.                 *)
(*                                                                         *)
(* A block is its first address and its size, header included; the         *)
(* freelist is the sequence of the blocks that are linked.  What blocks    *)
(* contain is left out, so memset and memcpy are too.                      *)
(***************************************************************************)
EXTENDS Integers, FiniteSets, SequencesExt

CONSTANTS
  WordMod,      \* 2 ^ 32: size_t
  malloc_start, \* the address the linker gives the heap
  Limits,       \* frame addresses malloc may be called at
  Requests,     \* sizes the program asks for
  Alignments,   \* alignments it asks memalign for
  PAGE_ALIGN,   \* 128, of valloc
  MaxLive,      \* bound: blocks in use at a time
  MaxEnd        \* bound: heaps that grow past it are not explored

SIZE_T == 4             \* sizeof (size_t)
ENTRY  == 2 * SIZE_T    \* sizeof (struct freelist_entry)
MALLOC_MINIMUM_GAP == 32
NULL == 0

ASSUME MallocAssumption ==
  /\ WordMod \in Nat /\ malloc_start \in Nat \ {0} /\ malloc_start % SIZE_T = 0
  /\ Limits \subseteq 0 .. WordMod - 1
  /\ Requests \subseteq 0 .. WordMod - 2 * ENTRY
  /\ Alignments \subseteq Nat /\ PAGE_ALIGN \in Nat \ {0}

VARIABLES
  freelist,     \* __malloc_freelist: a sequence of blocks
  malloc_end,   \* __malloc_end
  inuse,        \* address of a block the program holds -> [size, asked, align]
  limit,        \* MALLOC_LIMIT at the last call
  failed        \* what the last call could not get: [sz, align], or Nothing

vars == <<freelist, malloc_end, inuse, limit, failed>>

Block(at, size) == [at |-> at, size |-> size]
Nothing == [sz |-> 0, align |-> 0]
Heap == [list |-> freelist, end |-> malloc_end]

-----------------------------------------------------------------------------
M_ALIGN(x, align) == (-x) % align

(* Wrong on purpose, for the mutation runs: the header is forgotten.       *)
REAL_SIZE_NoHeader(sz) == IF sz < ENTRY THEN ENTRY ELSE sz + M_ALIGN(sz, SIZE_T)

REAL_SIZE(sz) ==
  IF sz < ENTRY - SIZE_T THEN ENTRY
  ELSE (sz + SIZE_T + M_ALIGN(sz, SIZE_T)) % WordMod

(* Wrong on purpose, for the mutation runs: no gap is kept.                *)
CAN_ALLOC_P_NoGap(end, frame, required) == (frame - end) % WordMod >= required

(* size_t is unsigned: a frame below end + MALLOC_MINIMUM_GAP passes.      *)
CAN_ALLOC_P(end, frame, required) ==
  (frame - end - MALLOC_MINIMUM_GAP) % WordMod >= required

Adjacent(b, c) == b.at + b.size = c.at
EndsHeap(h) == h.list # <<>> /\ Last(h.list).at + Last(h.list).size = h.end

(* What a call leaves: the heap, and the block it returns.                 *)
Failure(h) == [list |-> h.list, end |-> h.end, block |-> Block(NULL, 0)]

(* The blocks from lo to hi of the list make way for those of seg.         *)
Put(list, lo, hi, seg) ==
  SubSeq(list, 1, lo - 1) \o seg \o SubSeq(list, hi + 1, Len(list))

(* Cuts real bytes out of free block i, before bytes into it.  What is     *)
(* left behind them is a block if it has the size for one.                 *)
Carve(h, i, before, real, least) ==
  LET b == h.list[i]
      rest == b.size - before - real
      front == IF before = 0 THEN <<>> ELSE <<Block(b.at, before)>>
      back == IF rest < least THEN <<>> ELSE <<Block(b.at + before + real, rest)>>
  IN  [list  |-> Put(h.list, i, i, front \o back),
       end   |-> h.end,
       block |-> Block(b.at + before, IF back = <<>> THEN b.size - before ELSE real)]

-----------------------------------------------------------------------------
(* The first block of the list that is large enough, or 0.                 *)
Fit(list, real) == SelectInSeq(list, LAMBDA b : b.size >= real)

(* Wrong on purpose, for the mutation runs: room is asked for the whole    *)
(* request though a free block ends the heap.                              *)
Malloc_WholeRequest(h, sz, frame) ==
  LET real == REAL_SIZE(sz)
      fit  == Fit(h.list, real)
      have == IF EndsHeap(h) THEN Last(h.list).size ELSE 0
  IN  IF fit # 0 THEN Carve(h, fit, 0, real, ENTRY)
      ELSE IF ~CAN_ALLOC_P(h.end, frame, real) THEN Failure(h)
      ELSE [list  |-> IF EndsHeap(h) THEN Front(h.list) ELSE h.list,
            end   |-> h.end - have + real,
            block |-> Block(h.end - have, real)]

(* First fit; else the last free block grows if it ends the heap; else the *)
(* heap does.                                                              *)
Malloc(h, sz, frame) ==
  LET real == REAL_SIZE(sz)
      fit  == Fit(h.list, real)
      have == IF EndsHeap(h) THEN Last(h.list).size ELSE 0
  IN  IF fit # 0 THEN Carve(h, fit, 0, real, ENTRY)
      ELSE IF ~CAN_ALLOC_P(h.end, frame, real - have) THEN Failure(h)
      ELSE [list  |-> IF EndsHeap(h) THEN Front(h.list) ELSE h.list,
            end   |-> h.end - have + real,
            block |-> Block(h.end - have, real)]

(* Where free ends its search: at the block before b, or else behind it.   *)
Stop(list, b) == SelectInSeq(list, LAMBDA t : Adjacent(t, b) \/ t.at > b.at)

(* Wrong on purpose, for the mutation runs: only one neighbour is joined.  *)
Free_JoinsOne(list, b) ==
  LET i == Stop(list, b)
  IN  IF i = 0 THEN Append(list, b)
      ELSE IF Adjacent(list[i], b)
      THEN Put(list, i, i, <<Block(list[i].at, list[i].size + b.size)>>)
      ELSE IF Adjacent(b, list[i])
      THEN Put(list, i, i, <<Block(b.at, b.size + list[i].size)>>)
      ELSE Put(list, i, i - 1, <<b>>)

(* The block joins the free block before it, the one behind it, or both.   *)
Free(list, b) ==
  LET i == Stop(list, b)
  IN  IF i = 0 THEN Append(list, b)
      ELSE IF Adjacent(list[i], b) /\ i < Len(list) /\ Adjacent(b, list[i + 1])
      THEN Put(list, i, i + 1, <<Block(list[i].at, list[i].size + b.size + list[i + 1].size)>>)
      ELSE IF Adjacent(list[i], b)
      THEN Put(list, i, i, <<Block(list[i].at, list[i].size + b.size)>>)
      ELSE IF Adjacent(b, list[i])
      THEN Put(list, i, i, <<Block(b.at, b.size + list[i].size)>>)
      ELSE Put(list, i, i - 1, <<b>>)

IsPowerOfTwo(n) == \E e \in 0 .. n : 2 ^ e = n

(* Wrong on purpose, for the mutation runs: the space is only the gap.     *)
Before_OnlyGap(b, align) == M_ALIGN(b.at + SIZE_T, align)

(* The space before the aligned block must hold a free block.              *)
Before(b, align) ==
  IF M_ALIGN(b.at + SIZE_T, align) = 0 THEN 0
  ELSE ENTRY + M_ALIGN(b.at + ENTRY + SIZE_T, align)

AlignedFit(list, real, align) ==
  SelectInSeq(list, LAMBDA b : b.size >= real + Before(b, align))

(* The aligned block out of block n, which grows first if it has to.       *)
TakeAligned(h, n, real, align, frame) ==
  LET b == h.list[n]
      need == Before(b, align) + real
      grown == IF b.size >= need THEN h
               ELSE [list |-> [h.list EXCEPT ![n].size = need], end |-> b.at + need]
  IN  IF b.size < need /\ ~CAN_ALLOC_P(h.end, frame, need - b.size) THEN Failure(h)
      ELSE Carve(grown, n, Before(b, align), real, ENTRY + 1)

(* As Malloc, with the space before the block taken into account.  A new   *)
(* block goes on the freelist first, and stays there if it cannot grow to  *)
(* what the alignment needs.                                               *)
Memalign(h, align, sz, frame) ==
  LET real  == REAL_SIZE(sz)
      fit   == AlignedFit(h.list, real, align)
      fresh == fit = 0 /\ ~EndsHeap(h)
      first == real + M_ALIGN(h.end + SIZE_T, align)
      g == IF fresh THEN [list |-> Append(h.list, Block(h.end, first)),
                          end  |-> h.end + first]
           ELSE h
  IN  IF ~IsPowerOfTwo(align) THEN Failure(h)
      ELSE IF fresh /\ ~CAN_ALLOC_P(h.end, frame, first) THEN Failure(h)
      ELSE TakeAligned(g, IF fit # 0 THEN fit ELSE Len(g.list), real, align, frame)

(* Wrong on purpose, for the mutation runs: only the first entry counts.   *)
mallinfo_FirstOnly ==
  LET free == IF freelist = <<>> THEN 0 ELSE freelist[1].size
      total == malloc_end - malloc_start
  IN  [arena |-> total, fordblks |-> free, uordblks |-> total - free,
       ordblks |-> Len(freelist),
       keepcost |-> IF EndsHeap(Heap) THEN Last(freelist).size ELSE 0]

mallinfo ==
  LET free == FoldSeq(LAMBDA b, n : b.size + n, 0, freelist)
      total == malloc_end - malloc_start
  IN  [arena |-> total, fordblks |-> free, uordblks |-> total - free,
       ordblks |-> Len(freelist),
       keepcost |-> IF EndsHeap(Heap) THEN Last(freelist).size ELSE 0]

malloc_usable_size(b) == inuse[b].size - SIZE_T

-----------------------------------------------------------------------------
Init == /\ freelist = <<>> /\ malloc_end = malloc_start
        /\ inuse = [b \in {} |-> 0]
        /\ limit \in Limits /\ failed = Nothing

(* The outcome of an allocation of sz bytes at a multiple of align.        *)
Allocates(r, sz, align, others) ==
  /\ freelist' = r.list /\ malloc_end' = r.end /\ r.end <= MaxEnd
  /\ inuse' = [b \in DOMAIN others \cup ({r.block.at} \ {NULL}) |->
                 IF b = r.block.at
                 THEN [size |-> r.block.size, asked |-> sz, align |-> align]
                 ELSE others[b]]
  /\ failed' = IF r.block.at = NULL THEN [sz |-> sz, align |-> align] ELSE Nothing

Call(frame) == limit' = frame
May == Cardinality(DOMAIN inuse) < MaxLive

malloc(sz) == May /\ \E frame \in Limits :
  Call(frame) /\ Allocates(Malloc(Heap, sz, frame), sz, SIZE_T, inuse)

calloc(n, elem_size) == malloc((n * elem_size) % WordMod)

memalign(align, sz) == May /\ \E frame \in Limits :
  Call(frame) /\ Allocates(Memalign(Heap, align, sz, frame), sz, align, inuse)

valloc(sz) == memalign(PAGE_ALIGN, sz)
pvalloc(sz) == memalign(PAGE_ALIGN, sz + M_ALIGN(sz, PAGE_ALIGN))

free(b) ==      \* and cfree
  /\ freelist' = Free(freelist, Block(b, inuse[b].size))
  /\ inuse' = Restrict(inuse, DOMAIN inuse \ {b})
  /\ failed' = Nothing
  /\ UNCHANGED <<malloc_end, limit>>

(* A larger block is a new one, got before the old one is freed.  (A null  *)
(* pointer makes realloc a malloc.)                                        *)
Moves(b, sz, frame) ==
  LET r == Malloc(Heap, sz, frame)
      old == Block(b, inuse[b].size)
  IN  Allocates(IF r.block.at = NULL THEN r ELSE [r EXCEPT !.list = Free(r.list, old)],
                sz, SIZE_T,
                IF r.block.at = NULL THEN inuse ELSE Restrict(inuse, DOMAIN inuse \ {b}))

Shrinks(b, sz) ==
  LET real == REAL_SIZE(sz)
      rest == inuse[b].size - real
  IN  /\ inuse' = [inuse EXCEPT ![b].asked = sz,
                                ![b].size = IF rest >= ENTRY THEN real ELSE @]
      /\ freelist' = IF rest >= ENTRY THEN Free(freelist, Block(b + real, rest))
                     ELSE freelist
      /\ failed' = Nothing
      /\ UNCHANGED malloc_end

realloc(b, sz) == \E frame \in Limits :
  /\ Call(frame)
  /\ \/ inuse[b].size < REAL_SIZE(sz) /\ Moves(b, sz, frame)
     \/ inuse[b].size >= REAL_SIZE(sz) /\ Shrinks(b, sz)

Next == \/ \E sz \in Requests :
             \/ malloc(sz) \/ calloc(2, sz) \/ valloc(sz) \/ pvalloc(sz)
             \/ \E align \in Alignments : memalign(align, sz)
             \/ \E b \in DOMAIN inuse : realloc(b, sz)
        \/ \E b \in DOMAIN inuse : free(b)
Spec == Init /\ [][Next]_vars

-----------------------------------------------------------------------------
(* Properties.                                                             *)

Held == {Block(b, inuse[b].size) : b \in DOMAIN inuse}

(* malloc, free, realloc and memalign only move bytes between blocks: the  *)
(* blocks are apart, inside the heap, large enough for a list entry, and   *)
(* every byte of the heap is in one, so none is lost.                      *)
Apart(b, c) == b.at + b.size <= c.at \/ c.at + c.size <= b.at
Holds(b, x) == b.at <= x /\ x < b.at + b.size
InHeap(b, end) == /\ malloc_start <= b.at /\ b.at + b.size <= end
                  /\ b.size >= ENTRY /\ b.at % SIZE_T = 0
Tiled(blocks, end) ==
  /\ \A b, c \in blocks : b # c => Apart(b, c)
  /\ \A b \in blocks : InHeap(b, end)
  /\ \A x \in malloc_start .. end - 1 : \E b \in blocks : Holds(b, x)
HeapTiled == /\ Held \cap ToSet(freelist) = {}
             /\ Tiled(Held \cup ToSet(freelist), malloc_end)

(* What mallinfo counts as used is what the program holds.                 *)
UsedIsHeld == mallinfo.uordblks = FoldSet(LAMBDA b, n : b.size + n, 0, Held)

(* free and the splits keep the list in the order of the addresses, and no *)
(* two free blocks touch: what could be joined is.                         *)
FreelistCoalesced ==
  \A i \in 1 .. Len(freelist) - 1 :
    freelist[i].at + freelist[i].size < freelist[i + 1].at

(* The program gets the bytes it asked for, aligned as it asked.           *)
FitsRequest ==
  \A b \in DOMAIN inuse : /\ malloc_usable_size(b) >= inuse[b].asked
                          /\ (b + SIZE_T) % inuse[b].align = 0

(* "or null if no space is available": a call fails only when neither a    *)
(* free block nor the space below the gap has a place for the block.       *)
Place(b, real, align) ==
  \E p \in {b.at} \cup b.at + ENTRY .. b.at + b.size :
    (p + SIZE_T) % align = 0 /\ p + real <= b.at + b.size
FailsForWantOfSpace ==
  LET top  == limit - MALLOC_MINIMUM_GAP
      rest == IF EndsHeap(Heap) THEN Block(Last(freelist).at, top - Last(freelist).at)
              ELSE Block(malloc_end, top - malloc_end)
  IN  failed # Nothing /\ IsPowerOfTwo(failed.align) =>
        \A b \in ToSet(freelist) \cup {rest} :
          ~Place(b, REAL_SIZE(failed.sz), failed.align)

(* "the minimum gap allowed between __malloc_end and the top of the        *)
(* stack": a call that finds the gap leaves it when it grows the heap.     *)
GapKept ==
  [][malloc_end' # malloc_end /\ limit' - malloc_end >= MALLOC_MINIMUM_GAP
       => limit' - malloc_end' >= MALLOC_MINIMUM_GAP]_vars

-----------------------------------------------------------------------------
(* What the proofs assume of the constants: REAL_SIZE does not wrap for    *)
(* what is asked for, an alignment above two is a multiple of a word.      *)
SizesInReach ==
  \A sz \in Requests :
    {sz, (2 * sz) % WordMod, sz + M_ALIGN(sz, PAGE_ALIGN)} \subseteq 0 .. WordMod - 2 * ENTRY
PowersOfTwo ==
  \A align \in Alignments \cup {PAGE_ALIGN} :
    IsPowerOfTwo(align) => align \in {1, 2} \/ (align # 0 /\ align % SIZE_T = 0)

(* The inductive invariant behind HeapTiled, FreelistCoalesced, FitsRequest*)
(* and FailsForWantOfSpace: the sizes are multiples of a word, too, and    *)
(* the list is in order throughout.                                        *)
Blocks == [at : Nat, size : Nat]
Sorted(list) == \A i, j \in 1 .. Len(list) : i < j => list[i].at + list[i].size < list[j].at
Words(blocks) == \A b \in blocks : b.size % SIZE_T = 0
MallocType ==
  /\ freelist \in Seq(Blocks)
  /\ malloc_end \in Nat /\ malloc_end % SIZE_T = 0 /\ malloc_start <= malloc_end
  /\ DOMAIN inuse \subseteq Nat
  /\ inuse \in [DOMAIN inuse -> [size : Nat, asked : Nat, align : Nat \ {0}]]
  /\ limit \in Limits
MallocInv == /\ MallocType
             /\ HeapTiled /\ Words(Held \cup ToSet(freelist)) /\ Sorted(freelist)
             /\ FitsRequest /\ FailsForWantOfSpace
=============================================================================
