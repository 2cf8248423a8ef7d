--------------------------------- MODULE vm ---------------------------------
(***************************************************************************)
(* The demand-paging environment of riscv-tests/env/v/vm.c: a test program *)
(* runs in user mode on pages that a supervisor maps at the first access,  *)
(* keeps the accessed and dirty bits of, and writes back at the end.       *)
(*                                                                         *)
(* The user's accesses, and the translation cache the supervisor flushes   *)
(* with sfence.vma, are the environment.  A handler runs with interrupts   *)
(* off on the one hart that maps pages, so it is one step.  A page's       *)
(* contents are one value.                                                 *)
(***************************************************************************)
EXTENDS Integers, FiniteSets, Functions

CONSTANTS
  LFSR_BITS,    \* 6
  Entropies,    \* values of ENTROPY that boot may be compiled with
  Contents,     \* what a page may hold
  UserPages     \* the pages the test touches

MAX_TEST_PAGES == 2 ^ LFSR_BITS - 1
Pages   == 1 .. MAX_TEST_PAGES - 1   \* page 0 is never mapped
Indices == 0 .. MAX_TEST_PAGES - 1

ASSUME VmAssumption == /\ LFSR_BITS \in Nat \ {0, 1}
                       /\ UserPages \subseteq Pages
                       /\ Entropies \subseteq Nat

(* Two arrays of freelist_t; a pointer names an element of one.            *)
NULL    == <<"null", 0>>
Free(i) == <<"freelist_nodes", i>>
User(p) == <<"user_mapping", p>>
Nodes   == {Free(i) : i \in Indices} \cup {User(p) : p \in Indices}

VARIABLES
  user_llpt,                      \* page -> its entry, or Unmapped
  node,                           \* freelist_t: node -> [addr, next]
  freelist_head, freelist_tail,
  frame,                          \* physical pages the supervisor hands out
  home,                           \* the test's own pages
  tlb,                            \* the pages that are cached -> an entry
  access,                         \* the user's current access, or Idle
  evicting,                       \* next page of the loop at ECALL; 0 before
  code,                           \* what terminate() reported; 0 while running
  flat                            \* the memory the test believes in

vars == <<user_llpt, node, freelist_head, freelist_tail, frame, home, tlb,
          access, evicting, code, flat>>
lists == <<node, freelist_head, freelist_tail>>

-----------------------------------------------------------------------------
(* The shift register that permutes the frames.                            *)
LFSR_NEXT(x) == (((x + x \div 2) % 2) * 2 ^ (LFSR_BITS - 1)) + x \div 2

(* Frame k is the page at DRAM_BASE + (MAX_TEST_PAGES + k) * PGSIZE.       *)
FrameOrder(start) ==
  LET order[i \in Indices] == IF i = 0 THEN start ELSE LFSR_NEXT(order[i - 1])
  IN  order

Entry(k, a, d) == [frame |-> k, A |-> a, D |-> d]
Unmapped == Entry(0, FALSE, FALSE)
Idle     == [page |-> 0, kind |-> "none", value |-> 0]
Flushed(p) == Restrict(tlb, DOMAIN tlb \ {p})
Cached(p, e) == [q \in DOMAIN tlb \cup {p} |-> IF q = p THEN e ELSE tlb[q]]

-----------------------------------------------------------------------------
(* vm_boot: ENTROPY picks the first frame.                                 *)
Init ==
  /\ \E start \in {1 + (e % MAX_TEST_PAGES) : e \in Entropies} :
       node = [n \in Nodes |->
                 IF n[1] = "user_mapping" THEN [addr |-> 0, next |-> NULL]
                 ELSE [addr |-> FrameOrder(start)[n[2]],
                       next |-> IF n[2] = MAX_TEST_PAGES - 1 THEN NULL
                                ELSE Free(n[2] + 1)]]
  /\ freelist_head = Free(0)
  /\ freelist_tail = Free(MAX_TEST_PAGES - 1)
  /\ user_llpt = [p \in Pages |-> Unmapped]
  /\ tlb = [p \in {} |-> Unmapped]
  /\ \E c \in Contents : frame = [k \in 1 .. MAX_TEST_PAGES |-> c]
  /\ \E h \in [UserPages -> Contents], c \in Contents :
       home = [p \in Pages |-> IF p \in UserPages THEN h[p] ELSE c]
  /\ flat = home
  /\ access = Idle /\ evicting = 0 /\ code = 0

Running == code = 0 /\ evicting = 0

(* terminate(3) after an assertion's message.                              *)
AssertFails == /\ code' = 3
               /\ UNCHANGED <<user_llpt, lists, frame, home, tlb, access,
                              evicting, flat>>

(* Wrong on purpose, for the mutation runs: the entry of the copy is not   *)
(* flushed, and lets the user store without setting D.                     *)
MapPage_OneFlush(p) ==
  LET n == freelist_head
      k == node[n].addr
  IN  /\ freelist_head' = node[n].next
      /\ freelist_tail' = IF freelist_head' = freelist_tail THEN NULL
                          ELSE freelist_tail
      /\ node' = [node EXCEPT ![User(p)] = node[n]]
      /\ frame' = [frame EXCEPT ![k] = home[p]]
      /\ user_llpt' = [user_llpt EXCEPT ![p] = Entry(k, FALSE, FALSE)]
      /\ tlb' = Cached(p, Entry(k, TRUE, TRUE))
      /\ UNCHANGED <<home, access, evicting, code, flat>>

(* Wrong on purpose, for the mutation runs: the node stays on the list.    *)
MapPage_KeepsNode(p) ==
  LET n == freelist_head
      k == node[n].addr
  IN  /\ node' = [node EXCEPT ![User(p)] = node[n]]
      /\ frame' = [frame EXCEPT ![k] = home[p]]
      /\ user_llpt' = [user_llpt EXCEPT ![p] = Entry(k, FALSE, FALSE)]
      /\ tlb' = Flushed(p)
      /\ UNCHANGED <<freelist_head, freelist_tail, home, access, evicting, code, flat>>

(* Wrong on purpose, for the mutation runs: the page is not copied.        *)
MapPage_NoCopy(p) ==
  LET n == freelist_head
      k == node[n].addr
  IN  /\ freelist_head' = node[n].next
      /\ freelist_tail' = IF freelist_head' = freelist_tail THEN NULL
                          ELSE freelist_tail
      /\ node' = [node EXCEPT ![User(p)] = node[n]]
      /\ user_llpt' = [user_llpt EXCEPT ![p] = Entry(k, FALSE, FALSE)]
      /\ tlb' = Flushed(p)
      /\ UNCHANGED <<frame, home, access, evicting, code, flat>>

(* The rest of handle_fault for a page that is not mapped: take a node,    *)
(* map it with A and D for the copy, copy, map it again without them.      *)
(* Both entries are flushed.                                               *)
MapPage(p) ==
  LET n == freelist_head
      k == node[n].addr
  IN  /\ freelist_head' = node[n].next
      /\ freelist_tail' = IF freelist_head' = freelist_tail THEN NULL
                          ELSE freelist_tail
      /\ node' = [node EXCEPT ![User(p)] = node[n]]
      /\ frame' = [frame EXCEPT ![k] = home[p]]
      /\ user_llpt' = [user_llpt EXCEPT ![p] = Entry(k, FALSE, FALSE)]
      /\ tlb' = Flushed(p)
      /\ UNCHANGED <<home, access, evicting, code, flat>>

(* Wrong on purpose, for the mutation runs: A is set where D is missing.   *)
MarkPage_OnlyA(p, bit) ==
  /\ user_llpt' = [user_llpt EXCEPT ![p].A = TRUE]
  /\ tlb' = Flushed(p)
  /\ UNCHANGED <<lists, frame, home, access, evicting, code, flat>>

(* A mapped page faults for its A bit first, then for its D bit.           *)
MarkPage(p, bit) ==
  /\ user_llpt' = [user_llpt EXCEPT ![p][bit] = TRUE]
  /\ tlb' = Flushed(p)
  /\ UNCHANGED <<lists, frame, home, access, evicting, code, flat>>

(* Each assert() of the handler guards what follows it; that on the range  *)
(* of the address holds of UserPages.  pf_filter and trap_filter are those *)
(* of riscv_test.h, which change nothing.                                  *)
handle_fault(p, cause) ==
  LET pte == user_llpt[p]
  IN  \/ pte # Unmapped /\ ~pte.A /\ MarkPage(p, "A")
      \/ /\ pte # Unmapped /\ pte.A
         /\ IF ~pte.D /\ cause = "store" THEN MarkPage(p, "D") ELSE AssertFails
      \/ /\ pte = Unmapped
         /\ IF freelist_head # NULL /\ node[User(p)].addr = 0 THEN MapPage(p)
            ELSE AssertFails

-----------------------------------------------------------------------------
(* The user: begins an access, and retries it after each fault.            *)
Begin(p, kind, c) ==
  /\ Running /\ access = Idle
  /\ access' = [page |-> p, kind |-> kind, value |-> c]
  /\ UNCHANGED <<user_llpt, lists, frame, home, tlb, evicting, code, flat>>

(* The cached entry, if there is one, shadows the table's.                 *)
Translation(p) == IF p \in DOMAIN tlb THEN tlb[p] ELSE user_llpt[p]
Sufficient(t, kind) == t # Unmapped /\ t.A /\ (kind = "store" => t.D)

Complete(p, kind, c) ==
  LET t == Translation(p)
  IN  /\ Sufficient(t, kind)
      /\ frame' = IF kind = "store" THEN [frame EXCEPT ![t.frame] = c] ELSE frame
      /\ flat'  = IF kind = "store" THEN [flat EXCEPT ![p] = c] ELSE flat
      /\ access' = Idle
      /\ UNCHANGED <<user_llpt, lists, home, tlb, evicting, code>>

(* An MMU may set the bits itself, in the table and in its cache, ...      *)
HardwareSets(p, kind) ==
  LET t == user_llpt[p]
      e == Entry(t.frame, TRUE, t.D \/ kind = "store")
  IN  /\ ~Sufficient(Translation(p), kind)
      /\ Translation(p) # Unmapped /\ t # Unmapped
      /\ user_llpt' = [user_llpt EXCEPT ![p] = e]
      /\ tlb' = Cached(p, e)
      /\ UNCHANGED <<lists, frame, home, access, evicting, code, flat>>

(* ... or leave it to the supervisor.                                      *)
Fault(p, kind) ==
  /\ ~Sufficient(Translation(p), kind)
  /\ handle_fault(p, kind)

Try == /\ Running /\ access # Idle
       /\ \/ Complete(access.page, access.kind, access.value)
          \/ HardwareSets(access.page, access.kind)
          \/ Fault(access.page, access.kind)

(* The MMU may walk ahead, and may drop what it has cached.                *)
TlbFill(p) == /\ Running /\ p \notin DOMAIN tlb
              /\ tlb' = Cached(p, user_llpt[p])
              /\ UNCHANGED <<user_llpt, lists, frame, home, access, evicting,
                             code, flat>>
TlbDrop(p) == /\ Running /\ p \in DOMAIN tlb
              /\ tlb' = Flushed(p)
              /\ UNCHANGED <<user_llpt, lists, frame, home, access, evicting,
                             code, flat>>

-----------------------------------------------------------------------------
(* ECALL: evict every page, then terminate.                                *)
Ecall == /\ Running /\ access = Idle
         /\ evicting' = 1
         /\ UNCHANGED <<user_llpt, lists, frame, home, tlb, access, code, flat>>

(* The supervisor reads the page through the user's mapping.               *)
UserView(p) == IF user_llpt[p] = Unmapped THEN home[p] ELSE frame[user_llpt[p].frame]

(* The node that goes back on the list is the user_mapping element, its    *)
(* addr already cleared.                                                   *)
Append(p) ==
  /\ freelist_head' = IF freelist_tail = NULL THEN User(p) ELSE freelist_head
  /\ freelist_tail' = User(p)
  /\ node' = LET cleared == [node EXCEPT ![User(p)].addr = 0]
             IN  IF freelist_tail = NULL THEN cleared
                 ELSE [cleared EXCEPT ![freelist_tail].next = User(p)]

evict ==
  LET p == evicting
      differs == UserView(p) # home[p]
  IN  /\ code = 0 /\ evicting \in Pages
      /\ \/ /\ node[User(p)].addr = 0
            /\ evicting' = p + 1
            /\ UNCHANGED <<lists, home, code>>
         \/ /\ node[User(p)].addr # 0
            /\ IF user_llpt[p].A /\ (differs => user_llpt[p].D)
               THEN /\ home' = [home EXCEPT ![p] = UserView(p)]
                    /\ Append(p)
                    /\ evicting' = p + 1
                    /\ UNCHANGED code
               ELSE code' = 3 /\ UNCHANGED <<lists, home, evicting>>
      /\ UNCHANGED <<user_llpt, frame, tlb, access, flat>>

(* Wrong on purpose, for the mutation runs: the last page is left out.     *)
terminate_OneEarly ==
  /\ code = 0 /\ evicting >= MAX_TEST_PAGES - 1
  /\ code' = 1
  /\ UNCHANGED <<user_llpt, lists, frame, home, tlb, access, evicting, flat>>

terminate == /\ code = 0 /\ evicting = MAX_TEST_PAGES
             /\ code' = 1
             /\ UNCHANGED <<user_llpt, lists, frame, home, tlb, access,
                            evicting, flat>>

Spin == code # 0 /\ UNCHANGED vars   \* while (1) at the end of terminate

Next == \/ \E p \in UserPages, c \in Contents : Begin(p, "store", c)
        \/ \E p \in UserPages, kind \in {"load", "fetch"} : Begin(p, kind, 0)
        \/ Try
        \/ \E p \in UserPages : TlbFill(p) \/ TlbDrop(p)
        \/ Ecall
        \/ evict
        \/ terminate
        \/ Spin
Spec == Init /\ [][Next]_vars /\ WF_vars(Try) /\ WF_vars(evict) /\ WF_vars(terminate)

-----------------------------------------------------------------------------
(* Properties.                                                             *)

(* The assertions of handle_fault and evict: a free frame is there, the    *)
(* page is not mapped twice, a fault on a mapped page is for its A or D    *)
(* bit, a page that was mapped was accessed, one that changed is dirty.    *)
AssertionsHold == code # 3

(* "this must be the period of the LFSR": no two mapped pages, and no      *)
(* mapped page and free node, share a frame.                               *)
OnFreelist ==
  LET from[n \in Nodes \cup {NULL}] ==
        IF n = NULL THEN {} ELSE {n} \cup from[node[n].next]
  IN  from[freelist_head]
FramesExclusive ==
  Running =>
    LET mapped == {p \in Pages : user_llpt[p] # Unmapped}
    IN  /\ \A p, q \in mapped :
             user_llpt[p].frame = user_llpt[q].frame => p = q
        /\ \A m, n \in OnFreelist : node[m].addr = node[n].addr => m = n
        /\ \A p \in mapped, n \in OnFreelist :
             user_llpt[p].frame # node[n].addr

(* What the test reads and writes is one flat memory, wherever its pages   *)
(* are, and through the cache as through the table.                        *)
FlatMemory ==
  \A p \in Pages :
    /\ UserView(p) = flat[p]
    /\ p \in DOMAIN tlb /\ tlb[p] # Unmapped => frame[tlb[p].frame] = flat[p]

(* At the exit every page is back home with what the test left in it.      *)
WrittenBack == code = 1 => home = flat

(* The page tables and frames of the freelist never run out or tangle into *)
(* a fault loop: each access completes.                                    *)
AccessCompletes == access # Idle ~> access = Idle

-----------------------------------------------------------------------------
(* What the invariants ask of the constants.  "this must be the period of  *)
(* the LFSR": the register passes through every frame before it repeats.   *)
Frames == 1 .. MAX_TEST_PAGES
Starts == {1 + (e % MAX_TEST_PAGES) : e \in Entropies}
FramesInDram == /\ MAX_TEST_PAGES \in Nat \ {0, 1}
                /\ \A start \in Starts : FrameOrder(start) \in [Indices -> Frames]
FullPeriod == \A start \in Starts : \A i, j \in Indices :
                FrameOrder(start)[i] = FrameOrder(start)[j] => i = j

(* The inductive invariant behind AssertionsHold, FramesExclusive,         *)
(* FlatMemory and WrittenBack.                                             *)
Mapped == {p \in Pages : user_llpt[p] # Unmapped}
VmType ==
  /\ user_llpt \in [Pages -> {Unmapped} \cup [frame : Frames, A : BOOLEAN, D : BOOLEAN]]
  /\ node \in [Nodes -> [addr : 0 .. MAX_TEST_PAGES, next : Nodes \cup {NULL}]]
  /\ {freelist_head, freelist_tail} \subseteq Nodes \cup {NULL}
  /\ frame \in [Frames -> Contents]
  /\ {home, flat} \subseteq [Pages -> Contents]
  /\ \/ access = Idle
     \/ access \in [page : UserPages, kind : {"load", "fetch"}, value : {0}]
     \/ access \in [page : UserPages, kind : {"store"}, value : Contents]

(* The accesses are over before the pages are evicted, and these before    *)
(* the end.                                                                *)
PhasesInOrder == /\ evicting \in 0 .. MAX_TEST_PAGES /\ code \in {0, 1}
                 /\ evicting # 0 => access = Idle
                 /\ code = 1 => evicting = MAX_TEST_PAGES

(* Nothing but the current table is cached; a page without A is the one    *)
(* the user is about to access, one without D is as it was at home.        *)
TlbCurrent  == \A p \in DOMAIN tlb : p \in Pages /\ tlb[p] = user_llpt[p]
BitsInOrder == \A p \in Mapped :
                 /\ ~user_llpt[p].A => access.page = p
                 /\ ~user_llpt[p].D => frame[user_llpt[p].frame] = home[p]
ViewIsFlat  == \A p \in Pages : UserView(p) = flat[p]
EvictedHome == \A p \in Pages : p < evicting => home[p] = flat[p]

(* A page's frame is its own, and user_mapping knows it until it is        *)
(* evicted.                                                                *)
FramesApart == \A p, q \in Mapped : user_llpt[p].frame = user_llpt[q].frame => p = q
NodeOfPage  == \A p \in Pages : p >= evicting => node[User(p)].addr = user_llpt[p].frame

(* Until then the free nodes are the last of freelist_nodes, in the order  *)
(* they were linked, and the mapped pages have the frames of the first.    *)
FreeNodes ==
  /\ \A i \in Indices :
       /\ node[Free(i)].addr \in Frames
       /\ node[Free(i)].next = IF i = MAX_TEST_PAGES - 1 THEN NULL ELSE Free(i + 1)
       /\ node[User(i)].next \in {Free(j) : j \in Indices} \cup {NULL}
  /\ \A i, j \in Indices : node[Free(i)].addr = node[Free(j)].addr => i = j
FreeAfterMapped ==
  /\ freelist_head = Free(Cardinality(Mapped))
  /\ \A p \in Mapped : \E i \in Indices :
       i < Cardinality(Mapped) /\ user_llpt[p].frame = node[Free(i)].addr

VmInv == /\ VmType /\ PhasesInOrder
         /\ TlbCurrent /\ BitsInOrder /\ ViewIsFlat /\ EvictedHome
         /\ FramesApart /\ NodeOfPage
         /\ evicting = 0 => FreeNodes /\ FreeAfterMapped
=============================================================================
