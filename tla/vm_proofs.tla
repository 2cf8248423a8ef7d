------------------------------ MODULE vm_proofs ------------------------------
(***************************************************************************)
(* The demand paging of vm.tla for every size of register, every set of    *)
(* pages that the test touches and every contents.                         *)
(***************************************************************************)
EXTENDS vm, FiniteSetTheorems, WellFoundedInduction, TLAPS

(* A hypothesis: the frames that vm_boot links are in the memory, and are  *)
(* all different, as the comment on LFSR_NEXT has it.                      *)
Assumptions == FramesInDram /\ FullPeriod

-----------------------------------------------------------------------------
(* The nodes of the two arrays are different, and none is NULL.            *)
LEMMA NodesDiffer ==
  /\ \A i, j : /\ Free(i) = Free(j) => i = j
               /\ User(i) = User(j) => i = j
               /\ Free(i) # User(j)
  /\ \A i \in Indices : Free(i) \in Nodes /\ User(i) \in Nodes
  /\ NULL \notin Nodes
  /\ \A n \in Nodes : \E i \in Indices : n = Free(i) \/ n = User(i)
<1>1. \A i, j : /\ Free(i) = Free(j) => i = j
                /\ User(i) = User(j) => i = j
                /\ Free(i) # User(j)
  BY DEF Free, User
<1>2. \A i : NULL # Free(i) /\ NULL # User(i)
  BY DEF Free, User, NULL
<1>3. QED BY <1>1, <1>2 DEF Nodes

(* Pages are numbered from 1; index 0 of user_mapping is not used.         *)
LEMMA PageNumbers ==
  ASSUME FramesInDram
  PROVE  /\ MAX_TEST_PAGES \in Nat \ {0, 1}
         /\ \A p \in Pages : /\ p \in Indices /\ p \in Nat \ {0} /\ p < MAX_TEST_PAGES
                             /\ User(p) \in Nodes
         /\ \A i \in Indices : i \in Nat
BY NodesDiffer DEF FramesInDram, Pages, Indices

(* What an entry of the table is.                                          *)
LEMMA Entries ==
  ASSUME VmType, FramesInDram
  PROVE  /\ \A p \in Mapped : /\ p \in Pages /\ user_llpt[p].frame \in Frames
                              /\ user_llpt[p].frame # 0
                              /\ user_llpt[p] \in [frame : Frames, A : BOOLEAN, D : BOOLEAN]
         /\ \A p \in Pages \ Mapped : /\ user_llpt[p] = Unmapped
                                      /\ user_llpt[p].frame = 0
<1>1. Unmapped.frame = 0
  BY DEF Unmapped, Entry
<1>2. 0 \notin Frames
  BY DEF Frames
<1>3. \A p \in Mapped : /\ p \in Pages
                        /\ user_llpt[p] \in [frame : Frames, A : BOOLEAN, D : BOOLEAN]
  BY DEF Mapped, VmType
<1>4. QED BY <1>1, <1>2, <1>3 DEF Mapped

(* Where a page is, and what knows of it, does not change with its bits.   *)
LEMMA PlacesKept ==
  ASSUME VmInv, FramesInDram, UNCHANGED lists,
         evicting' = evicting \/ evicting' = evicting + 1,
         \A p \in Pages : /\ user_llpt'[p] # Unmapped <=> user_llpt[p] # Unmapped
                          /\ user_llpt'[p].frame = user_llpt[p].frame
  PROVE  /\ FramesApart' /\ NodeOfPage'
         /\ evicting' = 0 => FreeNodes' /\ FreeAfterMapped'
<1>1. Mapped' = Mapped /\ \A p \in Mapped : user_llpt'[p].frame = user_llpt[p].frame
  BY DEF Mapped
<1>2. UNCHANGED <<node, freelist_head>>
  BY DEF lists
<1>3. FramesApart'
  BY <1>1 DEF VmInv, FramesApart
<1>4. evicting \in Nat
  BY PageNumbers DEF VmInv, PhasesInOrder
<1>5. NodeOfPage'
  BY <1>4, <1>2, PageNumbers DEF VmInv, NodeOfPage
<1>6. ASSUME evicting' = 0
      PROVE  FreeNodes' /\ FreeAfterMapped'
  <2>1. FreeNodes /\ FreeAfterMapped
    BY <1>4, <1>6 DEF VmInv
  <2>2. QED BY <1>1, <1>2, <2>1 DEF FreeNodes, FreeAfterMapped
<1>7. QED BY <1>3, <1>5, <1>6

(* Between accesses every mapped page has been accessed.                   *)
LEMMA IdleIsAccessed ==
  ASSUME VmInv, FramesInDram, access = Idle
  PROVE  \A p \in Mapped : user_llpt[p].A
<1>1. access.page = 0
  BY DEF Idle
<1>2. \A p \in Mapped : p # 0
  BY PageNumbers DEF Mapped
<1>3. QED BY <1>1, <1>2 DEF VmInv, BitsInOrder

(* Steps that leave the memory and its table alone.                        *)
LEMMA MemoryKept ==
  ASSUME VmInv, FramesInDram, UNCHANGED <<user_llpt, lists, frame, home, flat>>,
         evicting' = evicting \/ (evicting = 0 /\ evicting' = 1),
         access' = access \/ access = Idle
  PROVE  /\ BitsInOrder' /\ ViewIsFlat' /\ EvictedHome' /\ FramesApart' /\ NodeOfPage'
         /\ evicting' = 0 => FreeNodes' /\ FreeAfterMapped'
<1>1. Mapped' = Mapped
  BY DEF Mapped
<1>2. BitsInOrder'
  BY <1>1, IdleIsAccessed DEF VmInv, BitsInOrder
<1>3. ViewIsFlat'
  BY DEF VmInv, ViewIsFlat, UserView
<1>4. EvictedHome'
  BY PageNumbers DEF VmInv, EvictedHome
<1>5. QED BY <1>2, <1>3, <1>4, PlacesKept

LEMMA BeginStep ==
  ASSUME VmInv, FramesInDram, NEW p \in UserPages, NEW kind, NEW c, Begin(p, kind, c),
         \/ kind = "store" /\ c \in Contents
         \/ kind \in {"load", "fetch"} /\ c = 0
  PROVE  VmInv'
<1>1. /\ evicting = 0 /\ code = 0 /\ access = Idle
      /\ access' = [page |-> p, kind |-> kind, value |-> c]
      /\ UNCHANGED <<user_llpt, lists, frame, home, tlb, evicting, code, flat>>
      /\ UNCHANGED <<node, freelist_head, freelist_tail>>
  BY DEF Begin, Running, lists
<1>2. VmType'
  BY <1>1 DEF VmInv, VmType
<1>3. PhasesInOrder' /\ TlbCurrent'
  BY <1>1 DEF VmInv, PhasesInOrder, TlbCurrent
<1>4. QED BY <1>1, <1>2, <1>3, MemoryKept DEF VmInv

(* The MMU caches an entry of the table, or drops one.                     *)
LEMMA TlbStep ==
  ASSUME VmInv, FramesInDram, NEW p \in UserPages, TlbFill(p) \/ TlbDrop(p)
  PROVE  VmInv'
<1>1. /\ tlb' = Cached(p, user_llpt[p]) \/ tlb' = Flushed(p)
      /\ UNCHANGED <<user_llpt, lists, frame, home, access, evicting, code, flat>>
      /\ UNCHANGED <<node, freelist_head, freelist_tail>>
  BY DEF TlbFill, TlbDrop, lists
<1>2. VmType' /\ PhasesInOrder'
  BY <1>1 DEF VmInv, VmType, PhasesInOrder
<1>3. p \in Pages
  BY VmAssumption
<1>4. TlbCurrent'
  BY <1>1, <1>3 DEF VmInv, TlbCurrent, Cached, Flushed, Restrict
<1>5. QED BY <1>1, <1>2, <1>4, MemoryKept DEF VmInv

(* The loop at ECALL begins, and the program ends.                         *)
LEMMA EcallStep ==
  ASSUME VmInv, FramesInDram, Ecall
  PROVE  VmInv'
<1>1. /\ evicting = 0 /\ code = 0 /\ access = Idle /\ evicting' = 1
      /\ UNCHANGED <<user_llpt, lists, frame, home, tlb, access, code, flat>>
      /\ UNCHANGED <<node, freelist_head, freelist_tail>>
  BY DEF Ecall, Running, lists
<1>2. VmType' /\ TlbCurrent'
  BY <1>1 DEF VmInv, VmType, TlbCurrent
<1>3. PhasesInOrder'
  BY <1>1, PageNumbers DEF PhasesInOrder
<1>4. QED BY <1>1, <1>2, <1>3, MemoryKept DEF VmInv

LEMMA TerminateStep ==
  ASSUME VmInv, FramesInDram, terminate
  PROVE  VmInv'
<1>1. /\ evicting = MAX_TEST_PAGES /\ code' = 1
      /\ UNCHANGED <<user_llpt, lists, frame, home, tlb, access, evicting, flat>>
      /\ UNCHANGED <<node, freelist_head, freelist_tail>>
  BY DEF terminate, lists
<1>2. VmType' /\ TlbCurrent'
  BY <1>1 DEF VmInv, VmType, TlbCurrent
<1>3. PhasesInOrder'
  BY <1>1 DEF VmInv, PhasesInOrder
<1>4. QED BY <1>1, <1>2, <1>3, MemoryKept DEF VmInv

LEMMA IdleStep ==
  ASSUME VmInv, FramesInDram, UNCHANGED vars
  PROVE  VmInv'
<1>1. /\ UNCHANGED <<user_llpt, lists, frame, home, tlb, access, evicting, code, flat>>
      /\ UNCHANGED <<node, freelist_head, freelist_tail>>
  BY DEF vars, lists
<1>2. VmType' /\ TlbCurrent' /\ PhasesInOrder'
  BY <1>1 DEF VmInv, VmType, TlbCurrent, PhasesInOrder
<1>3. QED BY <1>1, <1>2, MemoryKept DEF VmInv

-----------------------------------------------------------------------------
(* The user's access: by the cache or by the table, it is translated by    *)
(* the table.                                                              *)
LEMMA TranslationIsTable ==
  ASSUME VmInv, NEW p \in Pages
  PROVE  Translation(p) = user_llpt[p]
BY DEF VmInv, TlbCurrent, Translation

(* A bit more is set in an entry, by the supervisor or by the MMU.         *)
LEMMA BitsSet ==
  ASSUME VmInv, FramesInDram, NEW p \in Mapped,
         NEW e \in [frame : {user_llpt[p].frame}, A : {TRUE}, D : BOOLEAN],
         user_llpt[p].D => e.D,
         user_llpt' = [user_llpt EXCEPT ![p] = e],
         tlb' = Flushed(p) \/ tlb' = Cached(p, e),
         UNCHANGED <<lists, frame, home, access, evicting, code, flat>>
  PROVE  VmInv'
<1>1. UNCHANGED <<node, freelist_head, freelist_tail>>
  BY DEF lists
<1>2. /\ p \in Pages /\ user_llpt[p].frame \in Frames /\ user_llpt[p].frame # 0
      /\ user_llpt[p] # Unmapped
  BY Entries DEF VmInv, Mapped
<1>3. /\ e \in [frame : Frames, A : BOOLEAN, D : BOOLEAN] /\ e.A
      /\ e.frame = user_llpt[p].frame
      /\ e # Unmapped
  <2>1. e.frame = user_llpt[p].frame /\ e.A = TRUE /\ e.D \in BOOLEAN
    OBVIOUS
  <2>2. e \in [frame : Frames, A : BOOLEAN, D : BOOLEAN]
    BY <1>2
  <2>3. Unmapped.frame = 0
    BY DEF Unmapped, Entry
  <2>4. QED BY <1>2, <2>1, <2>2, <2>3
<1>4. /\ user_llpt'[p] = e
      /\ \A q \in Pages \ {p} : user_llpt'[q] = user_llpt[q]
  BY <1>2 DEF VmInv, VmType
<1>5. VmType' /\ PhasesInOrder'
  <2>1. user_llpt' \in [Pages -> {Unmapped} \cup [frame : Frames, A : BOOLEAN, D : BOOLEAN]]
    BY <1>3 DEF VmInv, VmType
  <2>2. QED BY <1>1, <2>1 DEF VmInv, VmType, PhasesInOrder
<1>6. TlbCurrent'
  BY <1>2, <1>4 DEF VmInv, TlbCurrent, Cached, Flushed, Restrict
<1>7. \A q \in Pages : /\ user_llpt'[q] # Unmapped <=> user_llpt[q] # Unmapped
                       /\ user_llpt'[q].frame = user_llpt[q].frame
  BY <1>2, <1>3, <1>4
<1>8. BitsInOrder'
  BY <1>3, <1>4, <1>7 DEF VmInv, BitsInOrder, Mapped
<1>9. ViewIsFlat' /\ EvictedHome'
  BY <1>7 DEF VmInv, ViewIsFlat, EvictedHome, UserView
<1>10. QED BY <1>5, <1>6, <1>7, <1>8, <1>9, PlacesKept DEF VmInv

(* The entry that a handler leaves when it sets one of the two bits.       *)
LEMMA MarkedEntry ==
  ASSUME VmInv, FramesInDram, NEW p \in Mapped, UNCHANGED <<access, evicting, code>>,
         MarkPage(p, "A") \/ (user_llpt[p].A /\ MarkPage(p, "D"))
  PROVE  VmInv'
<1>1. /\ p \in Pages /\ user_llpt[p] \in [frame : Frames, A : BOOLEAN, D : BOOLEAN]
      /\ user_llpt \in [Pages -> {Unmapped} \cup [frame : Frames, A : BOOLEAN, D : BOOLEAN]]
  BY Entries DEF VmInv, VmType
<1>2. PICK e \in [frame : {user_llpt[p].frame}, A : {TRUE}, D : BOOLEAN] :
        /\ user_llpt' = [user_llpt EXCEPT ![p] = e]
        /\ user_llpt[p].D => e.D
  <2>1. CASE MarkPage(p, "A")
    <3> DEFINE e == [user_llpt[p] EXCEPT !.A = TRUE]
    <3>1. user_llpt' = [user_llpt EXCEPT ![p] = e]
      BY <2>1 DEF MarkPage
    <3>2. e \in [frame : {user_llpt[p].frame}, A : {TRUE}, D : BOOLEAN]
      BY <1>1
    <3>3. user_llpt[p].D => e.D
      BY <1>1
    <3> HIDE DEF e
    <3>4. QED BY <3>1, <3>2, <3>3
  <2>2. CASE user_llpt[p].A /\ MarkPage(p, "D")
    <3> DEFINE e == [user_llpt[p] EXCEPT !.D = TRUE]
    <3>1. user_llpt' = [user_llpt EXCEPT ![p] = e]
      BY <2>2 DEF MarkPage
    <3>2. e \in [frame : {user_llpt[p].frame}, A : {TRUE}, D : BOOLEAN]
      BY <1>1, <2>2
    <3>3. user_llpt[p].D => e.D
      BY <1>1
    <3> HIDE DEF e
    <3>4. QED BY <3>1, <3>2, <3>3
  <2>3. QED BY <2>1, <2>2
<1>3. /\ tlb' = Flushed(p)
      /\ UNCHANGED <<lists, frame, home, access, evicting, code, flat>>
  BY DEF MarkPage
<1>4. QED BY <1>2, <1>3, BitsSet

LEMMA HardwareStep ==
  ASSUME VmInv, FramesInDram, NEW p \in Pages, NEW kind, HardwareSets(p, kind)
  PROVE  VmInv'
<1> DEFINE e == Entry(user_llpt[p].frame, TRUE, user_llpt[p].D \/ kind = "store")
<1>1. /\ user_llpt[p] # Unmapped
      /\ user_llpt' = [user_llpt EXCEPT ![p] = e]
      /\ tlb' = Cached(p, e)
      /\ UNCHANGED <<lists, frame, home, access, evicting, code, flat>>
  BY DEF HardwareSets
<1>2. p \in Mapped
  BY <1>1 DEF Mapped
<1>3. /\ e \in [frame : {user_llpt[p].frame}, A : {TRUE}, D : BOOLEAN]
      /\ user_llpt[p].D => e.D
  BY DEF Entry
<1> HIDE DEF e
<1>4. QED BY <1>1, <1>2, <1>3, BitsSet

(* The access is done; a store goes to the page's own frame.               *)
LEMMA CompleteStep ==
  ASSUME VmInv, FramesInDram, NEW p \in Pages, NEW kind, NEW c, Complete(p, kind, c),
         access # Idle, access.page = p, kind = "store" => c \in Contents
  PROVE  VmInv'
<1>1. /\ p \in Mapped /\ user_llpt[p].A /\ (kind = "store" => user_llpt[p].D)
      /\ frame' = IF kind = "store" THEN [frame EXCEPT ![user_llpt[p].frame] = c] ELSE frame
      /\ flat'  = IF kind = "store" THEN [flat EXCEPT ![p] = c] ELSE flat
      /\ access' = Idle
      /\ UNCHANGED <<user_llpt, lists, home, tlb, evicting, code>>
  BY TranslationIsTable DEF Complete, Sufficient, Mapped
<1>2. /\ UNCHANGED <<node, freelist_head, freelist_tail>>
      /\ Mapped' = Mapped /\ evicting = 0
  BY <1>1 DEF lists, VmInv, PhasesInOrder, Mapped
<1>3. \A q \in Mapped : user_llpt[q].frame \in Frames
  BY Entries DEF VmInv
<1>4. \A q \in Mapped \ {p} : user_llpt[q].frame # user_llpt[p].frame
  BY <1>1 DEF VmInv, FramesApart
<1>5. \A q \in Mapped : user_llpt[q].A
  BY <1>1 DEF VmInv, BitsInOrder
<1>6. /\ frame \in [Frames -> Contents] /\ flat \in [Pages -> Contents]
      /\ home \in [Pages -> Contents]
  BY DEF VmInv, VmType
<1>7. /\ \A q \in Mapped \ {p} : frame'[user_llpt[q].frame] = frame[user_llpt[q].frame]
      /\ \A q \in Pages \ {p} : flat'[q] = flat[q]
      /\ kind = "store" => frame'[user_llpt[p].frame] = c /\ flat'[p] = c
      /\ kind # "store" => frame' = frame /\ flat' = flat
  BY <1>1, <1>3, <1>4, <1>6
<1>8. frame' \in [Frames -> Contents] /\ flat' \in [Pages -> Contents]
  BY <1>1, <1>3, <1>6
<1>9. VmType' /\ PhasesInOrder' /\ TlbCurrent'
  BY <1>1, <1>2, <1>8 DEF VmInv, VmType, PhasesInOrder, TlbCurrent
<1>10. BitsInOrder'
  BY <1>1, <1>2, <1>5, <1>7 DEF VmInv, BitsInOrder
<1>11. ViewIsFlat'
  <2> SUFFICES ASSUME NEW q \in Pages
               PROVE  UserView(q)' = flat'[q]
    BY DEF ViewIsFlat
  <2>1. UserView(q) = flat[q]
    BY DEF VmInv, ViewIsFlat
  <2>2. CASE q \in Mapped
    BY <1>1, <1>7, <2>1, <2>2 DEF UserView, Mapped
  <2>3. CASE q \notin Mapped
    BY <1>1, <1>7, <2>1, <2>3 DEF UserView, Mapped
  <2>4. QED BY <2>2, <2>3
<1>12. EvictedHome'
  BY <1>1, <1>2, PageNumbers DEF EvictedHome
<1>13. QED BY <1>1, <1>9, <1>10, <1>11, <1>12, PlacesKept DEF VmInv

-----------------------------------------------------------------------------
(* There is a node for every page, and one to spare.                       *)
LEMMA NodesSuffice ==
  ASSUME FramesInDram, NEW p \in Pages \ Mapped
  PROVE  /\ IsFiniteSet(Mapped)
         /\ Cardinality(Mapped) \in Nat /\ Cardinality(Mapped) + 1 < MAX_TEST_PAGES
<1>1. MAX_TEST_PAGES \in Nat \ {0, 1}
  BY PageNumbers
<1>2. IsFiniteSet(Pages) /\ Cardinality(Pages) = MAX_TEST_PAGES - 1
  BY <1>1, FS_Interval DEF Pages
<1>3. IsFiniteSet(Pages \ {p}) /\ Cardinality(Pages \ {p}) = MAX_TEST_PAGES - 2
  BY <1>1, <1>2, FS_RemoveElement
<1>4. Mapped \in SUBSET (Pages \ {p})
  BY DEF Mapped
<1>5. /\ IsFiniteSet(Mapped) /\ Cardinality(Mapped) <= MAX_TEST_PAGES - 2
      /\ Cardinality(Mapped) \in Nat
  BY <1>3, <1>4, FS_Subset, FS_CardinalityType
<1>6. QED BY <1>1, <1>5

(* A page is mapped: it gets the first free node's frame and a copy of     *)
(* what is at home.                                                        *)
LEMMA MapStep ==
  ASSUME VmInv, FramesInDram, NEW p \in Pages \ Mapped, MapPage(p),
         evicting = 0, access.page = p
  PROVE  VmInv'
<1> DEFINE h == Cardinality(Mapped)
           k == node[Free(h)].addr
           M == MAX_TEST_PAGES
<1>1. /\ M \in Nat \ {0, 1} /\ h \in Indices /\ h + 1 \in Indices /\ h \in Nat
      /\ h # M - 1 /\ IsFiniteSet(Mapped)
  BY PageNumbers, NodesSuffice DEF Indices
<1> HIDE DEF h, M
<1>2. FreeNodes /\ FreeAfterMapped
  BY DEF VmInv
<1>3. freelist_head = Free(h) /\ k \in Frames /\ node[Free(h)].next = Free(h + 1)
  BY <1>1, <1>2 DEF FreeNodes, FreeAfterMapped, h, M
<1> HIDE DEF k
<1>4. /\ freelist_head' = Free(h + 1)
      /\ freelist_tail' = IF Free(h + 1) = freelist_tail THEN NULL ELSE freelist_tail
      /\ node' = [node EXCEPT ![User(p)] = node[Free(h)]]
      /\ frame' = [frame EXCEPT ![k] = home[p]]
      /\ user_llpt' = [user_llpt EXCEPT ![p] = Entry(k, FALSE, FALSE)]
      /\ tlb' = Flushed(p)
      /\ UNCHANGED <<home, access, evicting, code, flat>>
  BY <1>3 DEF MapPage, k
<1>5. /\ Entry(k, FALSE, FALSE) \in [frame : Frames, A : BOOLEAN, D : BOOLEAN]
      /\ Entry(k, FALSE, FALSE).frame = k
      /\ Entry(k, FALSE, FALSE) # Unmapped
  <2>1. Entry(k, FALSE, FALSE).frame = k /\ Unmapped.frame = 0
    BY DEF Entry, Unmapped
  <2>2. k # 0
    BY <1>3 DEF Frames
  <2>3. Entry(k, FALSE, FALSE) \in [frame : Frames, A : BOOLEAN, D : BOOLEAN]
    BY <1>3 DEF Entry
  <2>4. QED BY <2>1, <2>2, <2>3
<1>6. /\ user_llpt'[p] = Entry(k, FALSE, FALSE)
      /\ \A q \in Pages \ {p} : user_llpt'[q] = user_llpt[q]
  BY <1>4 DEF VmInv, VmType
<1>7. Mapped' = Mapped \cup {p} /\ Cardinality(Mapped') = h + 1
  <2>1. Mapped' = Mapped \cup {p}
    BY <1>5, <1>6 DEF Mapped
  <2>2. QED BY <1>1, <2>1, FS_AddElement DEF h
<1>8. /\ node'[User(p)] = node[Free(h)]
      /\ \A i \in Indices : node'[Free(i)] = node[Free(i)]
      /\ \A i \in Indices \ {p} : node'[User(i)] = node[User(i)]
  <2>1. node \in [Nodes -> [addr : 0 .. MAX_TEST_PAGES, next : Nodes \cup {NULL}]]
    BY DEF VmInv, VmType
  <2>2. User(p) \in Nodes
    BY PageNumbers
  <2>3. QED BY <1>4, <2>1, <2>2, NodesDiffer
<1>9. \A q \in Mapped : user_llpt[q].frame # k /\ user_llpt[q].frame \in Frames
  BY <1>1, <1>2, Entries DEF FreeNodes, FreeAfterMapped, VmInv, k, h
<1>10. /\ user_llpt'[p].frame = k
       /\ node[Free(h)].addr = k /\ node'[User(p)].addr = k
       /\ node'[User(p)].next = Free(h + 1)
  BY <1>3, <1>5, <1>6, <1>8 DEF k
<1>11. VmType'
  <2>1. user_llpt' \in [Pages -> {Unmapped} \cup [frame : Frames, A : BOOLEAN, D : BOOLEAN]]
    BY <1>4, <1>5 DEF VmInv, VmType
  <2>2. node' \in [Nodes -> [addr : 0 .. MAX_TEST_PAGES, next : Nodes \cup {NULL}]]
    BY <1>1, <1>4, NodesDiffer DEF VmInv, VmType
  <2>3. {freelist_head', freelist_tail'} \subseteq Nodes \cup {NULL}
    BY <1>1, <1>4, NodesDiffer DEF VmInv, VmType
  <2>4. frame' \in [Frames -> Contents]
    BY <1>3, <1>4 DEF VmInv, VmType
  <2>5. QED BY <1>4, <2>1, <2>2, <2>3, <2>4 DEF VmInv, VmType
<1>12. PhasesInOrder'
  BY <1>4 DEF VmInv, PhasesInOrder
<1>13. TlbCurrent'
  BY <1>4, <1>6 DEF VmInv, TlbCurrent, Flushed, Restrict
<1>14. frame'[k] = home[p] /\ \A q \in Mapped : frame'[user_llpt[q].frame] = frame[user_llpt[q].frame]
  BY <1>3, <1>4, <1>9 DEF VmInv, VmType
<1>15. BitsInOrder'
  <2> SUFFICES ASSUME NEW q \in Mapped'
               PROVE  /\ ~user_llpt'[q].A => access.page = q
                      /\ ~user_llpt'[q].D => frame'[user_llpt'[q].frame] = home[q]
    BY <1>4 DEF BitsInOrder
  <2>1. CASE q = p
    BY <1>14, <1>10, <2>1
  <2>2. CASE q # p
    <3>1. q \in Mapped /\ user_llpt'[q] = user_llpt[q]
      BY <1>6, <1>7, <2>2 DEF Mapped
    <3>2. /\ ~user_llpt[q].A => access.page = q
          /\ ~user_llpt[q].D => frame[user_llpt[q].frame] = home[q]
      BY <3>1 DEF VmInv, BitsInOrder
    <3>3. frame'[user_llpt[q].frame] = frame[user_llpt[q].frame]
      BY <1>14, <3>1
    <3>4. QED BY <3>1, <3>2, <3>3
  <2>3. QED BY <2>1, <2>2
<1>16. ViewIsFlat'
  <2> SUFFICES ASSUME NEW q \in Pages
               PROVE  UserView(q)' = flat[q]
    BY <1>4 DEF ViewIsFlat
  <2>1. UserView(q) = flat[q]
    BY DEF VmInv, ViewIsFlat
  <2>2. CASE q = p
    BY <1>5, <1>6, <1>14, <2>1, <2>2 DEF UserView, Mapped
  <2>3. CASE q # p
    BY <1>4, <1>6, <1>14, <2>1, <2>3 DEF UserView, Mapped
  <2>4. QED BY <2>2, <2>3
<1>17. EvictedHome'
  BY <1>4, PageNumbers DEF EvictedHome
<1>18. FramesApart'
  <2>1. \A q \in Mapped : user_llpt'[q].frame = user_llpt[q].frame
    BY <1>6 DEF Mapped
  <2>2. QED BY <1>7, <1>9, <1>10, <2>1 DEF VmInv, FramesApart
<1>19. NodeOfPage'
  <2> SUFFICES ASSUME NEW q \in Pages
               PROVE  node'[User(q)].addr = user_llpt'[q].frame
    BY DEF NodeOfPage
  <2>1. CASE q = p
    BY <1>10, <2>1
  <2>2. CASE q # p
    <3>1. node[User(q)].addr = user_llpt[q].frame
      BY PageNumbers DEF VmInv, NodeOfPage
    <3>2. QED BY <1>6, <1>8, <2>2, <3>1, PageNumbers
  <2>3. QED BY <2>1, <2>2
<1>20. FreeNodes'
  <2>1. p \in Indices
    BY PageNumbers
  <2>2. \A i \in Indices : node'[User(i)].next \in {Free(j) : j \in Indices} \cup {NULL}
    <3> SUFFICES ASSUME NEW i \in Indices
                 PROVE  node'[User(i)].next \in {Free(j) : j \in Indices} \cup {NULL}
      OBVIOUS
    <3>1. CASE i = p
      BY <1>1, <1>10, <3>1
    <3>2. CASE i # p
      BY <1>2, <1>8, <3>2 DEF FreeNodes
    <3>3. QED BY <3>1, <3>2
  <2>3. ASSUME NEW i \in Indices
        PROVE  /\ node'[Free(i)].addr \in Frames
               /\ node'[Free(i)].next = IF i = MAX_TEST_PAGES - 1 THEN NULL ELSE Free(i + 1)
    BY <1>2, <1>8 DEF FreeNodes
  <2>4. \A i, j \in Indices : node'[Free(i)].addr = node'[Free(j)].addr => i = j
    BY <1>2, <1>8 DEF FreeNodes
  <2>5. QED BY <2>2, <2>3, <2>4 DEF FreeNodes
<1>21. FreeAfterMapped'
  <2>1. freelist_head' = Free(Cardinality(Mapped'))
    BY <1>4, <1>7
  <2>2. ASSUME NEW q \in Mapped'
        PROVE  \E i \in Indices : i < h + 1 /\ user_llpt'[q].frame = node'[Free(i)].addr
    <3>1. CASE q = p
      <4>1. h < h + 1
        BY <1>1
      <4>2. user_llpt'[q].frame = node'[Free(h)].addr
        BY <1>1, <1>8, <1>10, <3>1
      <4>3. QED BY <1>1, <4>1, <4>2
    <3>2. CASE q # p
      <4>1. q \in Mapped /\ user_llpt'[q] = user_llpt[q]
        BY <1>6, <1>7, <3>2 DEF Mapped
      <4>2. PICK i \in Indices : i < h /\ user_llpt[q].frame = node[Free(i)].addr
        BY <1>2, <4>1 DEF FreeAfterMapped, h
      <4>3. i < h + 1
        BY <1>1, <4>2 DEF Indices
      <4>4. user_llpt'[q].frame = node'[Free(i)].addr
        BY <1>8, <4>1, <4>2
      <4>5. QED BY <4>3, <4>4
    <3>3. QED BY <3>1, <3>2
  <2>3. QED BY <1>7, <2>1, <2>2 DEF FreeAfterMapped
<1>22. QED BY <1>11, <1>12, <1>13, <1>15, <1>16, <1>17, <1>18, <1>19, <1>20, <1>21 DEF VmInv

-----------------------------------------------------------------------------
(* A fault: what the cache did not allow the table does not allow either,  *)
(* so that no assertion of the handler fails.                              *)
LEMMA FaultStep ==
  ASSUME VmInv, FramesInDram, NEW p \in Pages, NEW kind, Fault(p, kind),
         evicting = 0, access.page = p
  PROVE  VmInv'
<1>1. ~Sufficient(user_llpt[p], kind) /\ handle_fault(p, kind)
  BY TranslationIsTable DEF Fault
<1>2. CASE p \in Mapped
  <2>1. user_llpt[p] # Unmapped
    BY <1>2 DEF Mapped
  <2>2. user_llpt[p].A => ~user_llpt[p].D /\ kind = "store"
    BY <1>1, <2>1 DEF Sufficient
  <2>3. MarkPage(p, "A") \/ (user_llpt[p].A /\ MarkPage(p, "D"))
    BY <1>1, <2>1, <2>2 DEF handle_fault
  <2>4. UNCHANGED <<access, evicting, code>>
    BY <2>3 DEF MarkPage
  <2>5. QED BY <1>2, <2>3, <2>4, MarkedEntry
<1>3. CASE p \in Pages \ Mapped
  <2>1. user_llpt[p] = Unmapped /\ user_llpt[p].frame = 0
    BY <1>3, Entries DEF VmInv
  <2>2. freelist_head = Free(Cardinality(Mapped)) /\ Cardinality(Mapped) \in Indices
    BY <1>3, NodesSuffice, PageNumbers DEF VmInv, FreeAfterMapped, Indices
  <2>3. freelist_head # NULL
    BY <2>2, NodesDiffer
  <2>4. node[User(p)].addr = 0
    BY <2>1, PageNumbers DEF VmInv, NodeOfPage
  <2>5. MapPage(p)
    BY <1>1, <2>1, <2>3, <2>4 DEF handle_fault
  <2>6. QED BY <1>3, <2>5, MapStep
<1>4. QED BY <1>2, <1>3

LEMMA TryStep ==
  ASSUME VmInv, FramesInDram, Try
  PROVE  VmInv'
<1>1. /\ evicting = 0 /\ access # Idle
      /\ access.page \in Pages /\ (access.kind = "store" => access.value \in Contents)
  <2>1. \/ access \in [page : UserPages, kind : {"load", "fetch"}, value : {0}]
        \/ access \in [page : UserPages, kind : {"store"}, value : Contents]
    BY DEF Try, VmInv, VmType
  <2>2. QED BY <2>1, VmAssumption DEF Try, Running
<1>2. \/ Complete(access.page, access.kind, access.value)
      \/ HardwareSets(access.page, access.kind)
      \/ Fault(access.page, access.kind)
  BY DEF Try
<1>3. QED BY <1>1, <1>2, CompleteStep, HardwareStep, FaultStep

-----------------------------------------------------------------------------
(* The user_mapping element goes on the list without its address; no other *)
(* node's address changes.                                                 *)
LEMMA AppendStep ==
  ASSUME VmType, FramesInDram, NEW p \in Pages, Append(p)
  PROVE  /\ node' \in [Nodes -> [addr : 0 .. MAX_TEST_PAGES, next : Nodes \cup {NULL}]]
         /\ {freelist_head', freelist_tail'} \subseteq Nodes \cup {NULL}
         /\ \A n \in Nodes \ {User(p)} : node'[n].addr = node[n].addr
<1> DEFINE Node == [addr : 0 .. MAX_TEST_PAGES, next : Nodes \cup {NULL}]
           cleared == [node EXCEPT ![User(p)].addr = 0]
<1>1. node \in [Nodes -> Node] /\ User(p) \in Nodes /\ freelist_tail \in Nodes \cup {NULL}
  BY PageNumbers DEF VmType
<1>2. 0 \in 0 .. MAX_TEST_PAGES
  BY PageNumbers
<1>3. cleared \in [Nodes -> Node]
  BY <1>1, <1>2
<1>4. \A n \in Nodes \ {User(p)} : cleared[n].addr = node[n].addr
  BY <1>1
<1>5. node' = IF freelist_tail = NULL THEN cleared
              ELSE [cleared EXCEPT ![freelist_tail].next = User(p)]
  BY DEF Append
<1>6. freelist_head' \in {User(p), freelist_head} /\ freelist_tail' = User(p)
  BY DEF Append
<1> HIDE DEF cleared
<1>7. CASE freelist_tail = NULL
  BY <1>1, <1>3, <1>4, <1>5, <1>6, <1>7 DEF VmType
<1>8. CASE freelist_tail # NULL
  <2>1. freelist_tail \in Nodes /\ node' = [cleared EXCEPT ![freelist_tail].next = User(p)]
    BY <1>1, <1>5, <1>8
  <2>2. node' \in [Nodes -> Node]
    BY <1>1, <1>3, <2>1
  <2>3. \A n \in Nodes : node'[n].addr = cleared[n].addr
    BY <1>3, <2>1
  <2>4. QED BY <1>1, <1>4, <1>6, <2>2, <2>3 DEF VmType
<1>9. QED BY <1>7, <1>8

(* evict: a page that was mapped was accessed, and one that differs from   *)
(* its copy at home is dirty, so that no assertion fails.                  *)
LEMMA EvictStep ==
  ASSUME VmInv, FramesInDram, evict
  PROVE  VmInv'
<1> DEFINE p == evicting
<1>1. /\ code = 0 /\ p \in Pages /\ access = Idle
      /\ UNCHANGED <<user_llpt, frame, tlb, access, flat>>
      /\ Mapped' = Mapped
  BY PageNumbers DEF evict, VmInv, PhasesInOrder, Mapped
<1>2. /\ MAX_TEST_PAGES \in Nat \ {0, 1} /\ p \in Nat \ {0} /\ p + 1 <= MAX_TEST_PAGES
      /\ \A q \in Pages : q \in Nat
  BY <1>1, PageNumbers
<1>3. node[User(p)].addr = user_llpt[p].frame
  BY <1>1, <1>2 DEF VmInv, NodeOfPage
<1>4. UserView(p) = flat[p]
  BY <1>1 DEF VmInv, ViewIsFlat
<1>5. TlbCurrent'
  BY <1>1 DEF VmInv, TlbCurrent
<1>6. CASE node[User(p)].addr = 0
  <2>1. evicting' = p + 1 /\ UNCHANGED <<lists, home, code>>
    BY <1>6 DEF evict
  <2>2. p \notin Mapped
    BY <1>3, <1>6, Entries DEF VmInv
  <2>3. VmType' /\ PhasesInOrder'
    BY <1>1, <1>2, <2>1 DEF VmInv, VmType, PhasesInOrder, lists
  <2>4. BitsInOrder' /\ ViewIsFlat'
    BY <1>1, <2>1 DEF VmInv, BitsInOrder, ViewIsFlat, UserView
  <2>5. EvictedHome'
    <3>1. home[p] = flat[p]
      BY <1>1, <1>4, <2>2 DEF UserView, Mapped
    <3>2. QED BY <1>1, <1>2, <2>1, <3>1 DEF VmInv, EvictedHome
  <2>6. QED BY <1>1, <1>2, <1>5, <2>1, <2>3, <2>4, <2>5, PlacesKept DEF VmInv
<1>7. CASE node[User(p)].addr # 0
  <2>1. p \in Mapped
    BY <1>1, <1>3, <1>7, Entries DEF VmInv
  <2>2. user_llpt[p].A /\ UserView(p) = frame[user_llpt[p].frame]
    BY <1>1, <2>1, IdleIsAccessed DEF UserView, Mapped
  <2>3. UserView(p) # home[p] => user_llpt[p].D
    BY <2>1, <2>2 DEF VmInv, BitsInOrder
  <2>4. /\ home' = [home EXCEPT ![p] = UserView(p)]
        /\ Append(p) /\ evicting' = p + 1 /\ UNCHANGED code
    BY <1>7, <2>2, <2>3 DEF evict
  <2>5. home \in [Pages -> Contents] /\ flat \in [Pages -> Contents]
    BY DEF VmInv, VmType
  <2>6. /\ home' \in [Pages -> Contents] /\ home'[p] = UserView(p)
        /\ \A q \in Pages \ {p} : home'[q] = home[q]
    BY <1>1, <1>4, <2>4, <2>5
  <2>7. /\ node' \in [Nodes -> [addr : 0 .. MAX_TEST_PAGES, next : Nodes \cup {NULL}]]
        /\ {freelist_head', freelist_tail'} \subseteq Nodes \cup {NULL}
        /\ \A n \in Nodes \ {User(p)} : node'[n].addr = node[n].addr
    BY <1>1, <2>4, AppendStep DEF VmInv
  <2>8. VmType' /\ PhasesInOrder'
    BY <1>1, <1>2, <2>4, <2>5, <2>6, <2>7 DEF VmInv, VmType, PhasesInOrder
  <2>9. BitsInOrder'
    BY <1>1, <2>2, <2>6 DEF VmInv, BitsInOrder, Mapped
  <2>10. ViewIsFlat'
    BY <1>1, <2>1, <2>6 DEF VmInv, ViewIsFlat, UserView, Mapped
  <2>11. EvictedHome'
    BY <1>1, <1>2, <1>4, <2>4, <2>6 DEF VmInv, EvictedHome
  <2>12. FramesApart'
    BY <1>1 DEF VmInv, FramesApart
  <2>13. NodeOfPage'
    <3> SUFFICES ASSUME NEW q \in Pages, q >= p + 1
                 PROVE  node'[User(q)].addr = user_llpt[q].frame
      BY <1>1, <2>4 DEF NodeOfPage
    <3>1. q # p /\ q >= p
      BY <1>2
    <3>2. User(q) \in Nodes \ {User(p)}
      BY <3>1, NodesDiffer, PageNumbers
    <3>3. node[User(q)].addr = user_llpt[q].frame
      BY <3>1 DEF VmInv, NodeOfPage
    <3>4. QED BY <2>7, <3>2, <3>3
  <2>14. evicting' # 0
    BY <1>2, <2>4
  <2>15. QED BY <1>5, <2>8, <2>9, <2>10, <2>11, <2>12, <2>13, <2>14 DEF VmInv
<1>8. QED BY <1>6, <1>7

LEMMA VmStep == ASSUME FramesInDram PROVE VmInv /\ [Next]_vars => VmInv'
<1> SUFFICES ASSUME VmInv, [Next]_vars PROVE VmInv'
  OBVIOUS
<1>1. CASE \E p \in UserPages, c \in Contents : Begin(p, "store", c)
  BY <1>1, BeginStep
<1>2. CASE \E p \in UserPages, kind \in {"load", "fetch"} : Begin(p, kind, 0)
  BY <1>2, BeginStep
<1>3. CASE \E p \in UserPages : TlbFill(p) \/ TlbDrop(p)
  BY <1>3, TlbStep
<1>4. CASE Spin \/ UNCHANGED vars
  BY <1>4, IdleStep DEF Spin
<1>5. QED
  BY <1>1, <1>2, <1>3, <1>4, TryStep, EcallStep, EvictStep, TerminateStep DEF Next

(* vm_boot links all the nodes, in the order of the register.              *)
LEMMA VmStart ==
  ASSUME Assumptions, Init
  PROVE  VmInv
<1>1. PICK start \in Starts :
        node = [n \in Nodes |->
                  IF n[1] = "user_mapping" THEN [addr |-> 0, next |-> NULL]
                  ELSE [addr |-> FrameOrder(start)[n[2]],
                        next |-> IF n[2] = MAX_TEST_PAGES - 1 THEN NULL
                                 ELSE Free(n[2] + 1)]]
  BY DEF Init, Starts
<1> DEFINE order == FrameOrder(start)
           M == MAX_TEST_PAGES
<1>2. /\ order \in [Indices -> Frames]
      /\ \A i, j \in Indices : order[i] = order[j] => i = j
      /\ M \in Nat \ {0, 1} /\ FramesInDram
  BY DEF Assumptions, FramesInDram, FullPeriod
<1>3. \A i \in Indices : /\ node[Free(i)].addr = order[i]
                         /\ node[Free(i)].next = IF i = M - 1 THEN NULL ELSE Free(i + 1)
  <2> TAKE i \in Indices
  <2>1. Free(i)[1] = "freelist_nodes" /\ Free(i)[2] = i
    BY DEF Free
  <2>2. node[Free(i)] = [addr |-> order[i],
                         next |-> IF i = M - 1 THEN NULL ELSE Free(i + 1)]
    BY <1>1, <2>1, NodesDiffer
  <2> HIDE DEF order, M
  <2>3. QED BY <2>2
<1>4. \A i \in Indices : node[User(i)] = [addr |-> 0, next |-> NULL]
  <2> SUFFICES ASSUME NEW i \in Indices
               PROVE  node[User(i)] = [addr |-> 0, next |-> NULL]
    OBVIOUS
  <2>1. User(i)[1] = "user_mapping"
    BY DEF User
  <2>2. QED BY <1>1, <2>1, NodesDiffer
<1>5. \A i \in Indices : i # M - 1 => i + 1 \in Indices
  BY <1>2 DEF Indices
<1>6. node \in [Nodes -> [addr : 0 .. MAX_TEST_PAGES, next : Nodes \cup {NULL}]]
  <2> DEFINE Node == [addr : 0 .. MAX_TEST_PAGES, next : Nodes \cup {NULL}]
  <2>1. node = [n \in Nodes |-> node[n]]
    BY <1>1
  <2>2. \A i \in Indices : order[i] \in 0 .. M
    BY <1>2 DEF Frames
  <2>3. ASSUME NEW i \in Indices
        PROVE  node[Free(i)] \in Node
    <3>1. Free(i)[1] = "freelist_nodes" /\ Free(i)[2] = i /\ Free(i) \in Nodes
      BY NodesDiffer DEF Free
    <3>2. node[Free(i)] = [addr |-> order[i],
                           next |-> IF i = M - 1 THEN NULL ELSE Free(i + 1)]
      BY <1>1, <3>1
    <3>3. (IF i = M - 1 THEN NULL ELSE Free(i + 1)) \in Nodes \cup {NULL}
      BY <1>5, NodesDiffer
    <3>4. QED BY <2>2, <3>2, <3>3
  <2>4. ASSUME NEW i \in Indices
        PROVE  node[User(i)] \in Node
    BY <1>2, <1>4
  <2> HIDE DEF Node
  <2>5. \A n \in Nodes : node[n] \in Node
    BY <2>3, <2>4, NodesDiffer
  <2>6. node \in [Nodes -> Node]
    BY <2>1, <2>5
  <2>7. QED BY <2>6 DEF Node
<1> HIDE DEF order
<1>7. /\ freelist_head = Free(0) /\ freelist_tail = Free(M - 1)
      /\ user_llpt = [p \in Pages |-> Unmapped]
      /\ DOMAIN tlb = {}
      /\ flat = home /\ access = Idle /\ evicting = 0 /\ code = 0
  BY DEF Init
<1>8. home \in [Pages -> Contents] /\ frame \in [Frames -> Contents]
  BY DEF Init, Frames
<1>9. Mapped = {}
  BY <1>7 DEF Mapped
<1>10. VmType
  <2>1. 0 \in Indices /\ M - 1 \in Indices
    BY <1>2 DEF Indices
  <2>2. QED BY <1>6, <1>7, <1>8, <2>1, NodesDiffer DEF VmType
<1>11. PhasesInOrder
  BY <1>2, <1>7 DEF PhasesInOrder
<1>12. TlbCurrent /\ BitsInOrder /\ FramesApart
  BY <1>7, <1>9 DEF TlbCurrent, BitsInOrder, FramesApart
<1>13. ViewIsFlat
  BY <1>7 DEF ViewIsFlat, UserView
<1>14. EvictedHome
  BY <1>7 DEF EvictedHome
<1>15. NodeOfPage
  BY <1>2, <1>4, <1>9, <1>10, Entries, PageNumbers DEF NodeOfPage
<1>16. FreeNodes
  BY <1>2, <1>3, <1>4 DEF FreeNodes
<1>17. FreeAfterMapped
  BY <1>7, <1>9, FS_EmptySet DEF FreeAfterMapped
<1>18. QED BY <1>10, <1>11, <1>12, <1>13, <1>14, <1>15, <1>16, <1>17 DEF VmInv

LEMMA VmInvAlways == ASSUME Assumptions PROVE Spec => []VmInv
<1>1. FramesInDram
  BY DEF Assumptions
<1>2. Init => VmInv
  BY VmStart
<1>3. VmInv /\ [Next]_vars => VmInv'
  BY <1>1, VmStep
<1>4. QED BY <1>2, <1>3, PTL DEF Spec

-----------------------------------------------------------------------------
(* The assertions of handle_fault and evict never fail, for every test and *)
(* every MMU, whether it sets the A and D bits itself or not.              *)
THEOREM AssertionsNeverFail == ASSUME Assumptions PROVE Spec => []AssertionsHold
<1>1. VmInv => AssertionsHold
  BY DEF VmInv, PhasesInOrder, AssertionsHold
<1>2. QED BY <1>1, VmInvAlways, PTL

(* handle_fault's copies, evict's and the cache of translations: the test  *)
(* sees one flat memory.                                                   *)
THEOREM MemoryIsFlat == ASSUME Assumptions PROVE Spec => []FlatMemory
<1>1. VmInv => FlatMemory
  BY DEF VmInv, FlatMemory, ViewIsFlat, TlbCurrent, UserView
<1>2. QED BY <1>1, VmInvAlways, PTL

(* The loop at ECALL: at the exit every page is back home.                 *)
THEOREM AllWrittenBack == ASSUME Assumptions PROVE Spec => []WrittenBack
<1>1. FramesInDram
  BY DEF Assumptions
<1>2. VmInv => WrittenBack
  <2> SUFFICES ASSUME VmInv, code = 1 PROVE home = flat
    BY DEF WrittenBack
  <2>1. home \in [Pages -> Contents] /\ flat \in [Pages -> Contents]
    BY DEF VmInv, VmType
  <2>2. evicting = MAX_TEST_PAGES
    BY DEF VmInv, PhasesInOrder
  <2>3. \A p \in Pages : home[p] = flat[p]
    BY <1>1, <2>2, PageNumbers DEF VmInv, EvictedHome
  <2>4. QED BY <2>1, <2>3
<1>3. QED BY <1>2, VmInvAlways, PTL

-----------------------------------------------------------------------------
(* Natural numbers are well-ordered: for the induction along the list.     *)
LEMMA Smallest ==
  ASSUME NEW T, T \subseteq Nat, T # {}
  PROVE  \E m \in T : \A n \in T : m <= n
<1> DEFINE less == {ss \in Nat \X Nat : ss[1] < ss[2]}
<1>1. IsWellFoundedOn(less, Nat)
  BY NatLessThanWellFounded DEF OpToRel
<1>2. PICK m \in T : \A n \in T : ~(<<n, m>> \in less)
  <2> HIDE DEF less
  <2> QED BY <1>1, WFMin
<1>3. ASSUME NEW n \in T, ~(m <= n) PROVE FALSE
  <2>1. <<n, m>> \in Nat \X Nat /\ <<n, m>>[1] < <<n, m>>[2]
    BY <1>3
  <2>2. QED BY <1>2, <2>1
<1>4. QED BY <1>3

(* The nodes from Free(i) on.                                              *)
Later(i) == {Free(j) : j \in i .. MAX_TEST_PAGES - 1}

LEMMA LaterStep ==
  ASSUME FramesInDram, NEW i \in Indices
  PROVE  Later(i) = {Free(i)} \cup IF i = MAX_TEST_PAGES - 1 THEN {} ELSE Later(i + 1)
BY PageNumbers DEF Later, Indices

LEMMA MappedCount == ASSUME FramesInDram PROVE Cardinality(Mapped) \in Indices
<1>1. MAX_TEST_PAGES \in Nat \ {0, 1}
  BY PageNumbers
<1>2. IsFiniteSet(Pages) /\ Cardinality(Pages) = MAX_TEST_PAGES - 1
  BY <1>1, FS_Interval DEF Pages
<1>3. Mapped \in SUBSET Pages
  BY DEF Mapped
<1>4. /\ IsFiniteSet(Mapped) /\ Cardinality(Mapped) <= MAX_TEST_PAGES - 1
      /\ Cardinality(Mapped) \in Nat
  BY <1>2, <1>3, FS_Subset, FS_CardinalityType
<1>5. QED BY <1>1, <1>4 DEF Indices

(* While the program runs, the list is what FreeNodes says it is: the loop *)
(* along the next pointers ends, and meets each free node once.            *)
LEMMA ListOfFree ==
  ASSUME VmInv, FramesInDram, evicting = 0
  PROVE  OnFreelist = Later(Cardinality(Mapped))
<1> DEFINE from[n \in Nodes \cup {NULL}] ==
             IF n = NULL THEN {} ELSE {n} \cup from[node[n].next]
           tail(n) == IF n = NULL THEN {} ELSE Later(n[2])
           W == [n \in Nodes \cup {NULL} |->
                   IF \E i \in Indices : n = User(i) THEN {n} \cup tail(node[n].next)
                   ELSE tail(n)]
           M == MAX_TEST_PAGES
<1>1. /\ M \in Nat \ {0, 1} /\ FreeNodes /\ FreeAfterMapped
      /\ \A i \in Indices : i \in Nat
  BY PageNumbers DEF VmInv
<1>2. \A i \in Indices : tail(Free(i)) = Later(i)
  BY NodesDiffer DEF Free
<1>3. tail(NULL) = {} /\ W[NULL] = {}
  BY NodesDiffer
<1>4. \A i \in Indices : W[Free(i)] = Later(i)
  BY <1>2, NodesDiffer
<1>5. \A i \in Indices : W[User(i)] = {User(i)} \cup tail(node[User(i)].next)
  BY NodesDiffer
<1> HIDE DEF tail
<1>6. ASSUME NEW n \in Nodes \cup {NULL}
      PROVE  W[n] = IF n = NULL THEN {} ELSE {n} \cup W[node[n].next]
  <2> HIDE DEF W
  <2>1. CASE n = NULL
    BY <1>3, <2>1
  <2>2. ASSUME NEW i \in Indices, n = Free(i)
        PROVE  W[n] = {n} \cup W[node[n].next]
    <3>1. CASE i = M - 1
      BY <1>1, <1>3, <1>4, <2>2, <3>1, LaterStep DEF FreeNodes
    <3>2. CASE i # M - 1
      <4>1. i + 1 \in Indices
        BY <1>1, <3>2 DEF Indices
      <4>2. node[n].next = Free(i + 1)
        BY <1>1, <2>2, <3>2 DEF FreeNodes
      <4>3. QED BY <1>4, <2>2, <3>2, <4>1, <4>2, LaterStep
    <3>3. QED BY <3>1, <3>2
  <2>3. ASSUME NEW i \in Indices, n = User(i)
        PROVE  W[n] = {n} \cup W[node[n].next]
    <3>1. CASE node[n].next = NULL
      BY <1>3, <1>5, <2>3, <3>1
    <3>2. ASSUME NEW j \in Indices, node[n].next = Free(j)
          PROVE  W[n] = {n} \cup W[node[n].next]
      BY <1>2, <1>4, <1>5, <2>3, <3>2
    <3>3. QED BY <1>1, <2>3, <3>1, <3>2 DEF FreeNodes
  <2>4. QED BY <2>1, <2>2, <2>3, NodesDiffer
<1>7. \E f : f = [n \in Nodes \cup {NULL} |->
                   IF n = NULL THEN {} ELSE {n} \cup f[node[n].next]]
  <2>1. W = [n \in Nodes \cup {NULL} |-> W[n]]
    OBVIOUS
  <2> HIDE DEF W
  <2>2. W = [n \in Nodes \cup {NULL} |->
              IF n = NULL THEN {} ELSE {n} \cup W[node[n].next]]
    BY <1>6, <2>1
  <2>3. QED BY <2>2
<1>8. from = [n \in Nodes \cup {NULL} |->
               IF n = NULL THEN {} ELSE {n} \cup from[node[n].next]]
  BY <1>7
<1>9. OnFreelist = from[freelist_head]
  BY DEF OnFreelist
<1> HIDE DEF from
<1>10. /\ from[NULL] = {}
       /\ \A i \in Indices :
            from[Free(i)] = {Free(i)} \cup
                            IF i = M - 1 THEN {} ELSE from[Free(i + 1)]
  <2>1. from[NULL] = {}
    BY <1>8
  <2>2. ASSUME NEW i \in Indices
        PROVE  from[Free(i)] = {Free(i)} \cup IF i = M - 1 THEN {} ELSE from[Free(i + 1)]
    <3>1. Free(i) \in Nodes /\ Free(i) # NULL
      BY NodesDiffer
    <3>2. from[Free(i)] = {Free(i)} \cup from[node[Free(i)].next]
      BY <1>8, <3>1
    <3>3. node[Free(i)].next = IF i = M - 1 THEN NULL ELSE Free(i + 1)
      BY <1>1 DEF FreeNodes
    <3>4. QED BY <2>1, <3>2, <3>3
  <2>3. QED BY <2>1, <2>2
<1>11. \A i \in Indices : from[Free(i)] = Later(i)
  <2> DEFINE T == {k \in 0 .. M - 1 : from[Free(M - 1 - k)] # Later(M - 1 - k)}
  <2>1. T = {}
    <3> SUFFICES ASSUME T # {} PROVE FALSE
      OBVIOUS
    <3>1. T \subseteq Nat
      BY <1>1
    <3>2. PICK k \in T : \A n \in T : k <= n
      <4> HIDE DEF T
      <4> QED BY <3>1, Smallest
    <3> DEFINE i == M - 1 - k
    <3>3. k \in 0 .. M - 1 /\ i \in Indices /\ from[Free(i)] # Later(i)
      BY <1>1 DEF Indices
    <3>4. CASE k = 0
      <4>1. i = M - 1
        BY <1>1, <3>4
      <4>2. QED BY <1>10, <3>3, <4>1, LaterStep
    <3>5. CASE k # 0
      <4>1. k - 1 \notin T /\ k - 1 \in 0 .. M - 1 /\ M - 1 - (k - 1) = i + 1 /\ i # M - 1
        BY <1>1, <3>2, <3>3, <3>5
      <4>2. from[Free(i + 1)] = Later(i + 1)
        BY <4>1
      <4>3. QED BY <1>10, <3>3, <4>1, <4>2, LaterStep
    <3>6. QED BY <3>4, <3>5
  <2>2. ASSUME NEW i \in Indices PROVE from[Free(i)] = Later(i)
    <3>1. M - 1 - i \in 0 .. M - 1 /\ M - 1 - (M - 1 - i) = i
      BY <1>1 DEF Indices
    <3>2. M - 1 - i \notin T
      BY <2>1
    <3>3. QED BY <3>1, <3>2
  <2>3. QED BY <2>2
<1>12. QED BY <1>1, <1>9, <1>11, MappedCount DEF FreeAfterMapped

(* "this must be the period of the LFSR": if it is, no frame is handed out *)
(* twice, though the list is threaded through nodes that are copied.       *)
THEOREM FramesAreExclusive == ASSUME Assumptions PROVE Spec => []FramesExclusive
<1>1. FramesInDram
  BY DEF Assumptions
<1>2. VmInv => FramesExclusive
  <2> SUFFICES ASSUME VmInv, evicting = 0 PROVE FramesExclusive
    BY DEF FramesExclusive, Running
  <2> DEFINE h == Cardinality(Mapped)
  <2>1. OnFreelist = Later(h) /\ FreeNodes /\ FreeAfterMapped /\ FramesApart
    BY <1>1, ListOfFree DEF VmInv
  <2>2. h \in Indices /\ \A i \in Indices : i \in Nat
    BY <1>1, MappedCount, PageNumbers
  <2>3. \A n \in OnFreelist : \E i \in Indices : n = Free(i) /\ h <= i
    BY <2>1, <2>2 DEF Later, Indices
  <2> HIDE DEF h
  <2>4. \A m, n \in OnFreelist : node[m].addr = node[n].addr => m = n
    BY <2>1, <2>3 DEF FreeNodes
  <2>5. ASSUME NEW q \in Mapped, NEW n \in OnFreelist
        PROVE  user_llpt[q].frame # node[n].addr
    <3>1. PICK i \in Indices : i < h /\ user_llpt[q].frame = node[Free(i)].addr
      BY <2>1 DEF FreeAfterMapped, h
    <3>2. PICK j \in Indices : n = Free(j) /\ h <= j
      BY <2>3
    <3>3. i # j
      BY <2>2, <3>1, <3>2
    <3>4. QED BY <2>1, <3>1, <3>2, <3>3 DEF FreeNodes
  <2>6. QED BY <2>1, <2>4, <2>5 DEF FramesExclusive, FramesApart, Mapped
<1>3. QED BY <1>2, VmInvAlways, PTL
=============================================================================
