---------------------------- MODULE harts_proofs ----------------------------
(***************************************************************************)
(* The barrier of benchmarks/common/util.h for every number of cores and   *)
(* whatever programs they run; the programs themselves on every schedule,  *)
(* from conditions on their text (ProgramsSound in harts).                 *)
(***************************************************************************)
EXTENDS harts, FiniteSetTheorems, SequenceTheorems, WellFoundedInduction, TLAPS

(* There are NCORES cores, and one less without one.                       *)
LEMMA CoresFinite ==
  /\ NCORES \in Nat
  /\ IsFiniteSet(Cores) /\ Cardinality(Cores) = NCORES
  /\ \A c \in Cores : /\ IsFiniteSet(Cores \ {c})
                      /\ Cardinality(Cores \ {c}) = NCORES - 1
<1>1. NCORES \in Nat \ {0}
  BY KernelsAssumption
<1>2. IsFiniteSet(Cores) /\ Cardinality(Cores) = NCORES
  BY <1>1, FS_Interval DEF Cores
<1>3. QED BY <1>1, <1>2, FS_RemoveElement

(* If one core is not counted and the count is NCORES - 1, all others are. *)
LEMMA OthersCounted ==
  ASSUME NEW c \in Cores, c \notin Counted, Cardinality(Counted) = NCORES - 1
  PROVE  Counted = Cores \ {c}
<1>1. Counted \in SUBSET (Cores \ {c})
  BY DEF Counted
<1>2. QED BY <1>1, CoresFinite, FS_Subset

LEMMA CountedFinite == IsFiniteSet(Counted)
<1>1. Counted \in SUBSET Cores
  BY DEF Counted
<1>2. QED BY <1>1, CoresFinite, FS_Subset

(* Steps outside barrier() do not matter to it.                            *)
LEMMA OutsideStep ==
  ASSUME BarrierInv, UNCHANGED barrier_vars
  PROVE  BarrierInv'
<1>1. UNCHANGED <<phase, threadsense, count, sense, crossed>>
  BY DEF barrier_vars
<1>2. Counted' = Counted
  BY <1>1 DEF Counted
<1>3. \A c \in Cores : Past(c)' = Past(c)
  BY <1>1 DEF Past, Released
<1>4. BarrierType' /\ RunnersInSense' /\ LastIsAlone'
  BY <1>1 DEF BarrierInv, BarrierType, RunnersInSense, LastIsAlone
<1>5. CountIsRight'
  BY <1>1, <1>2 DEF BarrierInv, CountIsRight
<1>6. AllAlike'
  BY <1>3 DEF BarrierInv, AllAlike
<1>7. QED BY <1>4, <1>5, <1>6 DEF BarrierInv

(* A core that arrives is counted; it is the last if all others have been. *)
LEMMA ArriveStep ==
  ASSUME BarrierInv, NEW c \in Cores, Arrive(c)
  PROVE  BarrierInv'
<1>1. /\ phase[c] = "run" /\ threadsense[c] = sense /\ sense \in {0, 1}
      /\ phase \in [Cores -> Phases] /\ threadsense \in [Cores -> {0, 1}]
      /\ UNCHANGED <<sense, crossed>>
      /\ count' = count + 1
  BY DEF Arrive, BarrierInv, BarrierType, RunnersInSense
<1>2. /\ phase' = [phase EXCEPT ![c] = IF count = NCORES - 1 THEN "last" ELSE "spin"]
      /\ threadsense' = [threadsense EXCEPT ![c] = 1 - @]
  BY DEF Arrive
<1>3. /\ threadsense'[c] # sense /\ threadsense'[c] \in {0, 1}
      /\ phase'[c] = IF count = NCORES - 1 THEN "last" ELSE "spin"
      /\ \A d \in Cores \ {c} : phase'[d] = phase[d] /\ threadsense'[d] = threadsense[d]
  BY <1>1, <1>2
<1>4. \A d \in Cores : phase[d] \notin {"last", "release"}
  BY <1>1 DEF BarrierInv, LastIsAlone
<1>5. count = Cardinality(Counted) /\ c \notin Counted
  BY <1>1, <1>4 DEF BarrierInv, CountIsRight, Counted
<1>6. Counted' = Counted \cup {c}
  BY <1>1, <1>3 DEF Counted
<1>7. count' = Cardinality(Counted')
  BY <1>1, <1>5, <1>6, CountedFinite, FS_AddElement
<1>8. BarrierType'
  BY <1>1, <1>2, <1>3 DEF BarrierInv, BarrierType, Phases
<1>9. RunnersInSense'
  BY <1>1, <1>3 DEF BarrierInv, RunnersInSense
<1>10. LastIsAlone'
  <2>1. CASE count = NCORES - 1
    <3>1. \A d \in Cores \ {c} : phase[d] = "spin" /\ threadsense[d] # sense
      BY <1>4, <1>5, <2>1, OthersCounted DEF Counted
    <3>2. QED BY <1>1, <1>3, <3>1 DEF LastIsAlone
  <2>2. CASE count # NCORES - 1
    BY <1>3, <1>4, <2>2 DEF LastIsAlone
  <2>3. QED BY <2>1, <2>2
<1>11. CountIsRight'
  <2>1. \A d \in Cores : phase'[d] # "release"
    BY <1>3, <1>4
  <2>2. QED BY <1>7, <2>1 DEF CountIsRight
<1>12. AllAlike'
  <2>1. \A d \in Cores : Released(d)' <=> Released(d)
    BY <1>1, <1>3 DEF Released
  <2>2. \A d \in Cores : Past(d)' = Past(d)
    BY <1>1, <2>1 DEF Past
  <2>3. QED BY <2>2 DEF BarrierInv, AllAlike
<1>13. QED BY <1>8, <1>9, <1>10, <1>11, <1>12 DEF BarrierInv

(* The last core resets the count while the others wait.                   *)
LEMMA ResetStep ==
  ASSUME BarrierInv, NEW c \in Cores, ResetCount(c)
  PROVE  BarrierInv'
<1>1. /\ phase[c] = "last" /\ count' = 0
      /\ phase' = [phase EXCEPT ![c] = "release"]
      /\ UNCHANGED <<threadsense, sense, crossed>>
      /\ phase \in [Cores -> Phases]
  BY DEF ResetCount, BarrierInv, BarrierType
<1>2. phase'[c] = "release" /\ \A d \in Cores \ {c} : phase'[d] = phase[d]
  BY <1>1
<1>3. BarrierType'
  BY <1>1 DEF BarrierInv, BarrierType, Phases
<1>4. RunnersInSense'
  BY <1>1, <1>2 DEF BarrierInv, RunnersInSense
<1>5. LastIsAlone'
  BY <1>1, <1>2 DEF BarrierInv, LastIsAlone
<1>6. CountIsRight'
  BY <1>1, <1>2 DEF CountIsRight
<1>7. AllAlike'
  <2>1. \A d \in Cores : Released(d)' <=> Released(d)
    BY <1>1, <1>2 DEF Released
  <2>2. \A d \in Cores : Past(d)' = Past(d)
    BY <1>1, <2>1 DEF Past
  <2>3. QED BY <2>2 DEF BarrierInv, AllAlike
<1>8. QED BY <1>3, <1>4, <1>5, <1>6, <1>7 DEF BarrierInv

(* The sense is reversed: all are released at once, and none is counted.   *)
LEMMA ReverseStep ==
  ASSUME BarrierInv, NEW c \in Cores, ReverseSense(c)
  PROVE  BarrierInv'
<1>1. /\ phase[c] = "release" /\ sense' = threadsense[c]
      /\ phase' = [phase EXCEPT ![c] = "run"]
      /\ crossed' = [crossed EXCEPT ![c] = @ + 1]
      /\ UNCHANGED <<threadsense, count>>
  BY DEF ReverseSense, Leave
<1>2. /\ phase \in [Cores -> Phases] /\ threadsense \in [Cores -> {0, 1}]
      /\ sense \in {0, 1} /\ crossed \in [Cores -> Nat]
  BY DEF BarrierInv, BarrierType
<1>3. /\ threadsense[c] # sense
      /\ \A d \in Cores \ {c} : phase[d] = "spin" /\ threadsense[d] # sense
  BY <1>1 DEF BarrierInv, LastIsAlone
<1>4. /\ phase'[c] = "run" /\ crossed'[c] = crossed[c] + 1
      /\ \A d \in Cores \ {c} : phase'[d] = "spin" /\ crossed'[d] = crossed[d]
  BY <1>1, <1>2, <1>3
<1>5. \A d \in Cores : threadsense'[d] = sense'
  BY <1>1, <1>2, <1>3
<1>6. BarrierType'
  BY <1>1, <1>2 DEF BarrierType, Phases
<1>7. RunnersInSense'
  BY <1>5 DEF RunnersInSense
<1>8. LastIsAlone'
  BY <1>4 DEF LastIsAlone
<1>9. CountIsRight'
  <2>1. count = 0
    BY <1>1 DEF BarrierInv, CountIsRight
  <2>2. Counted' = {}
    BY <1>5 DEF Counted
  <2>3. QED BY <1>1, <2>1, <2>2, FS_EmptySet DEF CountIsRight
<1>10. AllAlike'
  <2>1. \A d \in Cores : ~Released(d)
    BY <1>1, <1>3 DEF Released
  <2>2. \A d \in Cores : Released(d)' <=> d # c
    BY <1>4, <1>5 DEF Released
  <2>3. \A d \in Cores : Past(d)' = Past(d) + 1
    BY <1>2, <1>4, <2>1, <2>2 DEF Past
  <2>4. QED BY <2>3 DEF BarrierInv, AllAlike
<1>11. QED BY <1>6, <1>7, <1>8, <1>9, <1>10 DEF BarrierInv

(* A released core leaves; one that waits goes on waiting.                 *)
LEMMA SpinStep ==
  ASSUME BarrierInv, NEW c \in Cores, Spin(c)
  PROVE  BarrierInv'
<1>1. CASE UNCHANGED vars
  BY <1>1, OutsideStep DEF vars, barrier_vars
<1>2. CASE sense = threadsense[c] /\ Leave(c) /\ UNCHANGED sense
  <2>1. /\ phase[c] = "spin"
        /\ phase' = [phase EXCEPT ![c] = "run"]
        /\ crossed' = [crossed EXCEPT ![c] = @ + 1]
        /\ UNCHANGED <<threadsense, count, sense>>
    BY <1>2 DEF Spin, Leave
  <2>2. /\ phase \in [Cores -> Phases] /\ crossed \in [Cores -> Nat]
    BY DEF BarrierInv, BarrierType
  <2>3. /\ phase'[c] = "run" /\ crossed'[c] = crossed[c] + 1
        /\ \A d \in Cores \ {c} : phase'[d] = phase[d] /\ crossed'[d] = crossed[d]
    BY <2>1, <2>2
  <2>4. BarrierType'
    BY <2>1, <2>2 DEF BarrierInv, BarrierType, Phases
  <2>5. RunnersInSense'
    BY <1>2, <2>1, <2>3 DEF BarrierInv, RunnersInSense
  <2>6. \A d \in Cores : phase[d] \notin {"last", "release"}
    BY <1>2, <2>1 DEF BarrierInv, LastIsAlone
  <2>7. LastIsAlone'
    BY <2>3, <2>6 DEF LastIsAlone
  <2>8. CountIsRight'
    <3>1. Counted' = Counted
      BY <1>2, <2>1, <2>3 DEF Counted
    <3>2. QED BY <2>1, <2>3, <2>6, <3>1 DEF BarrierInv, CountIsRight
  <2>9. AllAlike'
    <3>1. Released(c) /\ ~Released(c)'
      BY <1>2, <2>1, <2>3 DEF Released
    <3>2. \A d \in Cores \ {c} : Released(d)' <=> Released(d)
      BY <2>1, <2>3 DEF Released
    <3>3. \A d \in Cores : Past(d)' = Past(d)
      BY <2>2, <2>3, <3>1, <3>2 DEF Past
    <3>4. QED BY <3>3 DEF BarrierInv, AllAlike
  <2>10. QED BY <2>4, <2>5, <2>7, <2>8, <2>9 DEF BarrierInv
<1>3. QED BY <1>1, <1>2 DEF Spin

LEMMA BarrierStep == BarrierInv /\ [Next]_vars => BarrierInv'
<1> SUFFICES ASSUME BarrierInv, [Next]_vars PROVE BarrierInv'
  OBVIOUS
<1>1. ASSUME NEW c \in Cores, barrier(c) PROVE BarrierInv'
  BY <1>1, ArriveStep, ResetStep, ReverseStep, SpinStep DEF barrier
<1>2. ASSUME NEW c \in Cores, EndStep(c) \/ get_lock(c) \/ put_lock(c)
      PROVE  BarrierInv'
  BY <1>2, OutsideStep DEF EndStep, get_lock, put_lock
<1>3. CASE End \/ UNCHANGED vars
  BY <1>3, OutsideStep DEF End, vars, barrier_vars
<1>4. QED BY <1>1, <1>2, <1>3 DEF Next, HartStep

LEMMA BarrierStart == Init => BarrierInv
<1> SUFFICES ASSUME Init PROVE BarrierInv
  OBVIOUS
<1>1. /\ phase = [c \in Cores |-> "run"] /\ threadsense = [c \in Cores |-> 0]
      /\ count = 0 /\ sense = 0 /\ crossed = [c \in Cores |-> 0]
  BY DEF Init
<1>2. BarrierType /\ RunnersInSense /\ LastIsAlone
  BY <1>1 DEF BarrierType, RunnersInSense, LastIsAlone, Phases
<1>3. CountIsRight
  <2>1. Counted = {}
    BY <1>1 DEF Counted
  <2>2. QED BY <1>1, <2>1, FS_EmptySet DEF CountIsRight
<1>4. AllAlike
  BY <1>1 DEF AllAlike, Past, Released
<1>5. QED BY <1>2, <1>3, <1>4 DEF BarrierInv

(* util.h's barrier(): whatever the cores run, none is past a barrier that *)
(* another has not reached, though the count is reset before the sense is  *)
(* reversed and a fast core may be at the next barrier already.            *)
THEOREM BarrierKeepsTogether == Spec => []BarrierTogether
<1>1. BarrierInv => BarrierTogether
  <2> SUFFICES ASSUME BarrierInv, NEW c \in Cores, NEW d \in Cores
               PROVE  /\ crossed[c] <= crossed[d] + 1
                      /\ crossed[c] = crossed[d] + 1 => phase[d] = "spin"
    BY DEF BarrierTogether
  <2>1. Past(c) = Past(d) /\ crossed[c] \in Nat /\ crossed[d] \in Nat
    BY DEF BarrierInv, BarrierType, AllAlike
  <2>2. QED BY <2>1 DEF Past, Released
<1>2. QED BY <1>1, BarrierStart, BarrierStep, PTL DEF Spec

-----------------------------------------------------------------------------
(* The programs.  A step further there is one more barrier behind, or the  *)
(* same number; the lock is held from one step to the next.                *)
LEMMA BarriersStep ==
  ASSUME NEW s, NEW n \in Nat \ {0}
  PROVE  /\ Barriers(s, n) \in Nat
         /\ Barriers(s, n + 1) = Barriers(s, n) + IF s[n].op = "barrier" THEN 1 ELSE 0
<1> DEFINE behind(k) == {m \in 1 .. k - 1 : s[m].op = "barrier"}
<1>1. \A k : Barriers(s, k) = Cardinality(behind(k))
  BY DEF Barriers
<1>2. IsFiniteSet(behind(n))
  <2>1. IsFiniteSet(1 .. n - 1)
    BY FS_Interval
  <2>2. QED BY <2>1, FS_Subset
<1>3. CASE s[n].op = "barrier"
  <2>1. behind(n + 1) = behind(n) \cup {n} /\ n \notin behind(n)
    BY <1>3
  <2> HIDE DEF behind
  <2>2. Cardinality(behind(n)) \in Nat
    BY <1>2, FS_CardinalityType
  <2>3. Cardinality(behind(n + 1)) = Cardinality(behind(n)) + 1
    BY <1>2, <2>1, FS_AddElement
  <2>4. QED BY <1>1, <1>3, <2>2, <2>3
<1>4. CASE s[n].op # "barrier"
  <2>1. behind(n + 1) = behind(n)
    BY <1>4
  <2> HIDE DEF behind
  <2>2. Cardinality(behind(n)) \in Nat
    BY <1>2, FS_CardinalityType
  <2>3. QED BY <1>1, <1>4, <2>1, <2>2
<1>5. QED BY <1>3, <1>4

LEMMA BarriersMonotonic ==
  ASSUME NEW s, NEW m \in Nat \ {0}, NEW n \in Nat \ {0}, m <= n
  PROVE  Barriers(s, m) <= Barriers(s, n)
<1> DEFINE behind(k) == {j \in 1 .. k - 1 : s[j].op = "barrier"}
<1>1. IsFiniteSet(behind(n))
  <2>1. IsFiniteSet(1 .. n - 1)
    BY FS_Interval
  <2>2. QED BY <2>1, FS_Subset
<1>2. behind(m) \in SUBSET behind(n)
  OBVIOUS
<1>3. QED BY <1>1, <1>2, FS_Subset DEF Barriers

LEMMA NoneBehindTheFirst ==
  ASSUME NEW s
  PROVE  Barriers(s, 1) = 0 /\ ~Held(s, 1)
<1>1. {m \in 1 .. 1 - 1 : s[m].op = "barrier"} = {}
  OBVIOUS
<1>2. QED BY <1>1, FS_EmptySet DEF Barriers, Held

LEMMA HeldStep ==
  ASSUME NEW s, NEW n \in Nat \ {0}
  PROVE  Held(s, n + 1) <=> \/ s[n].op = "get_lock"
                            \/ Held(s, n) /\ s[n].op # "put_lock"
<1>1. CASE s[n].op = "get_lock"
  BY <1>1 DEF Held
<1>2. CASE s[n].op # "get_lock"
  <2>1. ASSUME Held(s, n + 1)
        PROVE  Held(s, n) /\ s[n].op # "put_lock"
    <3>1. PICK m \in 1 .. n : /\ s[m].op = "get_lock"
                              /\ \A j \in m + 1 .. n : s[j].op # "put_lock"
      BY <2>1 DEF Held
    <3>2. m \in 1 .. n - 1
      BY <1>2, <3>1
    <3>3. QED BY <3>1, <3>2 DEF Held
  <2>2. ASSUME Held(s, n), s[n].op # "put_lock"
        PROVE  Held(s, n + 1)
    <3>1. PICK m \in 1 .. n - 1 : /\ s[m].op = "get_lock"
                                  /\ \A j \in m + 1 .. n - 1 : s[j].op # "put_lock"
      BY <2>2 DEF Held
    <3>2. \A j \in m + 1 .. n : s[j].op # "put_lock"
      BY <2>2, <3>1
    <3>3. QED BY <3>1, <3>2 DEF Held
  <2>3. QED BY <1>2, <2>1, <2>2
<1>3. QED BY <1>1, <1>2

-----------------------------------------------------------------------------
(* What a step of one core does to its place in its program.               *)
LEMMA HartsInvStart ==
  ASSUME Init, Sound(code, kernel)
  PROVE  HartsInv
<1>1. BarrierInv
  BY BarrierStart
<1>2. \A c \in Cores : Len(code[c]) \in Nat /\ pos[c] = 1
  BY DEF Sound, Init
<1>3. InProgram /\ LockInv
  BY <1>2, NoneBehindTheFirst DEF InProgram, LockInv, Init
<1>4. QED BY <1>1, <1>3 DEF HartsInv

(* A core that goes on from a step that is not of the lock.                *)
LEMMA LockKept ==
  ASSUME HartsInv, NEW c \in Cores, Current(c).op \notin {"get_lock", "put_lock"},
         UNCHANGED <<code, buf_lock>>,
         pos' = [pos EXCEPT ![c] = @ + 1] \/ UNCHANGED pos
  PROVE  LockInv'
<1>1. pos \in [Cores -> Nat] /\ \A d \in Cores : pos[d] \in Nat \ {0}
  BY DEF HartsInv, InProgram, Sound
<1>2. \A d \in Cores : Held(code[d], pos'[d]) => Held(code[d], pos[d])
  <2> SUFFICES ASSUME NEW d \in Cores, Held(code[d], pos'[d])
               PROVE  Held(code[d], pos[d])
    OBVIOUS
  <2>1. pos'[d] = pos[d] \/ (d = c /\ pos'[d] = pos[d] + 1)
    BY <1>1
  <2>2. QED BY <1>1, <2>1, HeldStep DEF Current
<1>3. QED BY <1>2 DEF HartsInv, LockInv

(* A core at a step of the program, and one that is past it.               *)
LEMMA PlaceKept ==
  ASSUME HartsInv, NEW c \in Cores, UNCHANGED code,
         UNCHANGED pos,
         \A d \in Cores \ {c} : phase'[d] = phase[d],
         phase'[c] # "run" => At(c, "barrier"), UNCHANGED crossed
  PROVE  InProgram'
<1>1. \A d \in Cores : At(d, "barrier")' <=> At(d, "barrier")
  BY DEF At, Finished, Current
<1>2. QED BY <1>1 DEF HartsInv, InProgram

LEMMA PlaceAdvanced ==
  ASSUME HartsInv, NEW c \in Cores, UNCHANGED code, ~Finished(c), Advance(c),
         \A d \in Cores \ {c} : phase'[d] = phase[d] /\ crossed'[d] = crossed[d],
         phase'[c] = "run",
         crossed'[c] = crossed[c] + IF Current(c).op = "barrier" THEN 1 ELSE 0
  PROVE  InProgram'
<1>1. /\ pos \in [Cores -> Nat]
      /\ \A d \in Cores : Len(code[d]) \in Nat /\ pos[d] \in 1 .. Len(code[d]) + 1
  BY DEF HartsInv, InProgram, Sound
<1>2. /\ pos' \in [Cores -> Nat] /\ pos'[c] = pos[c] + 1
      /\ \A d \in Cores \ {c} : pos'[d] = pos[d]
  BY <1>1 DEF Advance
<1>3. pos'[c] \in 1 .. Len(code[c]) + 1
  BY <1>1, <1>2 DEF Finished
<1>4. crossed'[c] = Barriers(code[c], pos'[c])
  <2>1. crossed[c] = Barriers(code[c], pos[c]) /\ pos[c] \in Nat \ {0}
    BY <1>1 DEF HartsInv, InProgram
  <2>2. Barriers(code[c], pos[c] + 1)
          = Barriers(code[c], pos[c]) + IF code[c][pos[c]].op = "barrier" THEN 1 ELSE 0
    BY <2>1, BarriersStep
  <2>3. QED BY <1>2, <2>1, <2>2 DEF Current
<1>5. ASSUME NEW d \in Cores \ {c}
      PROVE  /\ pos'[d] \in 1 .. Len(code[d]) + 1
             /\ phase'[d] # "run" => At(d, "barrier")'
             /\ crossed'[d] = Barriers(code[d], pos'[d])
  BY <1>2 DEF HartsInv, InProgram, At, Finished, Current
<1>6. QED BY <1>2, <1>3, <1>4, <1>5 DEF InProgram

(* Code, get_lock and put_lock are outside barrier().                      *)
LEMMA RunsHere ==
  ASSUME HartsInv, NEW c \in Cores, ~At(c, "barrier")
  PROVE  phase[c] = "run"
BY DEF HartsInv, InProgram

(* The lock: the core that finds it open alone has it, and the one that    *)
(* has it opens it.                                                        *)
LEMMA GetLock ==
  ASSUME HartsInv, NEW c \in Cores, get_lock(c)
  PROVE  InProgram' /\ LockInv'
<1>1. /\ ~Finished(c) /\ Current(c).op = "get_lock" /\ buf_lock' = 1
      /\ UNCHANGED <<code, phase, crossed>>
      /\ phase[c] = "run"
  BY RunsHere DEF get_lock, At, program_vars, barrier_vars
<1>2. /\ pos \in [Cores -> Nat] /\ \A d \in Cores : pos[d] \in Nat \ {0}
      /\ crossed \in [Cores -> Nat]
  BY DEF HartsInv, InProgram, Sound, BarrierInv, BarrierType
<1>3. CASE buf_lock = 0
  <2>1. Advance(c) /\ \A d \in Cores \ {c} : pos'[d] = pos[d]
    BY <1>2, <1>3 DEF get_lock, Advance
  <2>2. InProgram'
    BY <1>1, <1>2, <2>1, PlaceAdvanced
  <2>3. \A d \in Cores : ~Held(code[d], pos[d])
    BY <1>3 DEF HartsInv, LockInv
  <2>4. \A d \in Cores \ {c} : ~Held(code[d], pos'[d])
    BY <2>1, <2>3
  <2>5. LockInv'
    BY <1>1, <2>4 DEF LockInv
  <2>6. QED BY <2>2, <2>5
<1>4. CASE buf_lock # 0
  <2>1. UNCHANGED pos
    BY <1>4 DEF get_lock
  <2>2. InProgram'
    BY <1>1, <2>1, PlaceKept
  <2>3. LockInv'
    BY <1>1, <2>1 DEF HartsInv, LockInv
  <2>4. QED BY <2>2, <2>3
<1>5. QED BY <1>3, <1>4

LEMMA PutLock ==
  ASSUME HartsInv, NEW c \in Cores, put_lock(c)
  PROVE  InProgram' /\ LockInv'
<1>1. /\ ~Finished(c) /\ Current(c).op = "put_lock" /\ Advance(c)
      /\ UNCHANGED <<code, phase, crossed>>
      /\ phase[c] = "run"
  BY RunsHere DEF put_lock, At, program_vars, barrier_vars
<1>2. /\ pos \in [Cores -> Nat] /\ \A d \in Cores : pos[d] \in 1 .. Len(code[d]) + 1
      /\ crossed \in [Cores -> Nat] /\ Len(code[c]) \in Nat
  BY DEF HartsInv, InProgram, Sound, BarrierInv, BarrierType
<1>3. InProgram'
  BY <1>1, <1>2, PlaceAdvanced
<1>4. Held(code[c], pos[c])
  BY <1>1, <1>2 DEF HartsInv, Sound, LocksPaired, Current, Finished
<1>5. pos'[c] = pos[c] + 1 /\ \A d \in Cores \ {c} : pos'[d] = pos[d]
  BY <1>1, <1>2 DEF Advance
<1>6. ~Held(code[c], pos'[c])
  BY <1>1, <1>2, <1>5, HeldStep DEF Current
<1>7. \A d \in Cores \ {c} : ~Held(code[d], pos'[d])
  BY <1>4, <1>5 DEF HartsInv, LockInv
<1>8. QED BY <1>1, <1>3, <1>6, <1>7 DEF LockInv

LEMMA CodeEnds ==
  ASSUME HartsInv, NEW c \in Cores, EndStep(c)
  PROVE  InProgram' /\ LockInv'
<1>1. /\ ~Finished(c) /\ Current(c).op \notin {"barrier", "get_lock", "put_lock"}
      /\ Advance(c) /\ UNCHANGED <<code, phase, crossed, buf_lock>>
      /\ phase[c] = "run"
  BY RunsHere DEF EndStep, Working, At, program_vars, barrier_vars
<1>2. crossed[c] \in Nat
  BY DEF HartsInv, BarrierInv, BarrierType
<1>3. InProgram'
  BY <1>1, <1>2, PlaceAdvanced
<1>4. LockInv'
  BY <1>1, LockKept DEF Advance
<1>5. QED BY <1>3, <1>4

LEMMA BarrierAdvances ==
  ASSUME HartsInv, NEW c \in Cores, barrier(c)
  PROVE  InProgram' /\ LockInv'
<1>1. /\ phase \in [Cores -> Phases] /\ crossed \in [Cores -> Nat]
      /\ phase[c] # "run" => At(c, "barrier")
  BY DEF HartsInv, BarrierInv, BarrierType, InProgram
<1>2. ~Finished(c) /\ Current(c).op = "barrier" /\ At(c, "barrier")
  <2>1. CASE phase[c] = "run"
    BY <2>1 DEF barrier, Arrive, ResetCount, ReverseSense, Spin, At
  <2>2. CASE phase[c] # "run"
    BY <1>1, <2>2 DEF At
  <2>3. QED BY <2>1, <2>2
<1>3. CASE Arrive(c) \/ ResetCount(c)
  <2>1. /\ UNCHANGED <<code, pos, buf_lock, crossed>>
        /\ \A d \in Cores \ {c} : phase'[d] = phase[d]
    BY <1>1, <1>3 DEF Arrive, ResetCount, program_vars
  <2>2. InProgram'
    BY <1>2, <2>1, PlaceKept
  <2>3. LockInv'
    BY <1>2, <2>1, LockKept
  <2>4. QED BY <2>2, <2>3
<1>4. CASE Leave(c)
  <2>1. /\ phase'[c] = "run" /\ crossed'[c] = crossed[c] + 1
        /\ \A d \in Cores \ {c} : phase'[d] = phase[d] /\ crossed'[d] = crossed[d]
        /\ Advance(c) /\ UNCHANGED <<code, buf_lock>>
    BY <1>1, <1>4 DEF Leave, program_vars
  <2>2. InProgram'
    BY <1>2, <2>1, PlaceAdvanced
  <2>3. LockInv'
    BY <1>2, <2>1, LockKept DEF Advance
  <2>4. QED BY <2>2, <2>3
<1>5. CASE UNCHANGED vars
  <2>1. UNCHANGED <<code, pos, buf_lock, phase, crossed>>
    BY <1>5 DEF vars
  <2>2. InProgram'
    BY <1>2, <2>1, PlaceKept
  <2>3. LockInv'
    BY <1>2, <2>1, LockKept
  <2>4. QED BY <2>2, <2>3
<1>6. QED BY <1>3, <1>4, <1>5 DEF barrier, ReverseSense, Spin

LEMMA HartsInvStep == HartsInv /\ [Next]_vars => HartsInv'
<1> SUFFICES ASSUME HartsInv, [Next]_vars PROVE HartsInv'
  OBVIOUS
<1>1. BarrierInv'
  BY BarrierStep DEF HartsInv
<1>2. UNCHANGED <<kernel, code>>
  BY DEF Next, End, HartStep, EndStep, barrier, Arrive, ResetCount, ReverseSense, Spin,
         Leave, get_lock, put_lock, program_vars, vars
<1>3. Sound(code, kernel)'
  BY <1>2 DEF HartsInv
<1>4. ASSUME NEW c \in Cores, HartStep(c) PROVE InProgram' /\ LockInv'
  BY <1>4, CodeEnds, BarrierAdvances, GetLock, PutLock DEF HartStep
<1>5. CASE UNCHANGED vars
  <2>1. UNCHANGED <<code, pos, phase, crossed, buf_lock>>
    BY <1>5 DEF vars
  <2>2. InProgram'
    BY <2>1 DEF HartsInv, InProgram, At, Finished, Current
  <2>3. LockInv'
    BY <2>1 DEF HartsInv, LockInv
  <2>4. QED BY <1>1, <1>3, <2>2, <2>3 DEF HartsInv
<1>6. QED BY <1>1, <1>3, <1>4, <1>5 DEF HartsInv, Next, End

LEMMA HartsInvAlways == ASSUME ProgramsSound PROVE Spec => []HartsInv
<1>1. Init => HartsInv
  BY HartsInvStart DEF Init, ProgramsSound
<1>2. QED BY <1>1, HartsInvStep, PTL DEF Spec

-----------------------------------------------------------------------------
(* Two cores that run code are between the same two barriers.              *)
LEMMA SameBarriers ==
  ASSUME HartsInv, NEW c \in Cores, NEW d \in Cores, phase[c] = "run", phase[d] = "run"
  PROVE  Barriers(code[c], pos[c]) = Barriers(code[d], pos[d])
<1>1. Past(c) = crossed[c] /\ Past(d) = crossed[d]
  BY DEF Past, Released, HartsInv, BarrierInv, BarrierType
<1>2. QED BY <1>1 DEF HartsInv, BarrierInv, AllAlike, InProgram

LEMMA StepOf ==
  ASSUME NEW prog
  PROVE  /\ \A d \in Cores : \A n \in 1 .. Len(prog[d]) : <<d, n>> \in StepsOf(prog)
         /\ \A e \in StepsOf(prog) : e[1] \in Cores /\ e[2] \in 1 .. Len(prog[e[1]])
BY DEF StepsOf

(* What precedes the code that a core runs is done.                        *)
LEMMA PrecedingIsDone ==
  ASSUME HartsInv, NEW c \in Cores, phase[c] = "run",
         NEW d \in Cores, NEW n \in 1 .. Len(code[d]), code[d][n].op # "barrier",
         Precedes(code, <<d, n>>, <<c, pos[c]>>)
  PROVE  n < pos[d]
<1>1. CASE d = c
  BY <1>1 DEF Precedes
<1>2. CASE d # c
  <2>1. Barriers(code[d], n) < Barriers(code[c], pos[c])
    BY <1>2 DEF Precedes
  <2>2. /\ pos[d] \in Nat \ {0} /\ pos[c] \in Nat \ {0} /\ n \in Nat \ {0}
        /\ Len(code[d]) \in Nat
    BY DEF HartsInv, InProgram, Sound
  <2>3. /\ crossed[c] = Barriers(code[c], pos[c]) /\ crossed[d] = Barriers(code[d], pos[d])
        /\ crossed[c] \in Nat /\ crossed[d] \in Nat
        /\ Past(c) = crossed[c] /\ Past(c) = Past(d)
    BY DEF HartsInv, InProgram, BarrierInv, BarrierType, AllAlike, Past, Released
  <2>4. Barriers(code[d], n) \in Nat
    BY <2>2, BarriersStep
  <2>5. CASE Released(d)
    <3>1. code[d][pos[d]].op = "barrier"
      BY <2>2, <2>5 DEF Released, HartsInv, InProgram, At, Current
    <3>2. crossed[c] = crossed[d] + 1
      BY <2>3, <2>5 DEF Past
    <3>3. Barriers(code[d], pos[d] + 1) = crossed[c]
      BY <2>2, <2>3, <3>1, <3>2, BarriersStep
    <3>4. pos[d] + 1 <= n => crossed[c] <= Barriers(code[d], n)
      BY <2>2, <3>3, BarriersMonotonic
    <3>5. n # pos[d]
      BY <3>1
    <3>6. QED BY <2>1, <2>2, <2>3, <2>4, <3>4, <3>5
  <2>6. CASE ~Released(d)
    <3>1. crossed[c] = crossed[d]
      BY <2>3, <2>6 DEF Past
    <3>2. pos[d] <= n => crossed[d] <= Barriers(code[d], n)
      BY <2>2, <2>3, BarriersMonotonic
    <3>3. QED BY <2>1, <2>2, <2>3, <2>4, <3>1, <3>2
  <2>7. QED BY <2>5, <2>6
<1>3. QED BY <1>1, <1>2

(* Code that runs is a step of the program, between barriers.              *)
LEMMA AtWork ==
  ASSUME HartsInv, NEW c \in Cores, Working(c)
  PROVE  /\ phase[c] = "run" /\ pos[c] \in 1 .. Len(code[c])
         /\ Works(code[c][pos[c]]) /\ Current(c) = code[c][pos[c]]
         /\ <<c, pos[c]>> \in StepsOf(code)
<1>1. phase[c] = "run"
  BY RunsHere DEF Working, At
<1>2. pos[c] \in 1 .. Len(code[c])
  BY DEF HartsInv, InProgram, Sound, Working, Finished
<1>3. QED BY <1>1, <1>2, StepOf DEF Working, Works, Current

(* The steps under way are between the same barriers, so they do not       *)
(* conflict unless both cores have the lock.                               *)
LEMMA InvRaceFree == HartsInv => RaceFree
<1> SUFFICES ASSUME HartsInv, kernel \notin RacyKernels,
                    NEW c \in Cores, NEW d \in Cores, c # d, Working(c), Working(d),
                    Conflict(Current(c), Current(d))
             PROVE  FALSE
  BY DEF RaceFree
<1>1. Barriers(code[c], pos[c]) = Barriers(code[d], pos[d])
  BY AtWork, SameBarriers
<1>2. ConflictsApart(code)
  BY DEF HartsInv, Sound
<1>3. Held(code[c], pos[c]) /\ Held(code[d], pos[d])
  <2>1. /\ pos[c] \in 1 .. Len(code[c]) /\ pos[d] \in 1 .. Len(code[d])
        /\ Works(code[c][pos[c]]) /\ Works(code[d][pos[d]])
        /\ Conflict(code[c][pos[c]], code[d][pos[d]])
    BY AtWork
  <2>2. QED BY <1>1, <1>2, <2>1 DEF ConflictsApart
<1>4. QED BY <1>3 DEF HartsInv, LockInv

(* The matmuls, the vvadds and the driver: if in every program the steps   *)
(* that conflict are between different barriers or all under the lock,     *)
(* then no schedule brings two of them together, for every number of cores *)
(* and every size of matrix.                                               *)
THEOREM NoRaces == ASSUME ProgramsSound PROVE Spec => []RaceFree
BY InvRaceFree, HartsInvAlways, PTL

(* The copies that precede a product in the program have been made.        *)
LEMMA InvCopiesReady == HartsInv => CopiesReady
<1> SUFFICES ASSUME HartsInv, NEW c \in Cores, Working(c), IsProduct(Current(c)),
                    NEW a \in Current(c).arrays, NEW k \in Current(c).ks
             PROVE  Current(c).cols \subseteq
                      UNION {code[e[1]][e[2]].cols :
                               e \in {f \in CopiesOf(code, a, k) : f[2] < pos[f[1]]}}
  BY DEF CopiesReady
<1> DEFINE here == <<c, pos[c]>>
           before == {g \in CopiesOf(code, a, k) : Precedes(code, g, here)}
           done == {f \in CopiesOf(code, a, k) : f[2] < pos[f[1]]}
<1>1. Current(c).cols \subseteq UNION {code[f[1]][f[2]].cols : f \in before}
  <2>1. here \in StepsOf(code) /\ code[here[1]][here[2]] = Current(c)
    BY AtWork
  <2>2. CopiesFirst(code)
    BY DEF HartsInv, Sound
  <2>3. QED BY <2>1, <2>2 DEF CopiesFirst
<1>2. before \subseteq done
  <2> SUFFICES ASSUME NEW g \in CopiesOf(code, a, k), Precedes(code, g, here)
               PROVE  g[2] < pos[g[1]]
    OBVIOUS
  <2>1. g \in StepsOf(code) /\ code[g[1]][g[2]].op = "copy"
    BY DEF CopiesOf
  <2>2. g[1] \in Cores /\ g[2] \in 1 .. Len(code[g[1]])
    BY <2>1, StepOf
  <2>3. Precedes(code, <<g[1], g[2]>>, here)
    BY DEF Precedes
  <2>4. QED BY <2>1, <2>2, <2>3, AtWork, PrecedingIsDone
<1>3. QED BY <1>1, <1>2

(* at, cm and the others that copy A or B to static arrays: a core that    *)
(* reads a copy finds that it has been made, by itself or by a core that   *)
(* is through with it at the last barrier.                                 *)
THEOREM CopiesBeforeReads == ASSUME ProgramsSound PROVE Spec => []CopiesReady
BY InvCopiesReady, HartsInvAlways, PTL

(* So have the products that precede a verification.                       *)
LEMMA InvVerifiedIsComplete == HartsInv => VerifiedIsComplete
<1> SUFFICES ASSUME HartsInv, NEW c \in Cores, At(c, "verify"), kernel \notin RacyKernels
             PROVE  /\ Complete(code, kernel)
                    /\ \A d \in Cores : \A n \in pos[d] .. Len(code[d]) :
                         ~IsProduct(code[d][n])
  BY DEF VerifiedIsComplete
<1>1. Working(c)
  BY DEF At, Working
<1>2. <<c, pos[c]>> \in StepsOf(code) /\ code[c][pos[c]].op = "verify"
  BY <1>1, AtWork DEF At
<1>3. Verifies(code)
  BY <1>2 DEF Verifies
<1>4. ProductsFirst(code) /\ Complete(code, kernel)
  BY <1>3 DEF HartsInv, Sound
<1>5. ASSUME NEW d \in Cores, NEW n \in pos[d] .. Len(code[d]), IsProduct(code[d][n])
      PROVE  FALSE
  <2>1. /\ pos[d] \in Nat \ {0} /\ Len(code[d]) \in Nat
        /\ n \in 1 .. Len(code[d])
    BY DEF HartsInv, InProgram, Sound
  <2>2. <<d, n>> \in StepsOf(code)
    BY <2>1, StepOf
  <2>3. Precedes(code, <<d, n>>, <<c, pos[c]>>)
    BY <1>2, <1>4, <1>5, <2>2 DEF ProductsFirst
  <2>4. code[d][n].op # "barrier"
    BY <1>5 DEF IsProduct
  <2>5. n < pos[d]
    BY <1>1, <2>1, <2>3, <2>4, AtWork, PrecedingIsDone
  <2>6. QED BY <2>1, <2>5
<1>6. QED BY <1>4, <1>5

(* verify() after the kernel: a core that compares C with the expected     *)
(* product finds all terms of all cores in it.                             *)
THEOREM VerifiesWhatIsDone == ASSUME ProgramsSound PROVE Spec => []VerifiedIsComplete
BY InvVerifiedIsComplete, HartsInvAlways, PTL
-----------------------------------------------------------------------------
(* What Complete counts.                                                   *)

(* A sum that takes the members of a set one by one, in the order in which *)
(* CHOOSE gives them.                                                      *)
One(s) == CHOOSE x \in s : TRUE

Sums(iter, of, size) ==
  \A s \in SUBSET of :
    iter[s] = IF s = {} THEN 0 ELSE size[One(s)] + iter[s \ {One(s)}]

(* The parts of are apart and finite, and have their sizes.                *)
Spread(of, part, size) ==
  /\ IsFiniteSet(of) /\ IsFiniteSet(UNION {part[x] : x \in of})
  /\ \A x \in of : Cardinality(part[x]) = size[x]
  /\ \A x, y \in of : x # y => part[x] \cap part[y] = {}

AllOf(s, part) == UNION {part[x] : x \in s}

LEMMA FirstOf ==
  ASSUME NEW of, IsFiniteSet(of), NEW T \in SUBSET (SUBSET of), T # {}
  PROVE  \E s \in T : \A r \in T : Cardinality(s) <= Cardinality(r)
<1>1. PICK N : N = {Cardinality(s) : s \in T}
  OBVIOUS
<1>2. ASSUME NEW s \in T PROVE Cardinality(s) \in Nat
  <2>1. IsFiniteSet(s)
    BY FS_Subset
  <2>2. QED BY <2>1, FS_CardinalityType
<1>3. N \subseteq Nat /\ N # {}
  BY <1>1, <1>2
<1> DEFINE less == {ss \in Nat \X Nat : ss[1] < ss[2]}
<1>4. IsWellFoundedOn(less, Nat)
  BY NatLessThanWellFounded DEF OpToRel
<1>5. PICK m \in N : \A n \in N : <<n, m>> \notin less
  <2> HIDE DEF less
  <2> QED BY <1>3, <1>4, WFMin
<1>6. ASSUME NEW n \in N PROVE m <= n
  <2>1. n \in Nat /\ m \in Nat /\ <<n, m>> \notin less
    BY <1>3, <1>5
  <2>2. QED BY <2>1
<1>7. PICK s \in T : m = Cardinality(s)
  BY <1>1
<1>8. QED BY <1>1, <1>6, <1>7

(* One part more.                                                          *)
LEMMA OneMore ==
  ASSUME NEW of, NEW part, NEW size, Spread(of, part, size),
         NEW s \in SUBSET of, s # {}
  PROVE  /\ One(s) \in s /\ s \ {One(s)} \in SUBSET of
         /\ Cardinality(AllOf(s, part)) =
              size[One(s)] + Cardinality(AllOf(s \ {One(s)}, part))
<1>1. PICK x : x = One(s)
  OBVIOUS
<1>2. x \in s
  BY <1>1 DEF One
<1>3. PICK r : r = s \ {x}
  OBVIOUS
<1>4. AllOf(s, part) = part[x] \cup AllOf(r, part)
  BY <1>2, <1>3 DEF AllOf
<1>5. part[x] \cap AllOf(r, part) = {}
  <2>1. ASSUME NEW y \in r PROVE part[x] \cap part[y] = {}
    BY <1>2, <1>3 DEF Spread
  <2>2. QED BY <2>1 DEF AllOf
<1>6. IsFiniteSet(part[x]) /\ IsFiniteSet(AllOf(r, part))
  <2>1. part[x] \subseteq AllOf(of, part) /\ AllOf(r, part) \subseteq AllOf(of, part)
    BY <1>2, <1>3 DEF AllOf
  <2>2. IsFiniteSet(AllOf(of, part))
    BY DEF Spread, AllOf
  <2>3. QED BY <2>1, <2>2, FS_Subset
<1>7. Cardinality(part[x]) = size[x]
  BY <1>2 DEF Spread
<1>8. Cardinality(AllOf(s, part)) = Cardinality(part[x]) + Cardinality(AllOf(r, part))
  <2>1. Cardinality(AllOf(s, part)) = Cardinality(part[x]) + Cardinality(AllOf(r, part))
                                        - Cardinality({})
    BY <1>4, <1>5, <1>6, FS_Union
  <2>2. Cardinality(part[x]) \in Nat /\ Cardinality(AllOf(r, part)) \in Nat
    BY <1>6, FS_CardinalityType
  <2>3. QED BY <2>1, <2>2, FS_EmptySet
<1>9. QED BY <1>1, <1>2, <1>3, <1>7, <1>8

(* The sum is the number of the elements: as a solution of the recursion,  *)
(* and as the only one.                                                    *)
LEMMA CountIsASum ==
  ASSUME NEW of, NEW part, NEW size, Spread(of, part, size),
         NEW f, f = [s \in SUBSET of |-> Cardinality(AllOf(s, part))]
  PROVE  Sums(f, of, size)
<1>1. f[{}] = 0
  <2>1. AllOf({}, part) = {}
    BY DEF AllOf
  <2>2. QED BY <2>1, FS_EmptySet
<1>2. ASSUME NEW s \in SUBSET of, s # {}
      PROVE  f[s] = size[One(s)] + f[s \ {One(s)}]
  BY <1>2, OneMore
<1>3. QED BY <1>1, <1>2 DEF Sums

LEMMA SumIsCount ==
  ASSUME NEW of, NEW part, NEW size, Spread(of, part, size),
         NEW iter, Sums(iter, of, size)
  PROVE  iter[of] = Cardinality(AllOf(of, part))
<1>1. PICK f : f = [s \in SUBSET of |-> Cardinality(AllOf(s, part))]
  OBVIOUS
<1>2. Sums(f, of, size)
  BY <1>1, CountIsASum
<1>3. PICK T : T = {s \in SUBSET of : iter[s] # f[s]}
  OBVIOUS
<1>4. T = {}
  <2> SUFFICES ASSUME T # {} PROVE FALSE
    OBVIOUS
  <2>1. IsFiniteSet(of) /\ T \in SUBSET (SUBSET of)
    BY <1>3 DEF Spread
  <2>2. PICK s \in T : \A r \in T : Cardinality(s) <= Cardinality(r)
    BY <2>1, FirstOf
  <2>3. s \in SUBSET of /\ iter[s] # f[s]
    BY <1>3
  <2>4. s # {}
    BY <1>2, <2>3 DEF Sums
  <2>5. PICK x, r : x = One(s) /\ r = s \ {x}
    OBVIOUS
  <2>6. x \in s /\ r \in SUBSET of
    BY <2>3, <2>4, <2>5 DEF One
  <2>7. r \notin T
    <3>1. IsFiniteSet(s)
      BY <2>1, <2>3, FS_Subset
    <3>2. Cardinality(r) = Cardinality(s) - 1 /\ Cardinality(s) \in Nat
      BY <2>5, <2>6, <3>1, FS_RemoveElement, FS_CardinalityType
    <3>3. ~(Cardinality(s) <= Cardinality(r))
      BY <3>2
    <3>4. QED BY <2>2, <3>3
  <2>8. iter[r] = f[r]
    BY <1>3, <2>6, <2>7
  <2>9. iter[s] = size[x] + iter[r] /\ f[s] = size[x] + f[r]
    BY <1>2, <2>3, <2>4, <2>5 DEF Sums
  <2>10. QED BY <2>3, <2>8, <2>9
<1>5. of \in SUBSET of
  OBVIOUS
<1>6. QED BY <1>1, <1>3, <1>4, <1>5

LEMMA EqualParts ==
  ASSUME NEW of, NEW part, NEW n \in Nat, NEW size, size = [x \in of |-> n],
         Spread(of, part, size)
  PROVE  Cardinality(AllOf(of, part)) = n * Cardinality(of)
<1>1. PICK T : T = {s \in SUBSET of : Cardinality(AllOf(s, part)) # n * Cardinality(s)}
  OBVIOUS
<1>2. T = {}
  <2> SUFFICES ASSUME T # {} PROVE FALSE
    OBVIOUS
  <2>1. IsFiniteSet(of) /\ T \in SUBSET (SUBSET of)
    BY <1>1 DEF Spread
  <2>2. PICK s \in T : \A r \in T : Cardinality(s) <= Cardinality(r)
    BY <2>1, FirstOf
  <2>3. s \in SUBSET of /\ Cardinality(AllOf(s, part)) # n * Cardinality(s)
    BY <1>1
  <2>4. s # {}
    <3>1. AllOf({}, part) = {}
      BY DEF AllOf
    <3>2. QED BY <2>3, <3>1, FS_EmptySet
  <2>5. PICK x, r : x = One(s) /\ r = s \ {x}
    OBVIOUS
  <2>6. /\ x \in s /\ r \in SUBSET of
        /\ Cardinality(AllOf(s, part)) = size[x] + Cardinality(AllOf(r, part))
    BY <2>3, <2>4, <2>5, OneMore
  <2>7. Cardinality(r) = Cardinality(s) - 1 /\ Cardinality(s) \in Nat
    <3>1. IsFiniteSet(s)
      BY <2>1, <2>3, FS_Subset
    <3>2. QED BY <2>5, <2>6, <3>1, FS_RemoveElement, FS_CardinalityType
  <2>8. Cardinality(AllOf(r, part)) = n * Cardinality(r)
    <3>1. ~(Cardinality(s) <= Cardinality(r))
      BY <2>7
    <3>2. QED BY <1>1, <2>2, <2>6, <3>1
  <2>9. size[x] = n
    BY <2>3, <2>6
  <2>10. n + n * (Cardinality(s) - 1) = n * Cardinality(s)
    BY <2>7
  <2>11. QED BY <2>3, <2>6, <2>7, <2>8, <2>9, <2>10
<1>3. QED BY <1>1, <1>2

(* The cells of C, each with one k, that a step works on within w.         *)
Cells(u, w) == ((u.rows \cap w.rows) \X (u.cols \cap w.cols)) \X (u.ks \cap w.ks)

Bounded(w) == IsFiniteSet(w.rows) /\ IsFiniteSet(w.cols) /\ IsFiniteSet(w.ks)

LEMMA VolumeCounts ==
  ASSUME NEW u, NEW w, Bounded(w)
  PROVE  /\ IsFiniteSet(Cells(u, w)) /\ Volume(u, w) \in Nat
         /\ Cardinality(Cells(u, w)) = Volume(u, w)
<1>1. PICK r, c, s : r = u.rows \cap w.rows /\ c = u.cols \cap w.cols /\ s = u.ks \cap w.ks
  OBVIOUS
<1>2. IsFiniteSet(r) /\ IsFiniteSet(c) /\ IsFiniteSet(s)
  BY <1>1, FS_Subset DEF Bounded
<1>3. IsFiniteSet(r \X c) /\ Cardinality(r \X c) = Cardinality(r) * Cardinality(c)
  BY <1>2, FS_Product
<1>4. /\ IsFiniteSet((r \X c) \X s)
      /\ Cardinality((r \X c) \X s) = Cardinality(r \X c) * Cardinality(s)
  BY <1>2, <1>3, FS_Product
<1>5. Cardinality(r) \in Nat /\ Cardinality(c) \in Nat /\ Cardinality(s) \in Nat
  BY <1>2, FS_CardinalityType
<1>6. Cells(u, w) = (r \X c) \X s
  BY <1>1 DEF Cells
<1>7. Volume(u, w) = Cardinality(r) * Cardinality(c) * Cardinality(s)
  BY <1>1 DEF Volume
<1>8. QED BY <1>3, <1>4, <1>5, <1>6, <1>7

LEMMA ExtentBounded ==
  ASSUME NEW k
  PROVE  /\ Bounded(Extent(k))
         /\ Cells(Extent(k), Extent(k)) =
              (Extent(k).rows \X Extent(k).cols) \X Extent(k).ks
<1>1. IsFiniteSet(All) /\ IsFiniteSet(To(DATA_SIZE)) /\ IsFiniteSet({0})
  <2>1. LDA \in Int /\ DATA_SIZE \in Int /\ 0 \in Int
    BY KernelsAssumption
  <2>2. LDA - 1 \in Int /\ DATA_SIZE - 1 \in Int
    BY <2>1
  <2>3. IsFiniteSet(0 .. LDA - 1) /\ IsFiniteSet(0 .. DATA_SIZE - 1)
    BY <2>1, <2>2, FS_Interval
  <2>4. QED BY <2>3, FS_Singleton DEF All, To
<1>2. Bounded(Extent(k))
  BY <1>1 DEF Bounded, Extent, Add, Step
<1>3. QED BY <1>2 DEF Cells

LEMMA StepsFinite ==
  ASSUME NEW prog, \A c \in Cores : Len(prog[c]) \in Nat
  PROVE  IsFiniteSet(StepsOf(prog))
<1>1. PICK all : all = {{c} \X (1 .. Len(prog[c])) : c \in Cores}
  OBVIOUS
<1>2. ASSUME NEW s \in all PROVE IsFiniteSet(s)
  <2>1. PICK c \in Cores : s = {c} \X (1 .. Len(prog[c]))
    BY <1>1
  <2>2. IsFiniteSet({c}) /\ IsFiniteSet(1 .. Len(prog[c]))
    <3>1. PICK n \in Int : n = Len(prog[c])
      OBVIOUS
    <3>2. IsFiniteSet(1 .. n)
      BY FS_Interval
    <3>3. QED BY <3>1, <3>2, FS_Singleton
  <2>3. QED BY <2>1, <2>2, FS_Product
<1>3. IsFiniteSet(all)
  <2>1. PICK f : f = [c \in Cores |-> {c} \X (1 .. Len(prog[c]))]
    OBVIOUS
  <2>2. f \in Surjection(Cores, all)
    <3>1. f \in [Cores -> all]
      BY <1>1, <2>1
    <3>2. \A s \in all : \E c \in Cores : f[c] = s
      BY <1>1, <2>1
    <3>3. QED BY <3>1, <3>2 DEF Surjection
  <2>3. QED BY <2>2, CoresFinite, FS_Surjection
<1>4. IsFiniteSet(UNION all)
  BY <1>2, <1>3, FS_UNION
<1>5. QED BY <1>1, <1>4 DEF StepsOf

(* The products of a program.                                              *)
Products(prog) == {e \in StepsOf(prog) : IsProduct(prog[e[1]][e[2]])}

(* They are apart, every cell of the extent is in one of them for every k, *)
(* and no other cell is.                                                   *)
Tiles(prog, k) ==
  /\ \A e \in Products(prog) : Within(prog[e[1]][e[2]], Extent(k))
  /\ \A d, e \in Products(prog) :
       d # e => ~Overlap(prog[d[1]][d[2]], prog[e[1]][e[2]])
  /\ \A r \in Extent(k).rows, c \in Extent(k).cols, s \in Extent(k).ks :
       \E e \in Products(prog) : LET u == prog[e[1]][e[2]]
                                 IN  r \in u.rows /\ c \in u.cols /\ s \in u.ks

(* The sum of Complete is the number of the cells: the products with the   *)
(* same volume have its multiple, and these add up to the whole.           *)
LEMMA VolumesAddUp ==
  ASSUME NEW prog, \A c \in Cores : Len(prog[c]) \in Nat, NEW k, Tiles(prog, k)
  PROVE  Complete(prog, k)
<1> DEFINE products == {e \in StepsOf(prog) : IsProduct(prog[e[1]][e[2]])}
           w == Extent(k)
           volume == [e \in products |-> Volume(prog[e[1]][e[2]], w)]
           ofVolume(n) == {e \in products : volume[e] = n}
           volumes == {volume[e] : e \in products}
           total == FoldSet(LAMBDA n, sum : n * Cardinality(ofVolume(n)) + sum, 0, volumes)
<1>1. total = Volume(w, w) => Complete(prog, k)
  BY DEF Complete, Tiles, Products
<1>2. products = Products(prog) /\ w = Extent(k)
  BY DEF Products
<1>3. PICK box : box = [e \in products |-> Cells(prog[e[1]][e[2]], w)]
  OBVIOUS
<1>4. /\ volume = [e \in products |-> Volume(prog[e[1]][e[2]], w)]
      /\ volumes = {volume[e] : e \in products}
  OBVIOUS
<1> HIDE DEF products, w, volume, volumes, total
<1>5. Bounded(w)
  BY <1>2, ExtentBounded
<1>6. IsFiniteSet(products)
  <2>1. products \subseteq StepsOf(prog)
    BY <1>2 DEF Products
  <2>2. QED BY <2>1, StepsFinite, FS_Subset
<1>7. \A e \in products : /\ volume[e] \in Nat
                          /\ IsFiniteSet(box[e]) /\ Cardinality(box[e]) = volume[e]
  BY <1>4, <1>3, <1>5, VolumeCounts
<1>8. \A d, e \in products : d # e => box[d] \cap box[e] = {}
  <2> SUFFICES ASSUME NEW d \in products, NEW e \in products, d # e,
                      NEW x, x \in box[d], x \in box[e]
               PROVE  FALSE
    OBVIOUS
  <2>1. PICK u, v : u = prog[d[1]][d[2]] /\ v = prog[e[1]][e[2]]
    OBVIOUS
  <2>2. x \in Cells(u, w) /\ x \in Cells(v, w)
    BY <1>3, <2>1
  <2>3. /\ x[1][1] \in u.rows \cap v.rows /\ x[1][2] \in u.cols \cap v.cols
        /\ x[2] \in u.ks \cap v.ks
    BY <2>2 DEF Cells
  <2>4. Overlap(u, v)
    BY <2>3 DEF Overlap, SameCells, Meet
  <2>5. QED BY <1>2, <2>1, <2>4 DEF Tiles
<1>9. AllOf(products, box) = Cells(w, w)
  <2>1. ASSUME NEW e \in products PROVE box[e] \subseteq Cells(w, w)
    BY <1>3 DEF Cells
  <2>2. ASSUME NEW x \in Cells(w, w) PROVE \E e \in products : x \in box[e]
    <3>1. /\ x[1][1] \in w.rows /\ x[1][2] \in w.cols /\ x[2] \in w.ks
          /\ x = <<<<x[1][1], x[1][2]>>, x[2]>>
      BY DEF Cells
    <3>2. PICK e \in products : /\ x[1][1] \in prog[e[1]][e[2]].rows
                                /\ x[1][2] \in prog[e[1]][e[2]].cols
                                /\ x[2] \in prog[e[1]][e[2]].ks
      BY <1>2, <3>1 DEF Tiles
    <3>3. x \in Cells(prog[e[1]][e[2]], w)
      BY <3>1, <3>2 DEF Cells
    <3>4. QED BY <1>3, <3>3
  <2>3. QED BY <2>1, <2>2 DEF AllOf
<1>10. PICK part, size :
        /\ part = [n \in volumes |-> AllOf(ofVolume(n), box)]
        /\ size = [n \in volumes |-> n * Cardinality(ofVolume(n))]
  OBVIOUS
<1>11. ASSUME NEW n \in volumes PROVE Cardinality(part[n]) = size[n]
  <2>1. PICK E, each : E = ofVolume(n) /\ each = [e \in E |-> n]
    OBVIOUS
  <2>2. E \in SUBSET products /\ \A e \in E : volume[e] = n
    BY <2>1
  <2>3. n \in Nat
    BY <1>4, <1>7
  <2>4. Spread(E, box, each)
    <3>1. IsFiniteSet(E)
      BY <1>6, <2>2, FS_Subset
    <3>2. UNION {box[e] : e \in E} \subseteq Cells(w, w)
      BY <1>9, <2>2 DEF AllOf
    <3>3. IsFiniteSet(UNION {box[e] : e \in E})
      BY <1>5, <3>2, VolumeCounts, FS_Subset
    <3>4. \A e \in E : Cardinality(box[e]) = each[e]
      BY <1>7, <2>1, <2>2
    <3>5. QED BY <1>8, <2>2, <3>1, <3>3, <3>4 DEF Spread
  <2>5. Cardinality(AllOf(E, box)) = n * Cardinality(E)
    BY <2>1, <2>3, <2>4, EqualParts
  <2>6. QED BY <1>10, <2>1, <2>5
<1> HIDE DEF ofVolume
<1>12. Spread(volumes, part, size)
  <2>1. IsFiniteSet(volumes)
    <3>1. volume \in [products -> volumes] /\ \A n \in volumes : \E e \in products : volume[e] = n
      BY <1>4
    <3>2. volume \in Surjection(products, volumes)
      BY <3>1 DEF Surjection
    <3>3. QED BY <1>6, <3>2, FS_Surjection
  <2>2. \A n \in volumes : part[n] \subseteq Cells(w, w)
    BY <1>9, <1>10 DEF AllOf, ofVolume
  <2>3. IsFiniteSet(UNION {part[n] : n \in volumes})
    <3>1. UNION {part[n] : n \in volumes} \subseteq Cells(w, w)
      BY <2>2
    <3>2. QED BY <1>5, <3>1, VolumeCounts, FS_Subset
  <2>4. ASSUME NEW m \in volumes, NEW n \in volumes, m # n
        PROVE  part[m] \cap part[n] = {}
    <3>1. \A d \in ofVolume(m), e \in ofVolume(n) : box[d] \cap box[e] = {}
      BY <1>8, <2>4 DEF ofVolume
    <3>2. part[m] = AllOf(ofVolume(m), box) /\ part[n] = AllOf(ofVolume(n), box)
      BY <1>10
    <3>3. QED BY <3>1, <3>2 DEF AllOf
  <2>5. QED BY <1>11, <2>1, <2>3, <2>4 DEF Spread
<1>13. AllOf(volumes, part) = Cells(w, w)
  <2>1. AllOf(volumes, part) = AllOf(products, box)
    <3>1. \A x : (\E e \in products : x \in box[e])
                   <=> \E n \in volumes : \E e \in ofVolume(n) : x \in box[e]
      BY <1>4 DEF ofVolume
    <3>2. \A n \in volumes : part[n] = AllOf(ofVolume(n), box)
      BY <1>10
    <3>3. QED BY <3>1, <3>2 DEF AllOf
  <2>2. QED BY <1>9, <2>1
<1>14. Cardinality(AllOf(volumes, part)) = Volume(w, w)
  BY <1>5, <1>13, VolumeCounts
<1> DEFINE rec(g) == [s \in SUBSET volumes |->
                        IF s = {} THEN 0
                        ELSE One(s) * Cardinality(ofVolume(One(s))) + g[s \ {One(s)}]]
           iter == CHOOSE g : g = rec(g)
<1>15. total = iter[volumes]
  BY DEF total, FoldSet, MapThenFoldSet, One
<1>16. ASSUME NEW s \in SUBSET volumes, s # {}
       PROVE  size[One(s)] = One(s) * Cardinality(ofVolume(One(s)))
  BY <1>10, <1>16 DEF One
<1>17. iter = rec(iter)
  <2>1. PICK f : f = [s \in SUBSET volumes |-> Cardinality(AllOf(s, part))]
    OBVIOUS
  <2>2. Sums(f, volumes, size)
    BY <1>12, <2>1, CountIsASum
  <2>3. ASSUME NEW s \in SUBSET volumes
        PROVE  f[s] = IF s = {} THEN 0
                      ELSE One(s) * Cardinality(ofVolume(One(s))) + f[s \ {One(s)}]
    BY <1>16, <2>2 DEF Sums
  <2>4. f = [s \in SUBSET volumes |-> f[s]]
    BY <2>1
  <2>5. f = rec(f)
    BY <2>3, <2>4
  <2> HIDE DEF rec
  <2>6. QED BY <2>5
<1>18. Sums(iter, volumes, size)
  <2> HIDE DEF iter
  <2>1. ASSUME NEW s \in SUBSET volumes
        PROVE  iter[s] = IF s = {} THEN 0
                         ELSE One(s) * Cardinality(ofVolume(One(s))) + iter[s \ {One(s)}]
    BY <1>17
  <2>2. QED BY <1>16, <2>1 DEF Sums
<1> HIDE DEF iter
<1>19. total = Volume(w, w)
  BY <1>12, <1>14, <1>15, <1>18, SumIsCount
<1>20. QED BY <1>1, <1>19

-----------------------------------------------------------------------------
(* Programs whose cores do one product each.                               *)

(* What core c has behind b barriers: the product, behind first of them;   *)
(* then the verification, by core 0 alone if lone; then the sum in place.  *)
Stage(u, b, c, first, lone) ==
  \/ u.op = "barrier"
  \/ IsProduct(u) /\ u.arrays = {} /\ b = first
  \/ u.op = "inplace" /\ b = first + 2
  \/ u.op = "verify" /\ b \in {first + 1, first + 3} /\ (lone => c = 0)
  \/ u.op = "reset" /\ b = first + 1 /\ lone /\ c = 0
Staged(s, c, first, lone) ==
  /\ Len(s) \in Nat
  /\ \A n \in 1 .. Len(s) : Stage(s[n], Barriers(s, n), c, first, lone)
Stages(prog, first, lone) == \A c \in Cores : Staged(prog[c], c, first, lone)

(* The one product of s is at p, and the sum in place is on its cells.     *)
OnlyAt(s, p) ==
  /\ p \in 1 .. Len(s) /\ IsProduct(s[p])
  /\ \A n \in 1 .. Len(s) :
       /\ IsProduct(s[n]) => n = p
       /\ s[n].op = "inplace" => s[n].rows = s[p].rows /\ s[n].cols = s[p].cols

(* The products of the cores are apart.                                    *)
OneEach(prog, p) ==
  /\ \A c \in Cores : OnlyAt(prog[c], p)
  /\ \A c, d \in Cores : c # d => ~SameCells(prog[c][p], prog[d][p])

(* Every core has its part of the extent.                                  *)
Covers(prog, p, k) ==
  /\ \A c \in Cores : Within(prog[c][p], Extent(k))
  /\ \A r \in Extent(k).rows, m \in Extent(k).cols, s \in Extent(k).ks :
       \E c \in Cores : r \in prog[c][p].rows /\ m \in prog[c][p].cols /\ s \in prog[c][p].ks

LEMMA OneEachTiles ==
  ASSUME NEW prog, NEW p, NEW k, OneEach(prog, p), Covers(prog, p, k)
  PROVE  Tiles(prog, k)
<1>1. \A e \in Products(prog) : e[1] \in Cores /\ e[2] = p /\ e = <<e[1], p>>
  <2> SUFFICES ASSUME NEW e \in Products(prog)
               PROVE  e[1] \in Cores /\ e[2] = p /\ e = <<e[1], p>>
    OBVIOUS
  <2>1. e \in StepsOf(prog) /\ IsProduct(prog[e[1]][e[2]])
    BY DEF Products
  <2>2. e[1] \in Cores /\ e[2] = p
    BY <2>1, StepOf DEF OneEach, OnlyAt
  <2>3. e = <<e[1], e[2]>>
    BY <2>1 DEF StepsOf
  <2>4. QED BY <2>2, <2>3
<1>2. \A c \in Cores : <<c, p>> \in Products(prog)
  BY StepOf DEF OneEach, OnlyAt, Products
<1>3. ASSUME NEW d \in Products(prog), NEW e \in Products(prog), d # e
      PROVE  ~Overlap(prog[d[1]][d[2]], prog[e[1]][e[2]])
  <2>1. d[1] # e[1]
    BY <1>1, <1>3
  <2>2. ~SameCells(prog[d[1]][p], prog[e[1]][p])
    BY <1>1, <2>1 DEF OneEach, OnlyAt
  <2>3. QED BY <1>1, <2>2 DEF Overlap
<1>4. ASSUME NEW r \in Extent(k).rows, NEW m \in Extent(k).cols, NEW s \in Extent(k).ks
      PROVE  \E e \in Products(prog) : LET u == prog[e[1]][e[2]]
                                       IN  r \in u.rows /\ m \in u.cols /\ s \in u.ks
  <2>1. PICK c \in Cores : /\ r \in prog[c][p].rows /\ m \in prog[c][p].cols
                           /\ s \in prog[c][p].ks
    BY DEF Covers
  <2>2. PICK e \in Products(prog) : e = <<c, p>>
    BY <1>2
  <2>3. e[1] = c /\ e[2] = p
    BY <2>2
  <2>4. QED BY <2>1, <2>3
<1>5. \A e \in Products(prog) : Within(prog[e[1]][e[2]], Extent(k))
  <2>1. \A c \in Cores : Within(prog[c][p], Extent(k))
    BY DEF Covers
  <2>2. QED BY <1>1, <2>1
<1>6. QED BY <1>3, <1>4, <1>5 DEF Tiles

LEMMA StagesAreSound ==
  ASSUME NEW prog, NEW k, NEW p, NEW first \in Nat, NEW lone \in BOOLEAN,
         Stages(prog, first, lone), OneEach(prog, p), Covers(prog, p, k)
  PROVE  Sound(prog, k)
<1>1. \A c \in Cores : Len(prog[c]) \in Nat
  BY DEF Stages, Staged, Stage
<1>2. Complete(prog, k)
  BY <1>1, OneEachTiles, VolumesAddUp
<1>3. LocksPaired(prog)
  <2>1. ASSUME NEW c \in Cores, NEW n \in 1 .. Len(prog[c]) PROVE prog[c][n].op # "put_lock"
    BY DEF Stages, Staged, Stage, IsProduct
  <2>2. QED BY <2>1 DEF LocksPaired
<1>4. CopiesFirst(prog)
  <2>1. ASSUME NEW e \in StepsOf(prog), IsProduct(prog[e[1]][e[2]])
        PROVE  prog[e[1]][e[2]].arrays = {}
    <3>1. e[1] \in Cores /\ e[2] \in 1 .. Len(prog[e[1]])
      BY StepOf
    <3>2. QED BY <2>1, <3>1 DEF Stages, Staged, Stage, IsProduct
  <2>2. QED BY <2>1 DEF CopiesFirst
<1>5. ConflictsApart(prog)
  <2> SUFFICES ASSUME NEW c \in Cores, NEW d \in Cores, c # d,
                      NEW m \in 1 .. Len(prog[c]), NEW n \in 1 .. Len(prog[d]),
                      Works(prog[c][m]), Works(prog[d][n]), Conflict(prog[c][m], prog[d][n]),
                      Barriers(prog[c], m) = Barriers(prog[d], n)
               PROVE  FALSE
    BY DEF ConflictsApart
  <2>1. PICK u, v, b : u = prog[c][m] /\ v = prog[d][n] /\ b = Barriers(prog[c], m)
    OBVIOUS
  <2>2. \/ IsProduct(u) /\ b = first
        \/ u.op = "inplace" /\ b = first + 2
        \/ u.op = "verify" /\ b \in {first + 1, first + 3}
        \/ u.op = "reset" /\ b = first + 1 /\ lone /\ c = 0
    BY <2>1 DEF Stages, Staged, Stage, Works
  <2>3. \/ IsProduct(v) /\ b = first
        \/ v.op = "inplace" /\ b = first + 2
        \/ v.op = "verify" /\ b \in {first + 1, first + 3} /\ (lone => d = 0)
        \/ v.op = "reset" /\ b = first + 1 /\ lone /\ d = 0
    BY <2>1 DEF Stages, Staged, Stage, Works
  <2>4. WritesC(u) /\ (v.op = "verify" \/ (WritesC(v) /\ SameCells(u, v)))
    BY <2>1, <2>2 DEF Conflict, IsProduct
  <2>5. CASE IsProduct(u)
    <3>1. b = first /\ u.op # "inplace" /\ u.op # "verify" /\ u.op # "reset"
      BY <2>2, <2>5 DEF IsProduct
    <3>2. IsProduct(v)
      BY <2>3, <3>1
    <3>3. m = p /\ n = p /\ v.op # "verify"
      BY <2>1, <2>5, <3>2 DEF OneEach, OnlyAt, IsProduct
    <3>4. QED BY <2>1, <2>4, <3>3 DEF OneEach, OnlyAt
  <2>6. CASE u.op = "inplace"
    <3>1. b = first + 2
      BY <2>2, <2>6 DEF IsProduct
    <3>2. v.op = "inplace"
      BY <2>3, <3>1
    <3>3. SameCells(prog[c][p], prog[d][p])
      BY <2>1, <2>4, <2>6, <3>2 DEF OneEach, OnlyAt, SameCells, Meet
    <3>4. QED BY <3>3 DEF OneEach, OnlyAt
  <2>7. CASE u.op = "reset"
    <3>1. b = first + 1 /\ lone /\ c = 0
      BY <2>2, <2>7 DEF IsProduct
    <3>2. d = 0
      BY <2>3, <3>1
    <3>3. QED BY <3>1, <3>2
  <2>8. QED BY <2>2, <2>4, <2>5, <2>6, <2>7 DEF WritesC
<1>6. ProductsFirst(prog)
  <2> SUFFICES ASSUME NEW e \in StepsOf(prog), NEW f \in StepsOf(prog),
                      prog[e[1]][e[2]].op = "verify", IsProduct(prog[f[1]][f[2]])
               PROVE  Precedes(prog, f, e)
    BY DEF ProductsFirst
  <2>1. PICK c, m, d, n : c = e[1] /\ m = e[2] /\ d = f[1] /\ n = f[2]
    OBVIOUS
  <2>2. /\ c \in Cores /\ m \in 1 .. Len(prog[c]) /\ prog[c][m].op = "verify"
        /\ d \in Cores /\ n \in 1 .. Len(prog[d]) /\ IsProduct(prog[d][n])
    BY <2>1, StepOf
  <2>3. Barriers(prog[c], m) \in {first + 1, first + 3}
    BY <2>2 DEF Stages, Staged, Stage, IsProduct
  <2>4. Barriers(prog[d], n) = first
    BY <2>2 DEF Stages, Staged, Stage, IsProduct
  <2>5. Barriers(prog[d], n) < Barriers(prog[c], m)
    BY <2>3, <2>4
  <2>6. c = d => n < m
    <3>1. ASSUME c = d, m <= n PROVE FALSE
      <4>1. Barriers(prog[c], m) <= Barriers(prog[c], n)
        BY <2>2, <3>1, BarriersMonotonic
      <4>2. QED BY <2>3, <2>4, <3>1, <4>1
    <3>2. m \in Int /\ n \in Int
      BY <1>1, <2>2
    <3>3. QED BY <3>1, <3>2
  <2>7. QED BY <2>1, <2>5, <2>6 DEF Precedes
<1>7. QED BY <1>1, <1>2, <1>3, <1>4, <1>5, <1>6 DEF Sound

(* The drivers around a product.                                           *)
LEMMA DriverOfProduct ==
  ASSUME NEW u, NEW s, s = mt_matmul(<<u>>)
  PROVE  /\ Len(s) = 3 /\ s[1] = u /\ s[2].op = "barrier" /\ s[3].op = "verify"
<1>1. PICK S : S = {u, Barrier, Verify}
  OBVIOUS
<1>2. <<u>> \in Seq(S) /\ <<Barrier, Verify>> \in Seq(S)
  BY <1>1
<1>3. Len(<<u>>) = 1 /\ Len(<<Barrier, Verify>>) = 2
  OBVIOUS
<1>4. Len(s) = 3 /\ s[1] = u /\ s[2] = Barrier /\ s[3] = Verify
  BY <1>2, <1>3 DEF mt_matmul
<1>5. QED BY <1>4 DEF Barrier, Verify, Sync, Step

LEMMA ProductStaged ==
  ASSUME NEW s, NEW c, Len(s) = 3, IsProduct(s[1]), s[1].arrays = {},
         s[2].op = "barrier", s[3].op = "verify"
  PROVE  Staged(s, c, 0, FALSE) /\ OnlyAt(s, 1)
<1>1. Barriers(s, 1) = 0
  BY NoneBehindTheFirst
<1>2. Barriers(s, 1 + 1) = 0
  BY <1>1, BarriersStep DEF IsProduct
<1>3. Barriers(s, 2 + 1) = 1
  BY <1>2, BarriersStep
<1>4. ASSUME NEW n \in 1 .. Len(s)
      PROVE  n = 1 \/ n = 2 \/ n = 3
  OBVIOUS
<1>5. Staged(s, c, 0, FALSE)
  BY <1>1, <1>3, <1>4 DEF Staged, Stage
<1>6. OnlyAt(s, 1)
  BY <1>4 DEF OnlyAt, IsProduct
<1>7. QED BY <1>5, <1>6

(* Two sequences joined, and one element more.                             *)
IsJoin(S, s, t, r) ==
  /\ r \in Seq(S) /\ Len(r) = Len(s) + Len(t)
  /\ \A i \in 1 .. Len(s) : r[i] = s[i]
  /\ \A i \in 1 .. Len(t) : r[Len(s) + i] = t[i]
IsFollowed(S, s, x, r) ==
  /\ r \in Seq(S) /\ Len(r) = Len(s) + 1
  /\ \A i \in 1 .. Len(s) : r[i] = s[i]
  /\ r[Len(s) + 1] = x

LEMMA Joined ==
  ASSUME NEW S, NEW s \in Seq(S), NEW t \in Seq(S)
  PROVE  IsJoin(S, s, t, s \o t)
BY DEF IsJoin

LEMMA Followed ==
  ASSUME NEW S, NEW s \in Seq(S), NEW x \in S
  PROVE  IsFollowed(S, s, x, s \o <<x>>)
<1>1. <<x>> \in Seq(S) /\ Len(<<x>>) = 1 /\ <<x>>[1] = x
  <2>1. <<x>> \in Seq(S)
    OBVIOUS
  <2>2. Len(<<x>>) = 1
    OBVIOUS
  <2>3. <<x>>[1] = x
    OBVIOUS
  <2>4. QED BY <2>1, <2>2, <2>3
<1>2. PICK t, r : t = <<x>> /\ r = s \o t
  OBVIOUS
<1>3. t \in Seq(S) /\ Len(t) = 1 /\ t[1] = x
  BY <1>1, <1>2
<1>4. IsJoin(S, s, t, r)
  BY <1>2, <1>3, Joined
<1>5. IsFollowed(S, s, x, r)
  <2>1. /\ r \in Seq(S) /\ Len(r) = Len(s) + 1
        /\ \A i \in 1 .. Len(s) : r[i] = s[i]
    BY <1>3, <1>4 DEF IsJoin
  <2>2. r[Len(s) + 1] = t[1]
    BY <1>3, <1>4 DEF IsJoin
  <2>3. QED BY <1>3, <2>1, <2>2 DEF IsFollowed
<1>6. QED BY <1>2, <1>5

LEMMA FollowedByNone ==
  ASSUME NEW S, NEW s \in Seq(S), NEW r, r = s \o <<>>
  PROVE  r = s
OBVIOUS

LEMMA SumBody ==
  ASSUME NEW u, NEW w, w = [u EXCEPT !.op = "inplace"]
  PROVE  [n \in DOMAIN <<u>> |-> [<<u>>[n] EXCEPT !.op = "inplace"]] = <<w>>
OBVIOUS

(* Core 0 verifies and resets between the sums; the others only wait.      *)
LEMMA DriverOfSum ==
  ASSUME NEW u, NEW c, NEW s, s = mt_vvadd(c, <<u>>),
         NEW w, w = [u EXCEPT !.op = "inplace"],
         NEW r, r = Step("reset", To(DATA_SIZE), {0}, {}, {})
  PROVE  /\ c = 0 => /\ Len(s) = 10 /\ s[2] = u /\ s[7] = w
                     /\ s[1] = Barrier /\ s[3] = Barrier /\ s[6] = Barrier
                     /\ s[8] = Barrier /\ s[10] = Barrier
                     /\ s[4] = Verify /\ s[9] = Verify /\ s[5] = r
         /\ c # 0 => /\ Len(s) = 7 /\ s[2] = u /\ s[5] = w
                     /\ s[1] = Barrier /\ s[3] = Barrier /\ s[4] = Barrier
                     /\ s[6] = Barrier /\ s[7] = Barrier
<1>1. PICK b, v : b = Barrier /\ v = Verify
  OBVIOUS
<1>2. PICK S : S = {u, w, b, v, r}
  OBVIOUS
<1>3. b \in S /\ v \in S /\ u \in S /\ w \in S /\ r \in S
  BY <1>2
<1>4. [n \in DOMAIN <<u>> |-> [<<u>>[n] EXCEPT !.op = "inplace"]] = <<w>>
  BY SumBody
<1>5. PICK s1, s2, s3 : s1 = <<b>> /\ s2 = s1 \o <<u>> /\ s3 = s2 \o <<b>>
  OBVIOUS
<1>6. s1 \in Seq(S) /\ Len(s1) = 1 /\ s1[1] = b
  BY <1>3, <1>5
<1>7. s2 \in Seq(S) /\ Len(s2) = 2 /\ s2[1] = b /\ s2[2] = u
  <2>1. IsFollowed(S, s1, u, s2)
    BY <1>3, <1>5, <1>6, Followed
  <2>2. QED BY <1>6, <2>1 DEF IsFollowed
<1>8. s3 \in Seq(S) /\ Len(s3) = 3 /\ s3[1] = b /\ s3[2] = u /\ s3[3] = b
  <2>1. IsFollowed(S, s2, b, s3)
    BY <1>3, <1>5, <1>7, Followed
  <2>2. QED BY <1>7, <2>1 DEF IsFollowed
<1>9. CASE c = 0
  <2>1. s = s3 \o <<v, r>> \o <<b>> \o <<w>> \o <<b>> \o <<v>> \o <<b>>
    BY <1>1, <1>4, <1>5, <1>9 DEF mt_vvadd
  <2>2. PICK t2, t3, t4, t5, t6, t7 : /\ t2 = s3 \o <<v, r>>
                                      /\ t3 = t2 \o <<b>> /\ t4 = t3 \o <<w>>
                                      /\ t5 = t4 \o <<b>> /\ t6 = t5 \o <<v>>
                                      /\ t7 = t6 \o <<b>>
    OBVIOUS
  <2>3. PICK vr : vr = <<v, r>>
    OBVIOUS
  <2>4. /\ t2 \in Seq(S) /\ Len(t2) = 5
        /\ t2[1] = b /\ t2[2] = u /\ t2[3] = b /\ t2[4] = v
        /\ t2[5] = r
    <3>1. vr \in Seq(S) /\ Len(vr) = 2 /\ vr[1] = v /\ vr[2] = r
      BY <1>3, <2>3
    <3>2. t2 = s3 \o vr
      BY <2>2, <2>3
    <3>3. IsJoin(S, s3, vr, t2)
      BY <1>8, <3>1, <3>2, Joined
    <3>4. t2[3 + 1] = vr[1] /\ t2[3 + 2] = vr[2]
      BY <1>8, <3>1, <3>3 DEF IsJoin
    <3>5. QED BY <1>8, <3>1, <3>3, <3>4 DEF IsJoin
  <2>5. /\ t3 \in Seq(S) /\ Len(t3) = 6
        /\ t3[1] = b /\ t3[2] = u /\ t3[3] = b /\ t3[4] = v
        /\ t3[5] = r /\ t3[6] = b
    <3>1. t3 = t2 \o <<b>>
      BY <2>2
    <3>2. IsFollowed(S, t2, b, t3)
      BY <1>3, <2>4, <3>1, Followed
    <3>3. QED BY <2>4, <3>2 DEF IsFollowed
  <2>6. /\ t4 \in Seq(S) /\ Len(t4) = 7
        /\ t4[1] = b /\ t4[2] = u /\ t4[3] = b /\ t4[4] = v
        /\ t4[5] = r /\ t4[6] = b /\ t4[7] = w
    <3>1. t4 = t3 \o <<w>>
      BY <2>2
    <3>2. IsFollowed(S, t3, w, t4)
      BY <1>3, <2>5, <3>1, Followed
    <3>3. QED BY <2>5, <3>2 DEF IsFollowed
  <2>7. /\ t5 \in Seq(S) /\ Len(t5) = 8
        /\ t5[1] = b /\ t5[2] = u /\ t5[3] = b /\ t5[4] = v
        /\ t5[5] = r /\ t5[6] = b /\ t5[7] = w /\ t5[8] = b
    <3>1. t5 = t4 \o <<b>>
      BY <2>2
    <3>2. IsFollowed(S, t4, b, t5)
      BY <1>3, <2>6, <3>1, Followed
    <3>3. QED BY <2>6, <3>2 DEF IsFollowed
  <2>8. /\ t6 \in Seq(S) /\ Len(t6) = 9
        /\ t6[1] = b /\ t6[2] = u /\ t6[3] = b /\ t6[4] = v
        /\ t6[5] = r /\ t6[6] = b /\ t6[7] = w /\ t6[8] = b
        /\ t6[9] = v
    <3>1. t6 = t5 \o <<v>>
      BY <2>2
    <3>2. IsFollowed(S, t5, v, t6)
      BY <1>3, <2>7, <3>1, Followed
    <3>3. QED BY <2>7, <3>2 DEF IsFollowed
  <2>9. /\ t7 \in Seq(S) /\ Len(t7) = 10
        /\ t7[1] = b /\ t7[2] = u /\ t7[3] = b /\ t7[4] = v
        /\ t7[5] = r /\ t7[6] = b /\ t7[7] = w /\ t7[8] = b
        /\ t7[9] = v /\ t7[10] = b
    <3>1. t7 = t6 \o <<b>>
      BY <2>2
    <3>2. IsFollowed(S, t6, b, t7)
      BY <1>3, <2>8, <3>1, Followed
    <3>3. QED BY <2>8, <3>2 DEF IsFollowed
  <2>10. s = t7
    BY <2>1, <2>2
  <2>11. QED BY <1>1, <1>9, <2>9, <2>10
<1>10. CASE c # 0
  <2>1. s = s3 \o <<>> \o <<b>> \o <<w>> \o <<b>> \o <<>> \o <<b>>
    BY <1>1, <1>4, <1>5, <1>10 DEF mt_vvadd
  <2>2. PICK t1, t2, t3, t4 : /\ t1 = s3 \o <<b>> /\ t2 = t1 \o <<w>>
                              /\ t3 = t2 \o <<b>> /\ t4 = t3 \o <<b>>
    OBVIOUS
  <2>4. /\ t1 \in Seq(S) /\ Len(t1) = 4
        /\ t1[1] = b /\ t1[2] = u /\ t1[3] = b /\ t1[4] = b
    <3>1. t1 = s3 \o <<b>>
      BY <2>2
    <3>2. IsFollowed(S, s3, b, t1)
      BY <1>3, <1>8, <3>1, Followed
    <3>3. QED BY <1>8, <3>2 DEF IsFollowed
  <2>5. /\ t2 \in Seq(S) /\ Len(t2) = 5
        /\ t2[1] = b /\ t2[2] = u /\ t2[3] = b /\ t2[4] = b
        /\ t2[5] = w
    <3>1. t2 = t1 \o <<w>>
      BY <2>2
    <3>2. IsFollowed(S, t1, w, t2)
      BY <1>3, <2>4, <3>1, Followed
    <3>3. QED BY <2>4, <3>2 DEF IsFollowed
  <2>6. /\ t3 \in Seq(S) /\ Len(t3) = 6
        /\ t3[1] = b /\ t3[2] = u /\ t3[3] = b /\ t3[4] = b
        /\ t3[5] = w /\ t3[6] = b
    <3>1. t3 = t2 \o <<b>>
      BY <2>2
    <3>2. IsFollowed(S, t2, b, t3)
      BY <1>3, <2>5, <3>1, Followed
    <3>3. QED BY <2>5, <3>2 DEF IsFollowed
  <2>7. /\ t4 \in Seq(S) /\ Len(t4) = 7
        /\ t4[1] = b /\ t4[2] = u /\ t4[3] = b /\ t4[4] = b
        /\ t4[5] = w /\ t4[6] = b /\ t4[7] = b
    <3>1. t4 = t3 \o <<b>>
      BY <2>2
    <3>2. IsFollowed(S, t3, b, t4)
      BY <1>3, <2>6, <3>1, Followed
    <3>3. QED BY <2>6, <3>2 DEF IsFollowed
  <2>8. s = t4
    <3>1. s3 \o <<>> = s3
      BY <1>8, FollowedByNone
    <3>2. t3 \o <<>> = t3
      BY <2>6, FollowedByNone
    <3>3. QED BY <2>1, <2>2, <3>1, <3>2
  <2>9. QED BY <1>1, <1>10, <2>7, <2>8
<1>11. QED BY <1>9, <1>10

LEMMA SumStaged ==
  ASSUME NEW X, NEW c, NEW s, s = mt_vvadd(c, <<Sum(X)>>)
  PROVE  Staged(s, c, 1, TRUE) /\ OnlyAt(s, 2) /\ s[2] = Sum(X)
<1>1. PICK u, w, r : /\ u = Sum(X) /\ w = [u EXCEPT !.op = "inplace"]
                     /\ r = Step("reset", To(DATA_SIZE), {0}, {}, {})
  OBVIOUS
<1>2. /\ IsProduct(u) /\ u.arrays = {} /\ w.op = "inplace" /\ r.op = "reset"
      /\ w.rows = u.rows /\ w.cols = u.cols
  BY <1>1 DEF Sum, Store, Step, IsProduct
<1>3. Barrier.op = "barrier" /\ Verify.op = "verify"
  BY DEF Barrier, Verify, Sync, Step
<1>4. ~IsProduct(w) /\ ~IsProduct(r) /\ ~IsProduct(Barrier) /\ ~IsProduct(Verify)
  BY <1>2, <1>3 DEF IsProduct
<1>5. u.op # "barrier" /\ u.op # "inplace"
  BY <1>2 DEF IsProduct
<1>6. Barriers(s, 1) = 0
  BY NoneBehindTheFirst
<1>7. CASE c = 0
  <2>1. /\ Len(s) = 10 /\ s[2] = u /\ s[7] = w
        /\ s[1] = Barrier /\ s[3] = Barrier /\ s[6] = Barrier
        /\ s[8] = Barrier /\ s[10] = Barrier
        /\ s[4] = Verify /\ s[9] = Verify /\ s[5] = r
    BY <1>1, <1>7, DriverOfSum
  <2>2. Barriers(s, 1 + 1) = 1
    BY <1>3, <1>6, <2>1, BarriersStep
  <2>3. Barriers(s, 2 + 1) = 1
    BY <1>5, <2>1, <2>2, BarriersStep
  <2>4. Barriers(s, 3 + 1) = 2
    BY <1>3, <2>1, <2>3, BarriersStep
  <2>5. Barriers(s, 4 + 1) = 2
    BY <1>3, <2>1, <2>4, BarriersStep
  <2>6. Barriers(s, 5 + 1) = 2
    BY <1>2, <2>1, <2>5, BarriersStep
  <2>7. Barriers(s, 6 + 1) = 3
    BY <1>3, <2>1, <2>6, BarriersStep
  <2>8. Barriers(s, 7 + 1) = 3
    BY <1>2, <2>1, <2>7, BarriersStep
  <2>9. Barriers(s, 8 + 1) = 4
    BY <1>3, <2>1, <2>8, BarriersStep
  <2>10. /\ Barriers(s, 2) = 1 /\ Barriers(s, 4) = 2 /\ Barriers(s, 5) = 2
         /\ Barriers(s, 7) = 3 /\ Barriers(s, 9) = 4
    BY <2>2, <2>4, <2>5, <2>7, <2>9
  <2>11. ASSUME NEW n \in 1 .. Len(s)
         PROVE  \/ n = 2 \/ n = 4 \/ n = 5 \/ n = 7 \/ n = 9
                \/ n \in {1, 3, 6, 8, 10}
    <3>1. n \in 1 .. 10
      BY <2>1
    <3>2. QED BY <3>1
  <2>12. \A n \in {1, 3, 6, 8, 10} : s[n] = Barrier
    BY <2>1
  <2>13. Staged(s, c, 1, TRUE)
    <3>1. Stage(s[2], Barriers(s, 2), c, 1, TRUE)
      BY <1>2, <2>1, <2>10 DEF Stage
    <3>2. Stage(s[4], Barriers(s, 4), c, 1, TRUE) /\ Stage(s[9], Barriers(s, 9), c, 1, TRUE)
      BY <1>3, <1>7, <2>1, <2>10 DEF Stage
    <3>3. Stage(s[5], Barriers(s, 5), c, 1, TRUE)
      BY <1>2, <1>7, <2>1, <2>10 DEF Stage
    <3>4. Stage(s[7], Barriers(s, 7), c, 1, TRUE)
      BY <1>2, <2>1, <2>10 DEF Stage
    <3>5. \A n \in {1, 3, 6, 8, 10} : Stage(s[n], Barriers(s, n), c, 1, TRUE)
      BY <1>3, <2>12 DEF Stage
    <3>6. Len(s) \in Nat
      BY <2>1
    <3>7. QED BY <2>11, <3>1, <3>2, <3>3, <3>4, <3>5, <3>6 DEF Staged
  <2>14. OnlyAt(s, 2)
    <3>1. ASSUME NEW n \in 1 .. Len(s), n # 2 PROVE ~IsProduct(s[n])
      BY <1>4, <2>1, <2>11, <2>12, <3>1
    <3>2. ASSUME NEW n \in 1 .. Len(s), n # 7 PROVE s[n].op # "inplace"
      BY <1>2, <1>3, <1>5, <2>1, <2>11, <2>12, <3>2
    <3>3. 2 \in 1 .. Len(s) /\ IsProduct(s[2])
      BY <1>2, <2>1
    <3>4. s[7].rows = s[2].rows /\ s[7].cols = s[2].cols
      BY <1>2, <2>1
    <3>5. QED BY <3>1, <3>2, <3>3, <3>4 DEF OnlyAt
  <2>15. QED BY <1>1, <2>1, <2>13, <2>14
<1>8. CASE c # 0
  <2>1. /\ Len(s) = 7 /\ s[2] = u /\ s[5] = w
        /\ s[1] = Barrier /\ s[3] = Barrier /\ s[4] = Barrier
        /\ s[6] = Barrier /\ s[7] = Barrier
    BY <1>1, <1>8, DriverOfSum
  <2>2. Barriers(s, 1 + 1) = 1
    BY <1>3, <1>6, <2>1, BarriersStep
  <2>3. Barriers(s, 2 + 1) = 1
    BY <1>5, <2>1, <2>2, BarriersStep
  <2>4. Barriers(s, 3 + 1) = 2
    BY <1>3, <2>1, <2>3, BarriersStep
  <2>5. Barriers(s, 4 + 1) = 3
    BY <1>3, <2>1, <2>4, BarriersStep
  <2>6. Barriers(s, 2) = 1 /\ Barriers(s, 5) = 3
    BY <2>2, <2>5
  <2>7. ASSUME NEW n \in 1 .. Len(s)
        PROVE  n = 2 \/ n = 5 \/ n \in {1, 3, 4, 6, 7}
    <3>1. n \in 1 .. 7
      BY <2>1
    <3>2. QED BY <3>1
  <2>8. \A n \in {1, 3, 4, 6, 7} : s[n] = Barrier
    BY <2>1
  <2>9. Staged(s, c, 1, TRUE)
    <3>1. Stage(s[2], Barriers(s, 2), c, 1, TRUE)
      BY <1>2, <2>1, <2>6 DEF Stage
    <3>2. Stage(s[5], Barriers(s, 5), c, 1, TRUE)
      BY <1>2, <2>1, <2>6 DEF Stage
    <3>3. \A n \in {1, 3, 4, 6, 7} : Stage(s[n], Barriers(s, n), c, 1, TRUE)
      BY <1>3, <2>8 DEF Stage
    <3>4. Len(s) \in Nat
      BY <2>1
    <3>5. QED BY <2>7, <3>1, <3>2, <3>3, <3>4 DEF Staged
  <2>10. OnlyAt(s, 2)
    <3>1. ASSUME NEW n \in 1 .. Len(s), n # 2 PROVE ~IsProduct(s[n])
      BY <1>4, <2>1, <2>7, <2>8, <3>1
    <3>2. ASSUME NEW n \in 1 .. Len(s), n # 5 PROVE s[n].op # "inplace"
      BY <1>2, <1>3, <1>5, <2>1, <2>7, <2>8, <3>2
    <3>3. 2 \in 1 .. Len(s) /\ IsProduct(s[2])
      BY <1>2, <2>1
    <3>4. s[5].rows = s[2].rows /\ s[5].cols = s[2].cols
      BY <1>2, <2>1
    <3>5. QED BY <3>1, <3>2, <3>3, <3>4 DEF OnlyAt
  <2>11. QED BY <1>1, <2>1, <2>9, <2>10
<1>9. QED BY <1>7, <1>8

-----------------------------------------------------------------------------
(* How the files share out n rows, columns or elements.                    *)
Part(c, n) == Split(c, n) .. Split(c + 1, n) - 1

(* a is b times q and a rest.                                              *)
LEMMA Division ==
  ASSUME NEW a \in Nat, NEW b \in Nat \ {0}
  PROVE  \E q \in Nat, r \in 0 .. b - 1 :
           q = a \div b /\ r = a % b /\ a = b * q + r
<1>1. PICK q \in Int, r \in 0 .. b - 1 : q = a \div b /\ r = a % b
  OBVIOUS
<1>2. a = b * q + r
  BY <1>1
<1>3. q \in Nat
  <2>1. ASSUME q <= -1 PROVE FALSE
    <3>1. b * q <= b * (-1)
      BY <2>1
    <3>2. b * q + r < 0
      BY <3>1
    <3>3. QED BY <1>2, <3>2
  <2>2. QED BY <2>1
<1>4. QED BY <1>1, <1>2, <1>3

(* A part begins behind x if the cores before it have more than x.         *)
LEMMA SplitBounds ==
  ASSUME NEW c \in Nat, NEW n \in Nat, NEW x \in Nat
  PROVE  /\ Split(c, n) \in Nat
         /\ Split(c, n) <= x <=> c * n < (x + 1) * NCORES
<1>1. NCORES \in Nat \ {0}
  BY KernelsAssumption
<1>2. PICK a : a = c * n
  OBVIOUS
<1>3. a \in Nat
  BY <1>2
<1>4. PICK q \in Nat, r \in 0 .. NCORES - 1 : q = a \div NCORES /\ a = NCORES * q + r
  BY <1>1, <1>3, Division
<1>5. Split(c, n) = q
  BY <1>2, <1>4 DEF Split
<1>6. ASSUME q <= x PROVE a < (x + 1) * NCORES
  <2>1. (x + 1) * NCORES = NCORES * x + NCORES
    BY <1>1
  <2>2. NCORES * q <= NCORES * x
    BY <1>1, <1>6
  <2>3. QED BY <1>1, <1>4, <2>1, <2>2
<1>7. ASSUME a < (x + 1) * NCORES PROVE q <= x
  <2>1. ASSUME x + 1 <= q PROVE FALSE
    <3>1. NCORES * (x + 1) <= NCORES * q
      BY <1>1, <2>1
    <3>2. (x + 1) * NCORES = NCORES * (x + 1)
      BY <1>1
    <3>3. QED BY <1>1, <1>4, <1>7, <3>1, <3>2
  <2>2. QED BY <2>1
<1>8. QED BY <1>2, <1>5, <1>6, <1>7

LEMMA SplitType ==
  ASSUME NEW c \in Nat, NEW n \in Nat
  PROVE  Split(c, n) \in Nat
BY SplitBounds

LEMMA SplitMonotonic ==
  ASSUME NEW c \in Nat, NEW d \in Nat, c <= d, NEW n \in Nat
  PROVE  Split(c, n) <= Split(d, n)
<1>1. PICK x : x = Split(d, n)
  OBVIOUS
<1>2. x \in Nat
  BY <1>1, SplitBounds
<1>3. d * n < (x + 1) * NCORES
  BY <1>1, <1>2, SplitBounds
<1>4. c * n <= d * n
  OBVIOUS
<1>5. NCORES \in Nat
  BY KernelsAssumption
<1>6. c * n < (x + 1) * NCORES
  BY <1>2, <1>3, <1>4, <1>5
<1>7. QED BY <1>1, <1>2, <1>6, SplitBounds

LEMMA PartWithin ==
  ASSUME NEW n \in Nat, NEW c \in Cores
  PROVE  Part(c, n) \subseteq To(n)
<1>1. NCORES \in Nat \ {0} /\ c \in Nat /\ c + 1 \in Nat /\ c + 1 <= NCORES
  BY KernelsAssumption DEF Cores
<1>2. Split(NCORES, n) = n
  <2>1. PICK a : a = NCORES * n
    OBVIOUS
  <2>2. a \div NCORES = n
    BY <1>1, <2>1
  <2>3. QED BY <2>1, <2>2 DEF Split
<1>3. Split(c, n) \in Nat /\ Split(c + 1, n) \in Nat /\ Split(c + 1, n) <= n
  BY <1>1, <1>2, SplitType, SplitMonotonic
<1>4. QED BY <1>3 DEF Part, To

(* No two parts meet, and they are the whole.                              *)
LEMMA PartsApart ==
  ASSUME NEW n \in Nat, NEW c \in Cores, NEW d \in Cores, c # d
  PROVE  Part(c, n) \cap Part(d, n) = {}
<1> USE KernelsAssumption DEF Cores
<1>1. ASSUME NEW e \in Cores, NEW f \in Cores, e < f, NEW x \in Part(e, n), x \in Part(f, n)
      PROVE  FALSE
  <2>1. Split(e + 1, n) <= Split(f, n)
    BY <1>1, SplitMonotonic
  <2>2. Split(e + 1, n) \in Nat /\ Split(f, n) \in Nat /\ Split(e, n) \in Nat
    <3>1. e \in Nat /\ e + 1 \in Nat /\ f \in Nat
      OBVIOUS
    <3>2. QED BY <3>1, SplitType
  <2>3. QED BY <1>1, <2>1, <2>2 DEF Part
<1>2. c < d \/ d < c
  OBVIOUS
<1>3. QED BY <1>1, <1>2

LEMMA PartsWhole ==
  ASSUME NEW n \in Nat, NEW x \in To(n)
  PROVE  \E c \in Cores : x \in Part(c, n)
<1>1. NCORES \in Nat \ {0} /\ n \in Nat \ {0} /\ x \in Nat /\ x + 1 <= n
  BY KernelsAssumption DEF To
<1>2. PICK y : y = (x + 1) * NCORES
  OBVIOUS
<1>3. y \in Nat \ {0} /\ y <= n * NCORES
  BY <1>1, <1>2
<1>4. PICK a : a = y - 1
  OBVIOUS
<1>5. a \in Nat
  BY <1>3, <1>4
<1>6. PICK c \in Nat, r \in 0 .. n - 1 : c = a \div n /\ r = a % n /\ a = n * c + r
  BY <1>1, <1>5, Division
<1>7. c * n < y /\ y <= (c + 1) * n
  <2>1. c * n = n * c /\ (c + 1) * n = n * c + n
    BY <1>1
  <2>2. QED BY <1>1, <1>3, <1>4, <1>6, <2>1
<1>8. c < NCORES
  <2>1. ASSUME NCORES <= c PROVE FALSE
    <3>1. NCORES * n <= c * n
      BY <1>1, <2>1
    <3>2. n * NCORES = NCORES * n
      BY <1>1
    <3>3. QED BY <1>1, <1>3, <1>7, <3>1, <3>2
  <2>2. QED BY <1>1, <2>1
<1>9. Split(c, n) <= x
  BY <1>1, <1>2, <1>7, SplitBounds
<1>10. ~(Split(c + 1, n) <= x)
  <2>1. ~((c + 1) * n < (x + 1) * NCORES)
    BY <1>1, <1>2, <1>3, <1>7
  <2>2. QED BY <1>1, <2>1, SplitBounds
<1>11. Split(c, n) \in Nat /\ Split(c + 1, n) \in Nat
  <2>1. c \in Nat /\ c + 1 \in Nat
    OBVIOUS
  <2>2. QED BY <2>1, SplitType
<1>12. x \in Part(c, n)
  BY <1>1, <1>9, <1>10, <1>11 DEF Part
<1>13. QED BY <1>1, <1>8, <1>12 DEF Cores

(* If the cores go into n, the files that divide first do the same.        *)
LEMMA ShareIsPart ==
  ASSUME NEW n \in Nat, n % NCORES = 0, NEW c \in Cores
  PROVE  Share(c, n) = Part(c, n)
<1>1. NCORES \in Nat \ {0} /\ c \in Nat
  BY KernelsAssumption DEF Cores
<1>2. PICK q \in Nat, r \in 0 .. NCORES - 1 :
        q = n \div NCORES /\ r = n % NCORES /\ n = NCORES * q + r
  BY <1>1, Division
<1>3. n = NCORES * q
  BY <1>1, <1>2
<1>4. ASSUME NEW d \in Nat PROVE Split(d, n) = d * q
  <2>1. PICK a : a = d * n
    OBVIOUS
  <2>2. PICK b : b = d * q
    OBVIOUS
  <2>3. b \in Nat /\ a = NCORES * b
    BY <1>1, <1>3, <2>1, <2>2
  <2>4. a \div NCORES = b
    BY <1>1, <2>3
  <2>5. QED BY <2>1, <2>2, <2>4 DEF Split
<1>5. Split(c, n) = c * q /\ Split(c + 1, n) = (c + 1) * q
  BY <1>1, <1>4
<1>6. QED BY <1>2, <1>5 DEF Share, Part

(* A loop unrolled by times, if m rounds fit.                              *)
WholeRounds(lo, hi, by, m) == /\ lo \in Nat /\ m \in Nat /\ by \in Nat \ {0}
                              /\ hi = lo + by * m
LEMMA RoundsFit ==
  ASSUME NEW lo, NEW hi, NEW by, NEW m, WholeRounds(lo, hi, by, m)
  PROVE  Rounded(lo, hi, by) = lo .. hi - 1
<1> USE DEF WholeRounds
<1>1. PICK size : size = by * m
  OBVIOUS
<1>2. size \in Nat /\ hi = lo + size
  BY <1>1
<1>3. ASSUME NEW x \in Every(lo, hi, by), NEW y \in x .. x + by - 1
      PROVE  y \in lo .. hi - 1
  <2>1. x \in lo .. hi - 1 /\ (x - lo) % by = 0
    BY DEF Every
  <2>2. PICK a : a = x - lo
    OBVIOUS
  <2>3. a \in Nat /\ a < size /\ a % by = 0
    BY <1>2, <2>1, <2>2
  <2>4. PICK q \in Nat, r \in 0 .. by - 1 : q = a \div by /\ r = a % by /\ a = by * q + r
    BY <2>3, Division
  <2>5. a = by * q
    BY <2>3, <2>4
  <2>6. q + 1 <= m
    <3>1. ASSUME m <= q PROVE FALSE
      <4>1. by * m <= by * q
        BY <3>1
      <4>2. QED BY <1>1, <2>3, <2>5, <4>1
    <3>2. QED BY <3>1
  <2>7. a + by <= size
    <3>1. by * (q + 1) <= by * m
      BY <2>6
    <3>2. by * (q + 1) = by * q + by
      OBVIOUS
    <3>3. QED BY <1>1, <2>5, <3>1, <3>2
  <2>8. QED BY <1>2, <2>1, <2>2, <2>3, <2>7
<1>4. ASSUME NEW y \in lo .. hi - 1
      PROVE  \E x \in Every(lo, hi, by) : y \in x .. x + by - 1
  <2>1. PICK a : a = y - lo
    OBVIOUS
  <2>2. a \in Nat /\ y = lo + a
    BY <1>2, <2>1
  <2>3. PICK q \in Nat, r \in 0 .. by - 1 : a = by * q + r
    BY <2>2, Division
  <2>4. PICK b : b = by * q
    OBVIOUS
  <2>5. b \in Nat /\ b % by = 0 /\ a = b + r
    BY <2>3, <2>4
  <2>6. PICK x : x = lo + b
    OBVIOUS
  <2>7. x \in lo .. hi - 1 /\ x - lo = b /\ y \in x .. x + by - 1
    BY <1>2, <2>2, <2>5, <2>6
  <2>8. x \in Every(lo, hi, by)
    BY <2>5, <2>7 DEF Every
  <2>9. QED BY <2>7, <2>8
<1>5. QED BY <1>3, <1>4 DEF Rounded

(* So it is with the shares if by goes into each of them.                  *)
LEMMA SharesFit ==
  ASSUME NEW n \in Nat, NEW by \in Nat \ {0}, n % (by * NCORES) = 0, NEW c \in Cores
  PROVE  /\ n % NCORES = 0
         /\ Rounded(Split(c, n), Split(c + 1, n), by) = Share(c, n)
         /\ Rounded(c * (n \div NCORES), (c + 1) * (n \div NCORES), by) = Share(c, n)
<1>1. NCORES \in Nat \ {0} /\ c \in Nat /\ c + 1 \in Nat
  BY KernelsAssumption DEF Cores
<1>2. PICK b : b = by * NCORES
  OBVIOUS
<1>3. b \in Nat \ {0}
  BY <1>1, <1>2
<1>4. PICK m \in Nat, r \in 0 .. b - 1 : m = n \div b /\ r = n % b /\ n = b * m + r
  BY <1>3, Division
<1>5. PICK q : q = by * m
  OBVIOUS
<1>6. q \in Nat /\ n = NCORES * q
  <2>1. n = b * m
    BY <1>2, <1>3, <1>4
  <2>2. (by * NCORES) * m = NCORES * (by * m)
    BY <1>1
  <2>3. QED BY <1>2, <1>5, <2>1, <2>2
<1>7. n % NCORES = 0 /\ n \div NCORES = q
  BY <1>1, <1>6
<1>8. ASSUME NEW d \in Nat PROVE Split(d, n) = d * q
  <2>1. PICK a : a = d * n
    OBVIOUS
  <2>2. PICK e : e = d * q
    OBVIOUS
  <2>3. e \in Nat /\ a = NCORES * e
    BY <1>1, <1>6, <2>1, <2>2
  <2>4. a \div NCORES = e
    BY <1>1, <2>3
  <2>5. QED BY <2>1, <2>2, <2>4 DEF Split
<1>9. PICK lo, hi : lo = c * q /\ hi = (c + 1) * q
  OBVIOUS
<1>10. lo \in Nat /\ hi = lo + by * m
  <2>1. (c + 1) * q = c * q + q
    BY <1>1, <1>6
  <2>2. QED BY <1>1, <1>5, <1>6, <1>9, <2>1
<1>11. Rounded(lo, hi, by) = lo .. hi - 1
  <2>1. WholeRounds(lo, hi, by, m)
    BY <1>10 DEF WholeRounds
  <2>2. QED BY <2>1, RoundsFit
<1>12. /\ Split(c, n) = lo /\ Split(c + 1, n) = hi
       /\ c * (n \div NCORES) = lo /\ (c + 1) * (n \div NCORES) = hi
  BY <1>1, <1>7, <1>8, <1>9
<1>13. QED BY <1>7, <1>11, <1>12 DEF Share

(* In turn: every core takes the numbers that leave it as the rest.        *)
LEMMA TurnsApart ==
  ASSUME NEW n \in Nat, NEW c \in Cores, NEW d \in Cores, c # d
  PROVE  Every(c, n, NCORES) \cap Every(d, n, NCORES) = {}
<1>1. NCORES \in Nat \ {0}
  BY KernelsAssumption
<1>2. ASSUME NEW e \in Cores, NEW x \in Every(e, n, NCORES) PROVE x % NCORES = e
  <2>1. x \in Nat /\ e \in 0 .. NCORES - 1 /\ e <= x /\ (x - e) % NCORES = 0
    BY <1>1 DEF Every, Cores
  <2>2. PICK a : a = x - e
    OBVIOUS
  <2>3. a \in Nat /\ a % NCORES = 0
    BY <2>1, <2>2
  <2>4. PICK q \in Nat, r \in 0 .. NCORES - 1 :
          q = a \div NCORES /\ r = a % NCORES /\ a = NCORES * q + r
    BY <1>1, <2>3, Division
  <2>5. x = NCORES * q + e
    BY <1>1, <2>1, <2>2, <2>3, <2>4
  <2>6. QED BY <1>1, <2>1, <2>5
<1>3. QED BY <1>2

LEMMA TurnsWhole ==
  ASSUME NEW n \in Nat, NEW x \in To(n)
  PROVE  \E c \in Cores : x \in Every(c, n, NCORES)
<1>1. NCORES \in Nat \ {0} /\ x \in Nat /\ x \in 0 .. n - 1
  BY KernelsAssumption DEF To
<1>2. PICK q \in Nat, r \in 0 .. NCORES - 1 : x = NCORES * q + r
  BY <1>1, Division
<1>3. PICK y : y = NCORES * q
  OBVIOUS
<1>4. y \in Nat /\ x - r = y /\ r <= x
  BY <1>1, <1>2, <1>3
<1>5. y % NCORES = 0
  BY <1>1, <1>3
<1>6. x \in Every(r, n, NCORES)
  BY <1>1, <1>4, <1>5 DEF Every
<1>7. QED BY <1>6 DEF Cores

-----------------------------------------------------------------------------
(* The programs that share out C by such parts.                            *)

(* The parts R of the cores are apart and make up the numbers below n.     *)
Parted(R, n) ==
  /\ \A c \in Cores : R[c] \subseteq To(n)
  /\ \A c, d \in Cores : c # d => R[c] \cap R[d] = {}
  /\ \A x \in To(n) : \E c \in Cores : x \in R[c]

(* u is the product of the rows R, or else of the columns R.               *)
WholeOf(u, R, rows) ==
  /\ IsProduct(u) /\ u.arrays = {} /\ u.ks = All
  /\ u.rows = (IF rows THEN R ELSE All) /\ u.cols = (IF rows THEN All ELSE R)

(* And core c has nothing else than u[c], between the driver's steps.      *)
AreProducts(prog, u, R, rows) ==
  \A c \in Cores : WholeOf(u[c], R[c], rows) /\ prog[c] = mt_matmul(<<u[c]>>)

LEMMA ProductsSound ==
  ASSUME NEW prog, NEW k, k \notin VvaddNames, NEW R, Parted(R, LDA),
         NEW rows \in BOOLEAN, NEW u, AreProducts(prog, u, R, rows)
  PROVE  Sound(prog, k)
<1> USE DEF AreProducts
<1>1. ASSUME NEW c \in Cores
      PROVE  /\ Staged(prog[c], c, 0, FALSE) /\ OnlyAt(prog[c], 1)
             /\ prog[c][1] = u[c]
  <2>1. PICK s, v : s = prog[c] /\ v = u[c]
    OBVIOUS
  <2>2. s = mt_matmul(<<v>>)
    BY <2>1
  <2>3. Len(s) = 3 /\ s[1] = v /\ s[2].op = "barrier" /\ s[3].op = "verify"
    BY <2>2, DriverOfProduct
  <2>4. IsProduct(v) /\ v.arrays = {}
    BY <2>1 DEF WholeOf
  <2>5. Staged(s, c, 0, FALSE) /\ OnlyAt(s, 1)
    BY <2>3, <2>4, ProductStaged
  <2>6. QED BY <2>1, <2>3, <2>5
<1>2. Stages(prog, 0, FALSE)
  BY <1>1 DEF Stages
<1>3. OneEach(prog, 1)
  <2>1. ASSUME NEW c \in Cores, NEW d \in Cores, c # d
        PROVE  ~SameCells(prog[c][1], prog[d][1])
    <3>1. R[c] \cap R[d] = {}
      BY <2>1 DEF Parted
    <3>2. WholeOf(u[c], R[c], rows) /\ WholeOf(u[d], R[d], rows)
      OBVIOUS
    <3>3. u[c].rows \cap u[d].rows = {} \/ u[c].cols \cap u[d].cols = {}
      BY <3>1, <3>2 DEF WholeOf
    <3>4. QED BY <1>1, <3>3 DEF SameCells, Meet
  <2>2. QED BY <1>1, <2>1 DEF OneEach
<1>4. Covers(prog, 1, k)
  <2>1. Extent(k) = Add(All, All, All)
    BY DEF Extent
  <2>2. Extent(k).rows = All /\ Extent(k).cols = All /\ Extent(k).ks = All
    BY <2>1 DEF Add, Step
  <2>3. ASSUME NEW r \in All, NEW m \in All, NEW s \in All
        PROVE  \E c \in Cores : /\ r \in prog[c][1].rows /\ m \in prog[c][1].cols
                                /\ s \in prog[c][1].ks
    <3>1. PICK x : x = IF rows THEN r ELSE m
      OBVIOUS
    <3>2. PICK c \in Cores : x \in R[c]
      BY <3>1 DEF Parted, All
    <3>3. WholeOf(prog[c][1], R[c], rows)
      BY <1>1
    <3>4. QED BY <3>1, <3>2, <3>3 DEF WholeOf
  <2>4. ASSUME NEW c \in Cores PROVE Within(prog[c][1], Extent(k))
    <3>1. WholeOf(prog[c][1], R[c], rows)
      BY <1>1
    <3>2. R[c] \subseteq All
      BY DEF Parted, All
    <3>3. QED BY <2>2, <3>1, <3>2 DEF WholeOf, Within
  <2>5. QED BY <2>2, <2>3, <2>4 DEF Covers
<1>5. QED BY <1>2, <1>3, <1>4, StagesAreSound

LEMMA SumsSound ==
  ASSUME NEW prog, NEW k, k \in VvaddNames, NEW R, Parted(R, DATA_SIZE),
         \A c \in Cores : prog[c] = mt_vvadd(c, <<Sum(R[c])>>)
  PROVE  Sound(prog, k)
<1>1. ASSUME NEW c \in Cores
      PROVE  /\ Staged(prog[c], c, 1, TRUE) /\ OnlyAt(prog[c], 2)
             /\ prog[c][2] = Sum(R[c])
  <2>1. PICK s, X : s = prog[c] /\ X = R[c]
    OBVIOUS
  <2>2. s = mt_vvadd(c, <<Sum(X)>>)
    BY <2>1
  <2>3. Staged(s, c, 1, TRUE) /\ OnlyAt(s, 2) /\ s[2] = Sum(X)
    BY <2>2, SumStaged
  <2>4. QED BY <2>1, <2>3
<1>2. ASSUME NEW c \in Cores
      PROVE  /\ prog[c][2].rows = R[c] /\ prog[c][2].cols = {0} /\ prog[c][2].ks = {0}
  <2>1. ASSUME NEW X PROVE Sum(X).rows = X /\ Sum(X).cols = {0} /\ Sum(X).ks = {0}
    BY DEF Sum, Store, Step
  <2>2. PICK X, u : X = R[c] /\ u = Sum(X)
    OBVIOUS
  <2>3. u.rows = X /\ u.cols = {0} /\ u.ks = {0}
    BY <2>1, <2>2
  <2>4. prog[c][2] = u
    BY <1>1, <2>2
  <2>5. QED BY <2>2, <2>3, <2>4
<1>3. Stages(prog, 1, TRUE)
  BY <1>1 DEF Stages
<1>4. OneEach(prog, 2)
  <2>1. ASSUME NEW c \in Cores, NEW d \in Cores, c # d
        PROVE  ~SameCells(prog[c][2], prog[d][2])
    <3>1. R[c] \cap R[d] = {}
      BY <2>1 DEF Parted
    <3>2. QED BY <1>2, <3>1 DEF SameCells, Meet
  <2>2. QED BY <1>1, <2>1 DEF OneEach
<1>5. Covers(prog, 2, k)
  <2>1. Extent(k) = Add(To(DATA_SIZE), {0}, {0})
    BY DEF Extent
  <2>2. Extent(k).rows = To(DATA_SIZE) /\ Extent(k).cols = {0} /\ Extent(k).ks = {0}
    BY <2>1 DEF Add, Step
  <2>3. ASSUME NEW r \in To(DATA_SIZE), NEW m \in {0}, NEW s \in {0}
        PROVE  \E c \in Cores : /\ r \in prog[c][2].rows /\ m \in prog[c][2].cols
                                /\ s \in prog[c][2].ks
    <3>1. PICK c \in Cores : r \in R[c]
      BY DEF Parted
    <3>2. QED BY <1>2, <3>1
  <2>4. ASSUME NEW c \in Cores PROVE Within(prog[c][2], Extent(k))
    <3>1. R[c] \subseteq To(DATA_SIZE)
      BY DEF Parted
    <3>2. QED BY <1>2, <2>2, <3>1 DEF Within
  <2>5. QED BY <2>2, <2>3, <2>4 DEF Covers
<1>6. QED BY <1>3, <1>4, <1>5, StagesAreSound

-----------------------------------------------------------------------------
(* A set of numbers has a least one.                                       *)
LEMMA Least ==
  ASSUME NEW T, T \subseteq Nat, T # {}
  PROVE  \E m \in T : \A n \in T : m <= n
<1> DEFINE less == {ss \in Nat \X Nat : ss[1] < ss[2]}
<1>1. IsWellFoundedOn(less, Nat)
  BY NatLessThanWellFounded DEF OpToRel
<1>2. PICK m \in T : \A n \in T : <<n, m>> \notin less
  <2> HIDE DEF less
  <2> QED BY <1>1, WFMin
<1>3. ASSUME NEW n \in T, n < m PROVE FALSE
  <2>1. <<n, m>> \in Nat \X Nat /\ <<n, m>>[1] < <<n, m>>[2]
    BY <1>3
  <2>2. QED BY <1>2, <2>1
<1>4. QED BY <1>3

(* A set that has 0, and with each number the next one up to n.            *)
LEMMA UpTo ==
  ASSUME NEW n \in Nat, NEW T, 0 \in T, \A k \in 0 .. n - 1 : k \in T => k + 1 \in T
  PROVE  0 .. n \subseteq T
<1> SUFFICES ASSUME 0 .. n \ T # {} PROVE FALSE
  OBVIOUS
<1>1. PICK m \in 0 .. n \ T : \A k \in 0 .. n \ T : m <= k
  <2>1. PICK U : U = 0 .. n \ T
    OBVIOUS
  <2>2. U # {} /\ U \subseteq Nat
    BY <2>1
  <2>3. QED BY <2>1, <2>2, Least
<1>2. m - 1 \in 0 .. n - 1 /\ m - 1 \in T
  <2>1. m # 0 /\ m \in 0 .. n
    OBVIOUS
  <2>2. m - 1 \in 0 .. n - 1 /\ ~(m <= m - 1) /\ m - 1 \in 0 .. n
    BY <2>1
  <2>3. QED BY <1>1, <2>2
<1>3. m - 1 + 1 = m
  OBVIOUS
<1>4. QED BY <1>2, <1>3

(* Loops.  K turns of L steps each, one after the other.                   *)
Turns(seqs, K, L, S) ==
  /\ Len(seqs) = K /\ \A i \in 1 .. K : seqs[i] \in Seq(S) /\ Len(seqs[i]) = L

(* s has them all, and nothing else.                                       *)
InTurn(s, seqs, K, L) ==
  /\ Len(s) = K * L
  /\ \A i \in 1 .. K, j \in 1 .. L : s[(i - 1) * L + j] = seqs[i][j]
  /\ \A n \in 1 .. K * L : \E i \in 1 .. K, j \in 1 .. L : n = (i - 1) * L + j

(* The place of step j of turn i.                                          *)
IsPlace(n, i, j, L) ==
  ((n - 1) \div L) + 1 = i /\ ((n - 1) % L) + 1 = j /\ n \in Nat \ {0}

LEMMA PlaceInTurn ==
  ASSUME NEW L \in Nat \ {0}, NEW i \in Nat \ {0}, NEW j \in 1 .. L, NEW n,
         n = (i - 1) * L + j
  PROVE  IsPlace(n, i, j, L)
<1>1. PICK q, r, a : q = i - 1 /\ r = j - 1 /\ a = n - 1
  OBVIOUS
<1>2. q \in Nat /\ r \in 0 .. L - 1
  BY <1>1
<1>3. n = q * L + j
  BY <1>1
<1>4. a = L * q + r
  BY <1>1, <1>2, <1>3
<1>5. a \in Nat
  BY <1>2, <1>4
<1>6. a \div L = q /\ a % L = r
  BY <1>2, <1>4, <1>5
<1>7. n - 1 = a /\ n \in Nat \ {0} /\ i = q + 1 /\ j = r + 1
  BY <1>1, <1>2, <1>5
<1>8. QED BY <1>6, <1>7 DEF IsPlace

(* Every place is of a step of a turn.                                     *)
LEMMA TurnOf ==
  ASSUME NEW L \in Nat \ {0}, NEW K \in Nat, NEW n \in 1 .. K * L
  PROVE  \E i \in 1 .. K, j \in 1 .. L : n = (i - 1) * L + j
<1>1. PICK a : a = n - 1
  OBVIOUS
<1>2. K * L \in Nat
  OBVIOUS
<1>3. a \in Nat /\ a < K * L
  BY <1>1, <1>2
<1>4. PICK q \in Nat, r \in 0 .. L - 1 : q = a \div L /\ r = a % L /\ a = L * q + r
  BY <1>3, Division
<1>5. q < K
  <2>1. ASSUME K <= q PROVE FALSE
    <3>1. L * K <= L * q
      BY <2>1
    <3>2. L * K = K * L
      OBVIOUS
    <3>3. QED BY <1>3, <1>4, <3>1, <3>2
  <2>2. QED BY <2>1
<1>6. n = (q + 1 - 1) * L + (r + 1)
  <2>1. (q + 1 - 1) * L = L * q
    OBVIOUS
  <2>2. QED BY <1>1, <1>4, <2>1
<1>7. PICK i, j : i = q + 1 /\ j = r + 1
  OBVIOUS
<1>8. i \in 1 .. K /\ j \in 1 .. L /\ n = (i - 1) * L + j
  BY <1>5, <1>6, <1>7
<1>9. QED BY <1>8

(* The first i turns.                                                      *)
FirstTurns(cell, i, L) == [n \in 1 .. i * L |-> cell[n]]

AreCells(cell, n, S) == \A k \in 1 .. n : cell[k] \in S
IsFirst(w, cell, n, S) == /\ w \in Seq(S) /\ Len(w) = n
                          /\ \A k \in 1 .. n : w[k] = cell[k]

LEMMA FirstTurnsType ==
  ASSUME NEW L \in Nat, NEW K \in Nat, NEW S, NEW cell, AreCells(cell, K * L, S),
         NEW i \in 0 .. K
  PROVE  IsFirst(FirstTurns(cell, i, L), cell, i * L, S)
<1>1. PICK m : m = i * L
  OBVIOUS
<1>2. m \in Nat /\ m <= K * L
  <2>1. i * L <= K * L
    OBVIOUS
  <2>2. QED BY <1>1, <2>1
<1>3. PICK w : w = [n \in 1 .. m |-> cell[n]]
  OBVIOUS
<1>4. \A n \in 1 .. m : cell[n] \in S
  <2>1. PICK k : k = K * L
    OBVIOUS
  <2>2. k \in Nat /\ m <= k /\ \A n \in 1 .. k : cell[n] \in S
    BY <1>2, <2>1 DEF AreCells
  <2>3. QED BY <1>2, <2>2
<1>5. w \in Seq(S) /\ Len(w) = m
  BY <1>2, <1>3, <1>4
<1>6. FirstTurns(cell, i, L) = w
  BY <1>1, <1>3 DEF FirstTurns
<1>7. QED BY <1>1, <1>3, <1>5, <1>6 DEF IsFirst

AreSteps(cell, seqs, K, L) ==
  \A i \in 1 .. K, j \in 1 .. L : cell[(i - 1) * L + j] = seqs[i][j]

HasTurn(cell, seqs, i, L) ==
  FirstTurns(cell, i, L) = FirstTurns(cell, i - 1, L) \o seqs[i]

(* One turn more is joined to those before it.                             *)
LEMMA OneTurnMore ==
  ASSUME NEW S, NEW K \in Nat, NEW L \in Nat \ {0}, NEW seqs, Turns(seqs, K, L, S),
         NEW cell, AreCells(cell, K * L, S),
         AreSteps(cell, seqs, K, L), NEW i \in 1 .. K
  PROVE  HasTurn(cell, seqs, i, L)
<1>1. PICK w, v, t, r : /\ w = FirstTurns(cell, i, L) /\ v = FirstTurns(cell, i - 1, L)
                        /\ t = seqs[i] /\ r = v \o t
  OBVIOUS
<1>2. w \in Seq(S) /\ Len(w) = i * L /\ \A n \in 1 .. i * L : w[n] = cell[n]
  <2>1. i \in 0 .. K /\ L \in Nat
    OBVIOUS
  <2>2. IsFirst(FirstTurns(cell, i, L), cell, i * L, S)
    BY <2>1, FirstTurnsType
  <2>3. QED BY <1>1, <2>2 DEF IsFirst
<1>3. PICK h, m : h = i - 1 /\ m = h * L
  OBVIOUS
<1>4. h \in 0 .. K /\ h \in Nat /\ m \in Nat /\ i * L = m + L
  BY <1>3
<1>5. v \in Seq(S) /\ Len(v) = m /\ \A n \in 1 .. m : v[n] = cell[n]
  <2>1. v = FirstTurns(cell, h, L)
    BY <1>1, <1>3
  <2>2. IsFirst(v, cell, h * L, S)
    BY <1>4, <2>1, FirstTurnsType
  <2>3. QED BY <1>3, <2>2 DEF IsFirst
<1>6. t \in Seq(S) /\ Len(t) = L
  BY <1>1 DEF Turns
<1>7. \A j \in 1 .. L : cell[m + j] = t[j]
  BY <1>1, <1>3 DEF AreSteps
<1>8. IsJoin(S, v, t, r)
  BY <1>1, <1>5, <1>6, Joined
<1>9. r \in Seq(S) /\ Len(r) = m + L
  BY <1>5, <1>6, <1>8 DEF IsJoin
<1>10. ASSUME NEW n \in 1 .. m + L PROVE w[n] = r[n]
  <2>1. w[n] = cell[n]
    BY <1>2, <1>4
  <2>2. CASE n <= m
    BY <1>4, <1>5, <1>8, <2>1, <2>2 DEF IsJoin
  <2>3. CASE n > m
    <3>1. PICK j : j = n - m
      OBVIOUS
    <3>2. j \in 1 .. L /\ n = m + j
      BY <1>4, <2>3, <3>1
    <3>3. r[m + j] = t[j]
      BY <1>5, <1>6, <1>8, <3>2 DEF IsJoin
    <3>4. QED BY <1>7, <2>1, <3>2, <3>3
  <2>4. QED BY <1>4, <2>2, <2>3
<1>11. w = r
  BY <1>2, <1>4, <1>9, <1>10, SeqEqual
<1>12. QED BY <1>1, <1>11 DEF HasTurn

(* FlattenSeq puts the turns one behind the other.                         *)
LEMMA Flattened ==
  ASSUME NEW S, NEW K \in Nat, NEW L \in Nat \ {0}, NEW seqs, Turns(seqs, K, L, S)
  PROVE  InTurn(FlattenSeq(seqs), seqs, K, L)
<1> DEFINE flatten == CHOOSE g : g = [i \in 1 .. Len(seqs) |->
                        IF i = 1 THEN seqs[i] ELSE g[i - 1] \o seqs[i]]
<1>1. Len(seqs) = K
  BY DEF Turns
<1>2. PICK cell : cell = [n \in Nat |-> seqs[((n - 1) \div L) + 1][((n - 1) % L) + 1]]
  OBVIOUS
<1>3. ASSUME NEW i \in 1 .. K, NEW j \in 1 .. L
      PROVE  cell[(i - 1) * L + j] = seqs[i][j]
  <2>1. PICK n : n = (i - 1) * L + j
    OBVIOUS
  <2>2. ((n - 1) \div L) + 1 = i /\ ((n - 1) % L) + 1 = j /\ n \in Nat \ {0}
    <3>1. i \in Nat \ {0}
      OBVIOUS
    <3>2. IsPlace(n, i, j, L)
      BY <2>1, <3>1, PlaceInTurn
    <3>3. QED BY <3>2 DEF IsPlace
  <2>3. QED BY <1>2, <2>1, <2>2
<1>4. AreCells(cell, K * L, S)
  <2> SUFFICES ASSUME NEW n \in 1 .. K * L PROVE cell[n] \in S
    BY DEF AreCells
  <2>1. PICK i \in 1 .. K, j \in 1 .. L : n = (i - 1) * L + j
    BY TurnOf
  <2>2. cell[n] = seqs[i][j]
    BY <1>3, <2>1
  <2>3. seqs[i] \in Seq(S) /\ Len(seqs[i]) = L
    BY DEF Turns
  <2>4. QED BY <2>2, <2>3
<1>5. ASSUME NEW i \in 1 .. K
      PROVE  FirstTurns(cell, i, L) = FirstTurns(cell, i - 1, L) \o seqs[i]
  <2>1. AreSteps(cell, seqs, K, L)
    BY <1>3 DEF AreSteps
  <2>2. HasTurn(cell, seqs, i, L)
    BY <1>4, <2>1, OneTurnMore
  <2>3. QED BY <2>2 DEF HasTurn
<1>6. ASSUME NEW w, IsFirst(w, cell, K * L, S) PROVE InTurn(w, seqs, K, L)
  <2>1. ASSUME NEW i \in 1 .. K, NEW j \in 1 .. L
        PROVE  w[(i - 1) * L + j] = seqs[i][j]
    <3>1. PICK n : n = (i - 1) * L + j
      OBVIOUS
    <3>2. n \in 1 .. K * L
      <4>1. (i - 1) * L + L <= K * L /\ (i - 1) * L \in Nat
        <5>1. (i - 1) * L + L = i * L
          OBVIOUS
        <5>2. i * L <= K * L
          OBVIOUS
        <5>3. QED BY <5>1, <5>2
      <4>2. PICK a, b : a = (i - 1) * L /\ b = K * L
        OBVIOUS
      <4>3. QED BY <3>1, <4>1, <4>2
    <3>3. QED BY <1>3, <1>6, <3>1, <3>2 DEF IsFirst
  <2>2. \A n \in 1 .. K * L : \E i \in 1 .. K, j \in 1 .. L : n = (i - 1) * L + j
    BY TurnOf
  <2>3. QED BY <1>6, <2>1, <2>2 DEF InTurn, IsFirst
<1>7. CASE K = 0
  <2>1. FlattenSeq(seqs) = seqs
    BY <1>1, <1>7 DEF FlattenSeq
  <2>2. K * L = 0
    BY <1>7
  <2>3. QED BY <1>1, <1>7, <2>1, <2>2 DEF InTurn
<1>8. CASE K # 0
  <2>1. PICK W : W = [i \in 1 .. K |-> FirstTurns(cell, i, L)]
    OBVIOUS
  <2>2. W[1] = seqs[1]
    <3>1. 1 \in 1 .. K
      BY <1>8
    <3>2. PICK w, t : w = FirstTurns(cell, 1, L) /\ t = seqs[1]
      OBVIOUS
    <3>3. IsFirst(w, cell, 1 * L, S)
      BY <1>4, <3>1, <3>2, FirstTurnsType
    <3>4. w \in Seq(S) /\ Len(w) = L /\ \A j \in 1 .. L : w[j] = cell[j]
      BY <3>3 DEF IsFirst
    <3>5. t \in Seq(S) /\ Len(t) = L
      BY <3>1, <3>2 DEF Turns
    <3>6. ASSUME NEW j \in 1 .. L PROVE cell[j] = t[j]
      <4>1. (1 - 1) * L + j = j
        OBVIOUS
      <4>2. QED BY <1>3, <3>1, <3>2, <4>1
    <3>7. w = t
      BY <3>4, <3>5, <3>6, SeqEqual
    <3>8. QED BY <2>1, <3>1, <3>2, <3>7
  <2>3. ASSUME NEW i \in 1 .. K, i # 1 PROVE W[i] = W[i - 1] \o seqs[i]
    <3>1. i - 1 \in 1 .. K
      BY <2>3
    <3>2. QED BY <1>5, <2>1, <3>1
  <2>4. W = [i \in 1 .. Len(seqs) |-> IF i = 1 THEN seqs[i] ELSE W[i - 1] \o seqs[i]]
    <3>1. W = [i \in 1 .. K |-> W[i]]
      BY <2>1
    <3>2. ASSUME NEW i \in 1 .. K
          PROVE  W[i] = IF i = 1 THEN seqs[i] ELSE W[i - 1] \o seqs[i]
      BY <2>2, <2>3
    <3>3. QED BY <1>1, <3>1, <3>2
  <2>5. flatten = [i \in 1 .. Len(seqs) |->
                     IF i = 1 THEN seqs[i] ELSE flatten[i - 1] \o seqs[i]]
    BY <2>4
  <2>6. FlattenSeq(seqs) = flatten[K]
    BY <1>1, <1>8 DEF FlattenSeq
  <2> HIDE DEF flatten
  <2>7. flatten[K] = W[K]
    <3> DEFINE T == {0} \cup {i \in 1 .. K : flatten[i] = W[i]}
    <3>1. ASSUME NEW i \in 0 .. K - 1, i \in T PROVE i + 1 \in T
      <4>1. i + 1 \in 1 .. K
        OBVIOUS
      <4>2. CASE i = 0
        <5>1. flatten[1] = seqs[1] /\ 1 \in 1 .. K
          BY <1>1, <1>8, <2>5
        <5>2. QED BY <2>2, <4>2, <5>1
      <4>3. CASE i # 0
        <5>1. flatten[i] = W[i] /\ i + 1 # 1 /\ i + 1 - 1 = i
          BY <3>1, <4>3
        <5>2. PICK m : m = i + 1
          OBVIOUS
        <5>3. m \in 1 .. K /\ m # 1 /\ m - 1 = i
          BY <4>1, <5>1, <5>2
        <5>4. flatten[m] = flatten[m - 1] \o seqs[m]
          BY <1>1, <2>5, <5>3
        <5>5. W[m] = W[m - 1] \o seqs[m]
          BY <2>3, <5>3
        <5>6. QED BY <5>1, <5>2, <5>3, <5>4, <5>5
      <4>4. QED BY <4>2, <4>3
    <3>2. 0 \in T
      OBVIOUS
    <3>3. 0 .. K \subseteq T
      <4> HIDE DEF T
      <4> QED BY <3>1, <3>2, UpTo
    <3>4. K \in 0 .. K
      OBVIOUS
    <3>5. QED BY <1>8, <3>3, <3>4
  <2>8. IsFirst(W[K], cell, K * L, S)
    BY <1>4, <1>8, <2>1, FirstTurnsType
  <2>9. QED BY <1>6, <2>6, <2>7, <2>8
<1>9. QED BY <1>7, <1>8

-----------------------------------------------------------------------------
(* The lock.  Every step of a hart takes the lock, or works with it, or    *)
(* gives it back.                                                          *)
UsesLock(s) ==
  /\ Len(s) \in Nat
  /\ \A n \in 1 .. Len(s) :
       \/ s[n].op = "get_lock"
       \/ s[n].op = "copy" /\ n > 1 /\ s[n - 1].op = "get_lock"
       \/ /\ s[n].op = "put_lock" /\ n > 2
          /\ s[n - 1].op = "copy" /\ s[n - 2].op = "get_lock"

LockTurn == <<Sync("get_lock"), Copy({Static("buf")}, To(32), {0}, {0}), Sync("put_lock")>>

(* multicore.c, whatever the number of turns.                              *)
LEMMA LockText ==
  ASSUME NEW c
  PROVE  UsesLock(multicore(c))
<1>1. PICK seqs : seqs = [n \in 1 .. Rounds |-> LockTurn]
  OBVIOUS
<1>2. multicore(c) = FlattenSeq(seqs)
  <2>1. Rounds \in Nat
    BY KernelsAssumption
  <2>2. (Rounds - 0 + 1 - 1) \div 1 = Rounds
    BY <2>1
  <2>3. PICK loop : loop = Loop(0, Rounds, 1)
    OBVIOUS
  <2>4. DOMAIN loop = 1 .. Rounds
    BY <2>2, <2>3 DEF Loop
  <2>5. multicore(c) = FlattenSeq([n \in DOMAIN loop |-> LockTurn])
    BY <2>3 DEF multicore, For, LockTurn
  <2>6. QED BY <1>1, <2>4, <2>5
<1>3. /\ LockTurn[1].op = "get_lock" /\ LockTurn[2].op = "copy"
      /\ LockTurn[3].op = "put_lock" /\ Len(LockTurn) = 3
  BY DEF LockTurn, Sync, Copy, Step
<1>4. PICK S : S = {LockTurn[1], LockTurn[2], LockTurn[3]}
  OBVIOUS
<1>5. LockTurn \in Seq(S)
  BY <1>4 DEF LockTurn
<1>6. Rounds \in Nat /\ 3 \in Nat \ {0}
  BY KernelsAssumption
<1>7. Turns(seqs, Rounds, 3, S)
  BY <1>1, <1>3, <1>5, <1>6 DEF Turns
<1>8. PICK s : s = multicore(c)
  OBVIOUS
<1>9. InTurn(s, seqs, Rounds, 3)
  BY <1>2, <1>6, <1>7, <1>8, Flattened
<1>10. Len(s) = Rounds * 3
  BY <1>9 DEF InTurn
<1>11. ASSUME NEW n \in 1 .. Len(s)
       PROVE  \/ s[n].op = "get_lock"
              \/ s[n].op = "copy" /\ n > 1 /\ s[n - 1].op = "get_lock"
              \/ /\ s[n].op = "put_lock" /\ n > 2
                 /\ s[n - 1].op = "copy" /\ s[n - 2].op = "get_lock"
  <2>1. PICK i \in 1 .. Rounds, j \in 1 .. 3 : n = (i - 1) * 3 + j
    BY <1>9, <1>10 DEF InTurn
  <2>2. PICK h : h = (i - 1) * 3
    OBVIOUS
  <2>3. h \in Nat
    BY <1>6, <2>2
  <2>4. \A m \in 1 .. 3 : s[h + m] = LockTurn[m]
    BY <1>1, <1>9, <2>2 DEF InTurn
  <2>5. /\ s[h + 1].op = "get_lock" /\ s[h + 2].op = "copy" /\ s[h + 3].op = "put_lock"
    BY <1>3, <2>4
  <2>6. n = h + 1 \/ n = h + 2 \/ n = h + 3
    BY <2>1, <2>2, <2>3
  <2>7. CASE n = h + 1
    BY <2>5, <2>7
  <2>8. CASE n = h + 2
    <3>1. n - 1 = h + 1 /\ n > 1
      BY <2>3, <2>8
    <3>2. QED BY <2>5, <2>8, <3>1
  <2>9. CASE n = h + 3
    <3>1. n - 1 = h + 2 /\ n - 2 = h + 1 /\ n > 2
      BY <2>3, <2>9
    <3>2. QED BY <2>5, <2>9, <3>1
  <2>10. QED BY <2>6, <2>7, <2>8, <2>9
<1>12. QED BY <1>6, <1>8, <1>10, <1>11 DEF UsesLock

(* What a hart does other than take the lock, it does with the lock.       *)
LEMMA LockSound ==
  ASSUME NEW prog, \A c \in Cores : UsesLock(prog[c]), NEW k
  PROVE  Sound(prog, k)
<1>1. ASSUME NEW c \in Cores, NEW n \in 1 .. Len(prog[c])
      PROVE  /\ prog[c][n].op \in {"get_lock", "copy", "put_lock"}
             /\ prog[c][n].op # "get_lock" => Held(prog[c], n)
  <2>1. PICK s : s = prog[c]
    OBVIOUS
  <2>2. UsesLock(s) /\ n \in Nat
    BY <2>1 DEF UsesLock
  <2>3. ASSUME n > 1, s[n - 1].op = "get_lock" PROVE Held(s, n)
    <3>1. PICK m : m = n - 1
      OBVIOUS
    <3>2. m \in 1 .. n - 1 /\ m + 1 .. n - 1 = {}
      BY <2>2, <2>3, <3>1
    <3>3. QED BY <2>3, <3>1, <3>2 DEF Held
  <2>4. ASSUME n > 2, s[n - 1].op = "copy", s[n - 2].op = "get_lock" PROVE Held(s, n)
    <3>1. PICK m : m = n - 2
      OBVIOUS
    <3>2. m \in 1 .. n - 1 /\ \A j \in m + 1 .. n - 1 : j = n - 1
      BY <2>2, <2>4, <3>1
    <3>3. QED BY <2>4, <3>1, <3>2 DEF Held
  <2>5. QED BY <2>1, <2>2, <2>3, <2>4 DEF UsesLock
<1>2. ASSUME NEW e \in StepsOf(prog)
      PROVE  prog[e[1]][e[2]].op \in {"get_lock", "copy", "put_lock"}
  <2>1. PICK c \in Cores : e \in {c} \X (1 .. Len(prog[c]))
    BY DEF StepsOf
  <2>2. e[1] = c /\ e[2] \in 1 .. Len(prog[c])
    BY <2>1
  <2>3. QED BY <1>1, <2>2
<1>3. \A c \in Cores : Len(prog[c]) \in Nat
  BY DEF UsesLock
<1>4. LocksPaired(prog)
  BY <1>1 DEF LocksPaired
<1>5. CopiesFirst(prog)
  BY <1>2 DEF CopiesFirst, IsProduct
<1>6. ConflictsApart(prog)
  BY <1>1 DEF ConflictsApart, Works
<1>7. ~Verifies(prog)
  BY <1>2 DEF Verifies
<1>8. QED BY <1>3, <1>4, <1>5, <1>6, <1>7 DEF Sound

-----------------------------------------------------------------------------
(* The programs by name.                                                   *)

(* The parts of the files.                                                 *)
LEMMA Parts ==
  ASSUME NEW n \in Nat
  PROVE  /\ Parted([c \in Cores |-> Part(c, n)], n)
         /\ Parted([c \in Cores |-> Every(c, n, NCORES)], n)
<1>1. Parted([c \in Cores |-> Part(c, n)], n)
  BY PartWithin, PartsApart, PartsWhole DEF Parted
<1>2. Parted([c \in Cores |-> Every(c, n, NCORES)], n)
  <2>1. ASSUME NEW c \in Cores PROVE Every(c, n, NCORES) \subseteq To(n)
    BY KernelsAssumption DEF Every, To, Cores
  <2>2. QED BY <2>1, TurnsApart, TurnsWhole DEF Parted
<1>3. QED BY <1>1, <1>2

LEMMA SharesParted ==
  ASSUME NEW n \in Nat, n % NCORES = 0
  PROVE  /\ Parted([c \in Cores |-> Share(c, n)], n)
         /\ Parted([c \in Cores |-> Share(c, n) \cap To(n)], n)
<1>1. PICK P : P = [c \in Cores |-> Part(c, n)]
  OBVIOUS
<1>2. Parted(P, n)
  BY <1>1, Parts
<1>3. \A c \in Cores : Share(c, n) = P[c]
  BY <1>1, ShareIsPart
<1>4. Parted([c \in Cores |-> Share(c, n)], n)
  BY <1>2, <1>3 DEF Parted
<1>5. Parted([c \in Cores |-> Share(c, n) \cap To(n)], n)
  BY <1>2, <1>3 DEF Parted
<1>6. QED BY <1>4, <1>5

(* What the products are of.                                               *)
LEMMA Whole ==
  ASSUME NEW R
  PROVE  /\ WholeOf(Add(R, All, All), R, TRUE) /\ WholeOf(Store(R, All, All), R, TRUE)
         /\ WholeOf(Add(All, R, All), R, FALSE)
BY DEF WholeOf, Add, Store, Step, IsProduct

LEMMA MatmulText ==
  ASSUME NEW c, NEW k, k \in MatmulNames, k \notin VvaddNames
  PROVE  Program(c, k) = mt_matmul(Matmuls(c)[k])
BY DEF Program

LEMMA VvaddText ==
  ASSUME NEW c, NEW k, k \in VvaddNames, k \notin MatmulNames
  PROVE  Program(c, k) = mt_vvadd(c, Vvadds(c)[k])
BY DEF Program

LEMMA Names ==
  /\ {"af", "am", "ap", "ar", "at", "bb", "do", "du", "matmul"} \subseteq MatmulNames
  /\ {"vvadd4", "vvadd"} \subseteq VvaddNames
  /\ "vvadd4" \notin MatmulNames /\ "vvadd" \notin MatmulNames
  /\ "multicore" \notin MatmulNames
  /\ VvaddNames = {"vvadd0", "vvadd1", "vvadd2", "vvadd3", "vvadd4", "vvadd"}
<1>1. {"af", "am", "ap", "ar", "at", "bb", "do", "du", "matmul"} \subseteq MatmulNames
  BY DEF MatmulNames, Matmuls
<1>2. VvaddNames = {"vvadd0", "vvadd1", "vvadd2", "vvadd3", "vvadd4", "vvadd"}
  BY DEF VvaddNames, Vvadds
<1>3. /\ "vvadd4" \notin MatmulNames /\ "vvadd" \notin MatmulNames
      /\ "multicore" \notin MatmulNames
  BY DEF MatmulNames, Matmuls
<1>4. QED BY <1>1, <1>2, <1>3

(* The sizes, and numbers of cores, that a program of mt_kernels is right  *)
(* for: its rounds fit the cores' shares, and the copy it makes of B on    *)
(* its stack, of 32 by 32, is filled and not overrun.  The sums in turn    *)
(* and the locked buffer ask for nothing.                                  *)
Fits(k) ==
  \/ k \in {"vvadd4", "vvadd", "multicore"}
  \/ k \in {"ap", "matmul"} /\ LDA % NCORES = 0
  \/ k = "ar" /\ LDA % NCORES = 0 /\ LDA <= 32
  \/ k = "bb" /\ LDA % (4 * NCORES) = 0
  \/ k = "do" /\ LDA % NCORES = 0 /\ LDA = 32
  \/ k \in {"af", "am", "du"} /\ LDA % (2 * NCORES) = 0 /\ LDA = 32
  \/ k = "at" /\ LDA % (8 * NCORES) = 0 /\ LDA = 32

LEMMA SharedOut ==
  ASSUME NEW k, k \in MatmulNames, Fits(k)
  PROVE  LDA % NCORES = 0
<1>1. LDA \in Nat
  BY KernelsAssumption
<1>2. \A by \in Nat \ {0} : LDA % (by * NCORES) = 0 => LDA % NCORES = 0
  <2>1. 0 \in Cores
    BY KernelsAssumption DEF Cores
  <2>2. QED BY <1>1, <2>1, SharesFit
<1>3. 2 \in Nat \ {0} /\ 4 \in Nat \ {0} /\ 8 \in Nat \ {0}
  OBVIOUS
<1>4. k \notin {"vvadd4", "vvadd", "multicore"}
  BY Names
<1>5. QED BY <1>2, <1>3, <1>4 DEF Fits

(* What a core does then, in rows or columns of its share of C.            *)
LEMMA Bodies ==
  ASSUME NEW c
  PROVE  /\ Matmuls(c)["ap"] = <<Add(Share(c, LDA), All, All)>>
         /\ Matmuls(c)["ar"] = <<Add(Share(c, LDA) \cap To(LDA), All, All)>>
         /\ Matmuls(c)["matmul"] = <<Store(Share(c, LDA), All, All)>>
         /\ LDA = 32 => Matmuls(c)["do"] = <<Store(Share(c, LDA), All, All)>>
<1>1. /\ Matmuls(c)["ap"] = ap_matmul(c) /\ Matmuls(c)["ar"] = ar_matmul(c)
      /\ Matmuls(c)["matmul"] = matmul(c) /\ Matmuls(c)["do"] = do_matmul(c)
  BY DEF Matmuls
<1>2. /\ ap_matmul(c) = <<Add(Share(c, LDA), All, All)>>
      /\ ar_matmul(c) = <<Add(Share(c, LDA) \cap To(LDA), All, All)>>
      /\ matmul(c) = <<Store(Share(c, LDA), All, All)>>
  BY DEF ap_matmul, ar_matmul, matmul, All
<1>3. LDA = 32 => do_matmul(c) = <<Store(Share(c, LDA), All, All)>>
  BY DEF do_matmul, All
<1>4. QED BY <1>1, <1>2, <1>3

LEMMA UnrolledBodies ==
  ASSUME NEW c \in Cores, NEW k, Fits(k)
  PROVE  /\ k = "bb" => Matmuls(c)[k] = <<Store(Share(c, LDA), All, All)>>
         /\ k \in {"af", "am", "du"} => Matmuls(c)[k] = <<Store(Share(c, LDA), All, All)>>
         /\ k = "at" => Matmuls(c)[k] = <<Add(All, Share(c, LDA), All)>>
<1>1. LDA \in Nat /\ NCORES \in Nat \ {0} /\ 2 \in Nat \ {0} /\ 4 \in Nat \ {0} /\ 8 \in Nat \ {0}
  BY KernelsAssumption
<1>2. CASE k = "bb"
  <2>1. LDA % (4 * NCORES) = 0
    BY <1>2 DEF Fits
  <2>2. Rounded(c * (LDA \div NCORES), (c + 1) * (LDA \div NCORES), 4) = Share(c, LDA)
    BY <1>1, <2>1, SharesFit
  <2>3. Rounded(0, LDA, 2) = All
    <3>1. PICK b : b = 4 * NCORES
      OBVIOUS
    <3>2. b \in Nat \ {0} /\ LDA % b = 0
      BY <1>1, <2>1, <3>1
    <3>3. PICK m \in Nat, r \in 0 .. b - 1 : m = LDA \div b /\ r = LDA % b /\ LDA = b * m + r
      BY <1>1, <3>2, Division
    <3>4. PICK h : h = 2 * (NCORES * m)
      OBVIOUS
    <3>5. h \in Nat /\ LDA = 2 * h
      <4>1. LDA = (4 * NCORES) * m
        BY <3>1, <3>2, <3>3
      <4>2. (4 * NCORES) * m = 2 * (2 * (NCORES * m)) /\ NCORES * m \in Nat
        BY <1>1
      <4>3. QED BY <3>4, <4>1, <4>2
    <3>6. WholeRounds(0, LDA, 2, h)
      BY <1>1, <3>5 DEF WholeRounds
    <3>7. QED BY <3>6, RoundsFit DEF All, To
  <2>4. bb_matmul(c) = <<Store(Rounded(c * (LDA \div NCORES), (c + 1) * (LDA \div NCORES), 4),
                               Rounded(0, LDA, 2), All)>>
    BY DEF bb_matmul
  <2>5. Matmuls(c)[k] = bb_matmul(c)
    BY <1>2 DEF Matmuls
  <2>6. QED BY <1>2, <2>2, <2>3, <2>4, <2>5
<1>3. CASE k \in {"af", "am", "du"}
  <2>1. LDA % (2 * NCORES) = 0 /\ LDA = 32
    BY <1>3 DEF Fits
  <2>2. Rounded(Split(c, LDA), Split(c + 1, LDA), 2) = Share(c, LDA)
    BY <1>1, <2>1, SharesFit
  <2>3. /\ af_matmul(c) = <<Store(Rounded(Split(c, LDA), Split(c + 1, LDA), 2), All, All)>>
        /\ am_matmul(c) = <<Store(Rounded(Split(c, LDA), Split(c + 1, LDA), 2), All, All)>>
        /\ du_matmul(c) = am_matmul(c)
    BY <2>1 DEF af_matmul, am_matmul, du_matmul, All
  <2>4. /\ Matmuls(c)["af"] = af_matmul(c) /\ Matmuls(c)["am"] = am_matmul(c)
        /\ Matmuls(c)["du"] = du_matmul(c)
    BY DEF Matmuls
  <2>5. Matmuls(c)[k] = <<Store(Rounded(Split(c, LDA), Split(c + 1, LDA), 2), All, All)>>
    BY <1>3, <2>3, <2>4
  <2>6. QED BY <1>3, <2>2, <2>5
<1>4. CASE k = "at"
  <2>1. LDA % (8 * NCORES) = 0
    BY <1>4 DEF Fits
  <2>2. Rounded(Split(c, LDA), Split(c + 1, LDA), 8) = Share(c, LDA)
    BY <1>1, <2>1, SharesFit
  <2>3. Matmuls(c)[k] = at_matmul(c)
    BY <1>4 DEF Matmuls
  <2>4. at_matmul(c) = <<Add(All, Rounded(Split(c, LDA), Split(c + 1, LDA), 8), All)>>
    BY DEF at_matmul
  <2>5. QED BY <1>4, <2>2, <2>3, <2>4
<1>5. QED BY <1>2, <1>3, <1>4

LEMMA SumBodies ==
  ASSUME NEW c, NEW k \in {"vvadd4", "vvadd"}
  PROVE  Vvadds(c)[k] = <<Sum(Every(c, DATA_SIZE, NCORES))>>
<1>1. Vvadds(c)["vvadd4"] = vvadd4(c) /\ Vvadds(c)["vvadd"] = vvadd(c)
  BY DEF Vvadds
<1>2. vvadd4(c) = <<Sum(Every(c, DATA_SIZE, NCORES))>> /\ vvadd(c) = vvadd4(c)
  BY DEF vvadd4, vvadd
<1>3. QED BY <1>1, <1>2

(* A matmul whose cores have the rows, or columns, R.                      *)
LEMMA MatmulSound ==
  ASSUME NEW k, k \in MatmulNames, k \notin VvaddNames, NEW R, Parted(R, LDA),
         NEW rows \in BOOLEAN, NEW u, \A c \in Cores : WholeOf(u[c], R[c], rows),
         \A c \in Cores : Matmuls(c)[k] = <<u[c]>>
  PROVE  Sound([c \in Cores |-> Program(c, k)], k)
<1>1. PICK prog : prog = [c \in Cores |-> Program(c, k)]
  OBVIOUS
<1>2. ASSUME NEW c \in Cores PROVE prog[c] = mt_matmul(<<u[c]>>)
  <2>1. prog[c] = Program(c, k)
    BY <1>1
  <2>2. Program(c, k) = mt_matmul(Matmuls(c)[k])
    BY MatmulText
  <2>3. QED BY <2>1, <2>2
<1>3. AreProducts(prog, u, R, rows)
  BY <1>2 DEF AreProducts
<1>4. Sound(prog, k)
  BY <1>3, ProductsSound
<1>5. QED BY <1>1, <1>4

LEMMA SoundPrograms ==
  ASSUME NEW k, Fits(k)
  PROVE  Sound([c \in Cores |-> Program(c, k)], k)
<1> DEFINE S == [c \in Cores |-> Share(c, LDA)]
           T == [c \in Cores |-> Share(c, LDA) \cap To(LDA)]
           E == [c \in Cores |-> Every(c, DATA_SIZE, NCORES)]
<1>1. LDA \in Nat /\ DATA_SIZE \in Nat
  BY KernelsAssumption
<1>2. Parted(E, DATA_SIZE)
  BY <1>1, Parts
<1>3. k \in MatmulNames => Parted(S, LDA) /\ Parted(T, LDA)
  BY <1>1, SharedOut, SharesParted
<1>4. ASSUME NEW R, NEW c \in Cores
      PROVE  /\ WholeOf([d \in Cores |-> Store(R[d], All, All)][c], R[c], TRUE)
             /\ WholeOf([d \in Cores |-> Add(R[d], All, All)][c], R[c], TRUE)
             /\ WholeOf([d \in Cores |-> Add(All, R[d], All)][c], R[c], FALSE)
  BY Whole
<1>5. CASE k \in {"af", "am", "du", "bb", "matmul", "do"}
  <2> DEFINE u == [d \in Cores |-> Store(S[d], All, All)]
  <2>1. ASSUME NEW c \in Cores PROVE Matmuls(c)[k] = <<u[c]>>
    <3>1. Matmuls(c)[k] = <<Store(Share(c, LDA), All, All)>>
      BY <1>5, Bodies, UnrolledBodies DEF Fits
    <3>2. QED BY <3>1
  <2>2. \A c \in Cores : WholeOf(u[c], S[c], TRUE)
    BY <1>4
  <2> HIDE DEF u, S
  <2>3. k \in MatmulNames /\ k \notin VvaddNames
    BY <1>5, Names
  <2>4. QED BY <1>3, <2>1, <2>2, <2>3, MatmulSound
<1>6. CASE k = "at"
  <2> DEFINE u == [d \in Cores |-> Add(All, S[d], All)]
  <2>1. \A c \in Cores : Matmuls(c)[k] = <<u[c]>>
    BY <1>6, UnrolledBodies
  <2>2. \A c \in Cores : WholeOf(u[c], S[c], FALSE)
    BY <1>4
  <2> HIDE DEF u, S
  <2>3. k \in MatmulNames /\ k \notin VvaddNames
    BY <1>6, Names
  <2>4. QED BY <1>3, <2>1, <2>2, <2>3, MatmulSound
<1>7. CASE k = "ap"
  <2> DEFINE u == [d \in Cores |-> Add(S[d], All, All)]
  <2>1. \A c \in Cores : Matmuls(c)[k] = <<u[c]>>
    BY <1>7, Bodies
  <2>2. \A c \in Cores : WholeOf(u[c], S[c], TRUE)
    BY <1>4
  <2> HIDE DEF u, S
  <2>3. k \in MatmulNames /\ k \notin VvaddNames
    BY <1>7, Names
  <2>4. QED BY <1>3, <2>1, <2>2, <2>3, MatmulSound
<1>8. CASE k = "ar"
  <2> DEFINE u == [d \in Cores |-> Add(T[d], All, All)]
  <2>1. \A c \in Cores : Matmuls(c)[k] = <<u[c]>>
    BY <1>8, Bodies
  <2>2. \A c \in Cores : WholeOf(u[c], T[c], TRUE)
    BY <1>4
  <2> HIDE DEF u, T
  <2>3. k \in MatmulNames /\ k \notin VvaddNames
    BY <1>8, Names
  <2>4. QED BY <1>3, <2>1, <2>2, <2>3, MatmulSound
<1>9. CASE k \in {"vvadd4", "vvadd"}
  <2>1. PICK prog : prog = [c \in Cores |-> Program(c, k)]
    OBVIOUS
  <2>2. k \in VvaddNames /\ k \notin MatmulNames
    BY <1>9, Names
  <2>3. ASSUME NEW c \in Cores PROVE prog[c] = mt_vvadd(c, <<Sum(E[c])>>)
    <3>1. prog[c] = mt_vvadd(c, Vvadds(c)[k])
      BY <2>1, <2>2, VvaddText
    <3>2. Vvadds(c)[k] = <<Sum(E[c])>>
      BY <1>9, SumBodies
    <3>3. QED BY <3>1, <3>2
  <2> HIDE DEF E
  <2>4. Sound(prog, k)
    BY <1>2, <2>2, <2>3, SumsSound
  <2>5. QED BY <2>1, <2>4
<1>10. CASE k = "multicore"
  <2>1. PICK prog : prog = [c \in Cores |-> Program(c, k)]
    OBVIOUS
  <2>2. k \notin MatmulNames /\ k \notin VvaddNames
    BY <1>10, Names
  <2>3. ASSUME NEW c \in Cores PROVE UsesLock(prog[c])
    <3>1. prog[c] = Program(c, k)
      BY <2>1
    <3>2. Program(c, k) = multicore(c)
      BY <2>2 DEF Program
    <3>3. QED BY <3>1, <3>2, LockText
  <2>4. Sound(prog, k)
    BY <2>3, LockSound
  <2>5. QED BY <2>1, <2>4
<1>11. QED BY <1>5, <1>6, <1>7, <1>8, <1>9, <1>10 DEF Fits

LEMMA FittingStart ==
  ASSUME Init, Fits(kernel)
  PROVE  HartsInv
<1>1. Sound(code, kernel)
  BY SoundPrograms DEF Init
<1>2. QED BY <1>1, HartsInvStart

(* mt-matmul's and mt-vvadd's own programs, and the others that Fits       *)
(* names: for every number of cores and size that their unrolled loops     *)
(* fit, the cores' parts of C are apart, make it up and go nowhere beyond  *)
(* it, and what two cores both touch is between different barriers or, in  *)
(* multicore.c, under the lock.                                            *)
THEOREM SharesAreSound == Spec /\ Fits(kernel) => []SoundAtStart
<1>1. HartsInv => SoundAtStart
  BY DEF HartsInv, SoundAtStart
<1>2. QED BY <1>1, FittingStart, HartsInvStep, PTL DEF Spec

(* Where they fit nothing else is assumed of these programs: whatever the  *)
(* schedule, no two cores work on one cell at a time, nor two harts of     *)
(* multicore.c on buf, and a core that verifies C finds the whole product. *)
THEOREM FittingProgramsAreRight ==
  Spec /\ Fits(kernel) => [](RaceFree /\ CopiesReady /\ VerifiedIsComplete)
<1>1. HartsInv => RaceFree /\ CopiesReady /\ VerifiedIsComplete
  BY InvRaceFree, InvCopiesReady, InvVerifiedIsComplete
<1>2. QED BY <1>1, FittingStart, HartsInvStep, PTL DEF Spec
=============================================================================
