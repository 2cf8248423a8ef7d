------------------------------- MODULE harts -------------------------------
(***************************************************************************)
(* Cores that run one of the programs of mt_kernels together: the barrier  *)
(* of benchmarks/common/util.h, which reverses its sense, and the spin     *)
(* lock of debug/programs/multicore.c.                                     *)
(*                                                                         *)
(* A core whose next step is some code is anywhere in it: it may have      *)
(* begun, and it has not ended.  The atomics of the barrier are            *)
(* release/acquire and the lock has fences, so what is done before them is *)
(* seen after them.                                                        *)
(***************************************************************************)
EXTENDS mt_kernels, FiniteSets

VARIABLES
  kernel,               \* the program that runs
  code,                 \* core -> its steps
  pos,                  \* core -> its next step
  phase,                \* core -> where it is in barrier(), or "run"
  threadsense,          \* core -> local->threadsense
  count, sense,         \* of the global barrier
  buf_lock,
  crossed               \* core -> barriers behind it (history)

vars == <<kernel, code, pos, phase, threadsense, count, sense, buf_lock, crossed>>
barrier_vars == <<phase, threadsense, count, sense, crossed>>

program_vars == <<kernel, code>>

Finished(c) == pos[c] > Len(code[c])
Current(c) == code[c][pos[c]]
At(c, op) == ~Finished(c) /\ Current(c).op = op
Working(c) == ~Finished(c) /\ Current(c).op \notin {"barrier", "get_lock", "put_lock"}

Init == /\ kernel \in Kernels
        /\ code = [c \in Cores |-> Program(c, kernel)]
        /\ pos = [c \in Cores |-> 1] /\ phase = [c \in Cores |-> "run"]
        /\ threadsense = [c \in Cores |-> 0] /\ count = 0 /\ sense = 0
        /\ buf_lock = 0 /\ crossed = [c \in Cores |-> 0]

Advance(c) == pos' = [pos EXCEPT ![c] = @ + 1]

EndStep(c) == /\ Working(c)
              /\ Advance(c)
              /\ UNCHANGED <<program_vars, barrier_vars, buf_lock>>

-----------------------------------------------------------------------------
(* Wrong on purpose, for the mutation runs: the sense is not reversed.     *)
Arrive_SameSense(c) ==
  /\ At(c, "barrier") /\ phase[c] = "run"
  /\ count' = count + 1
  /\ phase' = [phase EXCEPT ![c] = IF count = NCORES - 1 THEN "last" ELSE "spin"]
  /\ UNCHANGED <<program_vars, pos, threadsense, sense, buf_lock, crossed>>

(* barrier(): the core reverses its own sense and counts itself.           *)
Arrive(c) ==
  /\ At(c, "barrier") /\ phase[c] = "run"
  /\ threadsense' = [threadsense EXCEPT ![c] = 1 - @]
  /\ count' = count + 1
  /\ phase' = [phase EXCEPT ![c] = IF count = NCORES - 1 THEN "last" ELSE "spin"]
  /\ UNCHANGED <<program_vars, pos, sense, buf_lock, crossed>>

(* Wrong on purpose, for the mutation runs: the count goes on.             *)
ResetCount_Keeps(c) ==
  /\ phase[c] = "last"
  /\ phase' = [phase EXCEPT ![c] = "release"]
  /\ UNCHANGED <<program_vars, pos, threadsense, count, sense, buf_lock, crossed>>

(* The last one resets the count before it releases the others.            *)
ResetCount(c) ==
  /\ phase[c] = "last"
  /\ count' = 0
  /\ phase' = [phase EXCEPT ![c] = "release"]
  /\ UNCHANGED <<program_vars, pos, threadsense, sense, buf_lock, crossed>>

Leave(c) == /\ phase' = [phase EXCEPT ![c] = "run"]
            /\ crossed' = [crossed EXCEPT ![c] = @ + 1]
            /\ Advance(c)
            /\ UNCHANGED <<program_vars, threadsense, count, buf_lock>>

ReverseSense(c) == phase[c] = "release" /\ sense' = threadsense[c] /\ Leave(c)
Spin(c) == /\ phase[c] = "spin"
           /\ IF sense = threadsense[c] THEN Leave(c) /\ UNCHANGED sense
                                        ELSE UNCHANGED vars

barrier(c) == Arrive(c) \/ ResetCount(c) \/ ReverseSense(c) \/ Spin(c)

get_lock(c) ==
  /\ At(c, "get_lock")
  /\ buf_lock' = 1
  /\ IF buf_lock = 0 THEN Advance(c) ELSE UNCHANGED pos
  /\ UNCHANGED <<program_vars, barrier_vars>>
put_lock(c) == /\ At(c, "put_lock")
               /\ buf_lock' = 0
               /\ Advance(c)
               /\ UNCHANGED <<program_vars, barrier_vars>>

HartStep(c) == EndStep(c) \/ barrier(c) \/ get_lock(c) \/ put_lock(c)
End == (\A c \in Cores : Finished(c)) /\ UNCHANGED vars

Next == (\E c \in Cores : HartStep(c)) \/ End
Spec == Init /\ [][Next]_vars /\ \A c \in Cores : WF_vars(HartStep(c))

-----------------------------------------------------------------------------
(* Properties.                                                             *)

(* barrier(): no core is past a barrier that another has not reached, and  *)
(* none a whole barrier ahead.                                             *)
BarrierTogether ==
  \A c, d \in Cores :
    /\ crossed[c] <= crossed[d] + 1
    /\ crossed[c] = crossed[d] + 1 => phase[d] = "spin"

Meet(s, t) == s \cap t # {}
SameCells(u, v) == Meet(u.rows, v.rows) /\ Meet(u.cols, v.cols)
WritesC(u) == u.op \in {"add", "store", "inplace", "reset"}

(* Two steps that must not overlap in time.                                *)
Conflict(u, v) ==
  \/ WritesC(u) /\ (v.op = "verify" \/ (WritesC(v) /\ SameCells(u, v)))
  \/ u.op = "copy" /\ Meet(u.arrays, v.arrays) /\ SameCells(u, v) /\ Meet(u.ks, v.ks)

(* In cf and cm the cores add to the same cells, and terms may be lost.    *)
RacyKernels == {"cf", "cm"}

(* No two cores work on the same cells, or on a static array that one of   *)
(* them fills, at the same time, and no one verifies what is being         *)
(* written.                                                                *)
RaceFree ==
  kernel \notin RacyKernels =>
    \A c, d \in Cores :
      c # d /\ Working(c) /\ Working(d) => ~Conflict(Current(c), Current(d))

IsProduct(u) == u.op \in {"add", "store"}

(* The steps of the cores of a program, and those that fill row k of a.    *)
StepsOf(prog) == UNION {{c} \X (1 .. Len(prog[c])) : c \in Cores}
CopiesOf(prog, a, k) == {e \in StepsOf(prog) : LET u == prog[e[1]][e[2]]
                                               IN  u.op = "copy" /\ a \in u.arrays /\ k \in u.ks}

(* What a core reads from a copy of A or B has been copied.                *)
CopiesReady ==
  \A c \in Cores :
    Working(c) /\ IsProduct(Current(c)) =>
      \A a \in Current(c).arrays, k \in Current(c).ks :
        Current(c).cols \subseteq
          UNION {code[e[1]][e[2]].cols :
                   e \in {f \in CopiesOf(code, a, k) : f[2] < pos[f[1]]}}

(* vvadd1 sums whole rounds of 8 * NCORES and goes past the end of z.      *)
OverrunningKernels == {"vvadd1"}

(* The products of the cores' steps make up C, and touch nothing beyond    *)
(* it: every term once, and a cell that is stored, not added to, has all   *)
(* its terms from one step.                                                *)
Extent(k) == IF k \in VvaddNames THEN Add(To(DATA_SIZE), {0}, {0}) ELSE Add(All, All, All)
Volume(u, within) == Cardinality(u.rows \cap within.rows) * Cardinality(u.cols \cap within.cols)
                     * Cardinality(u.ks \cap within.ks)
Within(u, w) == u.rows \subseteq w.rows /\ u.cols \subseteq w.cols /\ u.ks \subseteq w.ks
Overlap(u, v) == SameCells(u, v) /\ (u.op = "store" \/ v.op = "store" \/ Meet(u.ks, v.ks))
Complete(prog, k) ==
  LET products == {e \in StepsOf(prog) : IsProduct(prog[e[1]][e[2]])}
      volume == [e \in products |-> Volume(prog[e[1]][e[2]], Extent(k))]
      ofVolume(n) == {e \in products : volume[e] = n}
  IN  /\ \A d, e \in products : d # e => ~Overlap(prog[d[1]][d[2]], prog[e[1]][e[2]])
      /\ k \notin OverrunningKernels =>
           \A e \in products : Within(prog[e[1]][e[2]], Extent(k))
      /\ FoldSet(LAMBDA n, sum : n * Cardinality(ofVolume(n)) + sum, 0,
                 {volume[e] : e \in products}) = Volume(Extent(k), Extent(k))

(* When a core verifies, all cores are through with their products, and    *)
(* these make up the whole of C.                                           *)
VerifiedIsComplete ==
  \A c \in Cores :
    At(c, "verify") /\ kernel \notin RacyKernels =>
      /\ Complete(code, kernel)
      /\ \A d \in Cores : \A n \in pos[d] .. Len(code[d]) : ~IsProduct(code[d][n])

(* The barriers of the cores match, and no core waits for ever.            *)
AllFinish == <>(\A c \in Cores : Finished(c))

-----------------------------------------------------------------------------
(* The inductive invariant behind BarrierTogether.                         *)
Phases == {"run", "spin", "last", "release"}
BarrierType == /\ phase \in [Cores -> Phases]
               /\ threadsense \in [Cores -> {0, 1}] /\ sense \in {0, 1}
               /\ crossed \in [Cores -> Nat]

(* A core in barrier() is counted until the sense is reversed, and then    *)
(* released.                                                               *)
Counted     == {c \in Cores : phase[c] \in {"spin", "last"} /\ threadsense[c] # sense}
Released(c) == phase[c] = "spin" /\ threadsense[c] = sense

RunnersInSense == \A c \in Cores : phase[c] = "run" => threadsense[c] = sense
LastIsAlone == \A c \in Cores : phase[c] \in {"last", "release"} =>
                 /\ threadsense[c] # sense
                 /\ \A d \in Cores \ {c} : phase[d] = "spin" /\ threadsense[d] # sense
CountIsRight == count = IF \E c \in Cores : phase[c] = "release" THEN 0
                        ELSE Cardinality(Counted)

(* A released core is as good as past the barrier.                         *)
Past(c)  == crossed[c] + IF Released(c) THEN 1 ELSE 0
AllAlike == \A c, d \in Cores : Past(c) = Past(d)

BarrierInv == BarrierType /\ RunnersInSense /\ LastIsAlone /\ CountIsRight /\ AllAlike

-----------------------------------------------------------------------------
(* What RaceFree, CopiesReady and VerifiedIsComplete ask of a program, no  *)
(* matter how its cores are scheduled: prog is its steps, core by core.    *)

(* The barriers before step n of s, and whether s has the lock there.      *)
Barriers(s, n) == Cardinality({m \in 1 .. n - 1 : s[m].op = "barrier"})
Held(s, n) == \E m \in 1 .. n - 1 :
                s[m].op = "get_lock" /\ \A j \in m + 1 .. n - 1 : s[j].op # "put_lock"
Works(u) == u.op \notin {"barrier", "get_lock", "put_lock"}

(* Step e is over before step f begins: on one core by its order, on two   *)
(* by a barrier.                                                           *)
Precedes(prog, e, f) == IF e[1] = f[1] THEN e[2] < f[2]
                        ELSE Barriers(prog[e[1]], e[2]) < Barriers(prog[f[1]], f[2])

LocksPaired(prog) ==
  \A c \in Cores : \A n \in 1 .. Len(prog[c]) :
    prog[c][n].op = "put_lock" => Held(prog[c], n)

(* Steps that conflict are between different barriers or under the lock.   *)
ConflictsApart(prog) ==
  \A c, d \in Cores : c # d =>
    \A m \in 1 .. Len(prog[c]), n \in 1 .. Len(prog[d]) :
      /\ Works(prog[c][m]) /\ Works(prog[d][n]) /\ Conflict(prog[c][m], prog[d][n])
      /\ Barriers(prog[c], m) = Barriers(prog[d], n)
      => Held(prog[c], m) /\ Held(prog[d], n)

CopiesFirst(prog) ==
  \A e \in StepsOf(prog) :
    LET u == prog[e[1]][e[2]]
    IN  IsProduct(u) => \A a \in u.arrays, k \in u.ks :
          u.cols \subseteq UNION {prog[f[1]][f[2]].cols :
            f \in {g \in CopiesOf(prog, a, k) : Precedes(prog, g, e)}}

ProductsFirst(prog) ==
  \A e, f \in StepsOf(prog) :
    prog[e[1]][e[2]].op = "verify" /\ IsProduct(prog[f[1]][f[2]]) => Precedes(prog, f, e)

Verifies(prog) == \E e \in StepsOf(prog) : prog[e[1]][e[2]].op = "verify"

Sound(prog, k) ==
  /\ \A c \in Cores : Len(prog[c]) \in Nat
  /\ LocksPaired(prog)
  /\ CopiesFirst(prog)
  /\ k \notin RacyKernels => /\ ConflictsApart(prog)
                             /\ Verifies(prog) => ProductsFirst(prog) /\ Complete(prog, k)
ProgramsSound == \A k \in Kernels : Sound([c \in Cores |-> Program(c, k)], k)

(* The programs of riscv-tests/mt, in the sizes they are written for: what *)
(* one core copies is there before another reads it; and in all but cf and *)
(* cm (RacyKernels), whose cores add to the same rows with a plain +=,     *)
(* what two cores both touch they touch between different barriers, or     *)
(* under the lock, and together they do the whole product.                 *)
SoundAtStart == (\A c \in Cores : pos[c] = 1 /\ phase[c] = "run") => Sound(code, kernel)

(* The inductive invariant that takes this to every schedule: a core's     *)
(* barriers are those of its program, and the lock is its holder's alone.  *)
InProgram == /\ pos \in [Cores -> Nat]
             /\ \A c \in Cores : /\ pos[c] \in 1 .. Len(code[c]) + 1
                                 /\ phase[c] # "run" => At(c, "barrier")
                                 /\ crossed[c] = Barriers(code[c], pos[c])
LockInv == \A c \in Cores :
             Held(code[c], pos[c]) => /\ buf_lock = 1
                                      /\ \A d \in Cores \ {c} : ~Held(code[d], pos[d])
HartsInv == Sound(code, kernel) /\ BarrierInv /\ InProgram /\ LockInv
=============================================================================
