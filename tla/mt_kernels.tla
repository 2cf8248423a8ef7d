----------------------------- MODULE mt_kernels -----------------------------
(***************************************************************************)
(* The programs that the cores run together: the matrix products and       *)
(* vector sums of riscv-tests/mt, one definition for each file, and the    *)
(* lock of debug/programs/multicore.c.                                     *)
(*                                                                         *)
(* A core's program is a sequence of steps.  A step is a stretch of code   *)
(* between two synchronisations that works on a box: the rows and columns  *)
(* of C it writes, and the ks it takes the products A[row][k] * B[k][col]  *)
(* for.  The order within a box is left out: no other core can tell.       *)
(*                                                                         *)
(* An unrolled loop goes on to the end of its last round. Where the        *)
(* rounds do not fit, what they touch beyond the bound is in the boxes of  *)
(* af, am, at, bb, du and the sums; the other products are exact for the   *)
(* size they are written for: LDA = 32, and one core or two.               *)
(***************************************************************************)
EXTENDS Integers, SequencesExt

CONSTANTS
  NCORES,       \* 2: the Makefile runs spike -p2
  LDA,          \* 32: what the files with constants in them are written for
  DATA_SIZE,    \* length of the vectors
  Rounds        \* bound: turns a hart takes in multicore.c, which never ends

ASSUME KernelsAssumption == {NCORES, LDA, DATA_SIZE, Rounds} \subseteq Nat \ {0}

Cores == 0 .. NCORES - 1
To(n) == 0 .. n - 1
All == To(LDA)

(* Arrays other than A, B and C.  A static one is shared, unless it is     *)
(* __thread.                                                               *)
Static(name) == <<name, -1>>
Thread(name, c) == <<name, c>>

Step(op, rows, cols, ks, arrays) ==
  [op |-> op, rows |-> rows, cols |-> cols, ks |-> ks, arrays |-> arrays]
Add(rows, cols, ks) == Step("add", rows, cols, ks, {})       \* C += sum
Store(rows, cols, ks) == Step("store", rows, cols, ks, {})   \* C = sum
Using(step, array) == [step EXCEPT !.arrays = {array}]       \* instead of B
Copy(arrays, rows, cols, ks) == Step("copy", rows, cols, ks, arrays)
Sync(op) == Step(op, {}, {}, {}, {})
Barrier == Sync("barrier")

(* for (x = lo; x < hi; x += by) body                                      *)
Loop(lo, hi, by) == [n \in 1 .. (hi - lo + by - 1) \div by |-> lo + by * (n - 1)]
For(loop, Body(_)) == FlattenSeq([n \in DOMAIN loop |-> Body(loop[n])])
Every(lo, hi, by) == {x \in lo .. hi - 1 : (x - lo) % by = 0}

(* What a loop from lo up to hi that is unrolled by times touches.         *)
Rounded(lo, hi, by) == UNION {x .. x + by - 1 : x \in Every(lo, hi, by)}

(* Core c's part of n, as most of the files split it.                      *)
Share(c, n) == c * (n \div NCORES) .. ((c + 1) * (n \div NCORES)) - 1

Split(c, n) == (c * n) \div NCORES    \* multiplied first

(* The files for two cores: core 0 takes one half, core 1 the other, and   *)
(* a core that is alone both.                                              *)
Halves(c) == IF NCORES = 1 THEN {0, 1} ELSE {c} \cap {0, 1}
Half(c, n) == {x \in To(n) : x \div (n \div 2) \in Halves(c)}

-----------------------------------------------------------------------------
(* Products by blocks of rows.                                             *)
ad_matmul(c) ==
  For(Loop(c * (LDA \div NCORES), (c + 1) * (LDA \div NCORES), 1), LAMBDA j :
    For(Loop(0, 32, 2), LAMBDA k : <<Add({j}, To(32), {k, k + 1}), Barrier>>))

(* Wrong on purpose, for the mutation runs: no barrier after a copy.       *)
TransposeB_NoBarrier(c) ==
  For(Loop(0, LDA, 1), LAMBDA k : <<Copy({Static("BB")}, All, Share(c, LDA), {k})>>)

(* The transpose of B that ae and ce share.                                *)
TransposeB(c) ==
  For(Loop(0, LDA, 1), LAMBDA k :
    <<Copy({Static("BB")}, All, Share(c, LDA), {k}), Barrier>>)

ae_matmul(c) ==
  TransposeB(c) \o
  For(Loop(0, LDA, 4), LAMBDA i :
    For(Loop(c * (LDA \div NCORES), (c + 1) * (LDA \div NCORES), 1), LAMBDA j :
      <<Using(Store({j}, i .. i + 3, All), Static("BB")), Barrier>>))

ce_matmul(c) ==
  TransposeB(c) \o
  For(Loop(0, NCORES, 1), LAMBDA x :
    <<Using(Add(Share(c, LDA), Share(x, 32), All), Static("BB"))>>)

af_matmul(c) ==      \* for LDA = 32: row = l*32
  <<Store(Rounded(Split(c, LDA), Split(c + 1, LDA), 2), All, All)>>

ag_matmul(c) ==
  For(Loop(0, LDA, 2), LAMBDA i :
    For(Loop(0, LDA, 4), LAMBDA k :
      <<Add(Share(c, LDA), {i, i + 1}, k .. k + 3), Barrier>>))
cg_matmul(c) == ag_matmul(c)

ai_matmul(c) ==
  LET first == Split(c, LDA)
  IN  <<Barrier, Store(first .. first + (LDA \div NCORES) - 1, All, All)>>
ci_matmul(c) == ai_matmul(c)    \* the other cores take the ks downwards

am_matmul(c) == <<Store(Rounded(Split(c, 32), Split(c + 1, 32), 2), To(32), All)>>
du_matmul(c) == am_matmul(c)

an_matmul(c) ==
  For(Loop(c * (LDA \div NCORES), (c + 1) * (LDA \div NCORES), 1), LAMBDA j :
    For(Loop(0, LDA, 1), LAMBDA k : <<Add({j}, All, {k}), Barrier>>))

(* Wrong on purpose, for the mutation runs: <= where the loop has <.       *)
ap_matmul_Inclusive(c) ==
  <<Add(c * (LDA \div NCORES) .. (c + 1) * (LDA \div NCORES), All, All)>>

ap_matmul(c) == <<Add(Share(c, LDA), All, All)>>
ar_matmul(c) == <<Add(Share(c, LDA) \cap All, All, All)>>    \* B_t is on the stack
bb_matmul(c) ==
  LET block == LDA \div NCORES
  IN  <<Store(Rounded(c * block, (c + 1) * block, 4), Rounded(0, LDA, 2), All)>>
do_matmul(c) == <<Store(Share(c, 32), To(32), To(32))>>

bm_matmul(c) ==
  LET space == LDA \div NCORES
      max == IF c # NCORES - 1 THEN space * c + space ELSE LDA
  IN  <<Add(space * c .. ((max \div 4) * 4) - 1, All, All)>>

(* Wrong on purpose, for the mutation runs: the last core copies one row   *)
(* of B less.                                                              *)
dm_matmul_CopiesLess(c) ==
  LET half == LDA \div NCORES
  IN  <<Copy({Static("B1")}, All, All,
             IF c = NCORES - 1 THEN To(half - 1) ELSE half .. LDA - 1),
        Barrier,
        IF c # NCORES - 1 THEN bm_matmul(c)[1]
        ELSE Using(bm_matmul(c)[1], Static("B1"))>>

(* The last core reads B from a copy, of which it makes only the first     *)
(* part itself.                                                            *)
dm_matmul(c) ==
  LET half == LDA \div NCORES
  IN  <<Copy({Static("B1")}, All, All,
             IF c = NCORES - 1 THEN To(half) ELSE half .. LDA - 1),
        Barrier,
        IF c # NCORES - 1 THEN bm_matmul(c)[1]
        ELSE Using(bm_matmul(c)[1], Static("B1"))>>

(* Rows in turn.                                                           *)
cs_matmul(c) ==
  For(Loop(c, LDA, 2 * NCORES), LAMBDA j :
    For(Loop(0, LDA, 1), LAMBDA i : <<Store({j, j + NCORES}, {i}, All), Barrier>>))

bs_matmul(c) ==
  For(Loop(c, LDA, 4 * NCORES), LAMBDA j :
    <<Add({j, j + NCORES, j + 2 * NCORES, j + 3 * NCORES}, All, All)>>)

ds_matmul(c) == For(Loop(4 * c, LDA, 4 * NCORES), LAMBDA j : <<Add(j .. j + 3, All, All)>>)

(* Columns.                                                                *)
(* Wrong on purpose, for the mutation runs: a stride that forgets that two *)
(* columns are done at a time.                                             *)
aq_matmul_HalfStride(c) ==
  For(Loop(c, LDA, NCORES), LAMBDA i : <<Add(All, {i, i + NCORES}, All)>>)

aq_matmul(c) ==
  For(Loop(c, LDA, 2 * NCORES), LAMBDA i : <<Add(All, {i, i + NCORES}, All)>>)

at_matmul(c) ==      \* for LDA = 32: bTrans, on the stack, is filled for 32 by 32
  <<Add(All, Rounded(Split(c, LDA), Split(c + 1, LDA), 8), All)>>

(* Each core transposes its columns of B for itself, in step with the      *)
(* others, and then does tiles of two rows and width columns.              *)
ByTiles(c, width) ==
  LET first == c * (LDA \div NCORES)
      last  == (c + 1) * (LDA \div NCORES)
      tB    == Thread("tB", c)
  IN  For(Loop(0, LDA, 2), LAMBDA k :
        <<Copy({tB}, All, first .. last - 1, {k, k + 1}), Barrier>>)
      \o
      For(Loop(first, last, 16), LAMBDA i2 :
        For(Loop(0, LDA, 2), LAMBDA j :
          For(Loop(i2, i2 + 16, width), LAMBDA i :
            <<Using(Add({j, j + 1}, i .. i + width - 1, All), tB), Barrier>>)))
br_matmul(c) == ByTiles(c, 4)
dr_matmul(c) == ByTiles(c, 8)

(* Square blocks of 16.                                                    *)
ak_matmul(c) ==
  For(Loop(16 * c, LDA, 16 * NCORES), LAMBDA jj :
    For(Loop(0, LDA, 16), LAMBDA ii :
      <<Add(jj .. jj + 15, ii .. ii + 15, All)>>))

ck_matmul(c) ==      \* the blocks of a row from 16 * c on, and around
  For(Loop(16 * c, LDA, 16 * NCORES), LAMBDA jj :
    For(Loop(16 * c, LDA, 16) \o Loop(0, 16 * c, 16), LAMBDA ii :
      <<Add(jj .. jj + 15, ii .. ii + 15, All)>>))

-----------------------------------------------------------------------------
(* Products for two cores.                                                 *)
al_matmul(c) == <<Add(To(32), Half(c, 32), To(32))>>
bf_matmul(c) == <<Store(To(32), Half(c, 32), To(32))>>

(* Both halves of the rows, core 1 the second first.                       *)
cl_matmul(c) ==
  IF c = 1 THEN <<Add(16 .. 31, 16 .. 31, To(32)), Add(To(16), 16 .. 31, To(32))>>
  ELSE al_matmul(c)
df_matmul(c) ==
  IF c = 0 THEN <<Add(To(16), Half(c, 32), To(32)), Add(16 .. 31, Half(c, 32), To(32))>>
  ELSE cl_matmul(c)

av_matmul(c) == <<Add(Half(c, 32), To(32), To(32))>>
cv_matmul(c) == <<Add(Half(c, 32), To(32), To(32))>>
bo_matmul(c) == <<Store(Half(c, 32), To(32), To(32))>>    \* B_trans is on the stack

(* Rows by the linear index of C: core c has cid << 9 up to (cid + 1) << 9. *)
ay_matmul(c) == <<Store({j \div 32 : j \in {i \in To(1024) : i \div 512 \in Halves(c)}},
                        To(32), All)>>
az_matmul(c) == ay_matmul(c)
cy_matmul(c) ==
  IF c = 1 THEN <<Copy({Static("A1"), Static("B1")}, To(32), To(32), To(32)),
                  [ay_matmul(c)[1] EXCEPT !.arrays = {Static("A1"), Static("B1")}]>>
  ELSE ay_matmul(c)

(* The ks in two parts.                                                    *)
bk_matmul(c) == For(Loop(0, 32, 16), LAMBDA kk : <<Add(Half(c, 32), To(32), kk .. kk + 15)>>)
dv_matmul(c) ==
  LET rows == IF NCORES = 1 THEN To(32) ELSE Half(1 - c, 32)
  IN  For(Loop(0, 32, 16), LAMBDA kk : <<Add(rows, To(32), kk .. kk + 15)>>)

bh_matmul(c) ==
  LET up == To(LDA \div 2)
      down == (LDA \div 2) .. LDA - 1
  IN  (IF c = 0 THEN <<Add(up, All, up), Add(up, All, down)>> ELSE <<>>)
      \o (IF c = 1 \/ NCORES = 1 THEN <<Add(down, All, down), Add(down, All, up)>>
          ELSE <<>>)
bj_matmul(c) == bh_matmul(c)

(* For two cores and 32 only; core 0 does any other product alone.         *)
bc_matmul(c) ==
  IF NCORES = 2 /\ LDA = 32
  THEN For(Loop(0, 32, 16), LAMBDA kk : <<Add(Share(c, 32), To(32), kk .. kk + 15)>>)
  ELSE IF c > 0 THEN <<>> ELSE <<Add(All, All, All)>>
dc_matmul(c) ==
  IF NCORES = 2 /\ LDA = 32
  THEN For(IF c = 0 THEN <<0, 16>> ELSE <<16, 0>>, LAMBDA kk :
         <<Add(Share(c, 32), To(32), kk .. kk + 15)>>)
  ELSE IF c > 0 THEN <<>> ELSE <<Add(All, All, All)>>

(* The ks are split: both cores add to every row, core 0 from the first    *)
(* on, core 1 from the last.                                               *)
cf_matmul(c) ==
  (IF c = 0 THEN For(Loop(0, 32, 2), LAMBDA i : <<Add({i, i + 1}, To(32), To(16))>>)
   ELSE <<>>)
  \o (IF c = 1 \/ NCORES = 1
      THEN For(Loop(0, 32, 2), LAMBDA i : <<Add({31 - i, 30 - i}, To(32), 16 .. 31)>>)
      ELSE <<>>)
cm_matmul(c) ==
  (IF c = 0 THEN For(Loop(0, LDA, 2), LAMBDA i : <<Add({i, i + 1}, To(32), To(16))>>)
   ELSE <<>>)
  \o (IF c = 1 \/ NCORES = 1
      THEN For(Loop(0, 32, 2), LAMBDA i : <<Add({31 - i, 30 - i}, To(32), 16 .. 31)>>)
      ELSE <<>>)

(* mt-matmul's own.                                                        *)
matmul(c) == <<Store(Share(c, LDA), All, All)>>

-----------------------------------------------------------------------------
(* Vector sums: z is a column.                                             *)
Sum(elements) == Store(elements, {0}, {0})

vvadd0(c) ==
  LET leftover == DATA_SIZE % (DATA_SIZE \div NCORES)
  IN  <<Sum(Share(c, DATA_SIZE)),
        Sum(Every((DATA_SIZE - leftover) + c, DATA_SIZE, NCORES))>>

vvadd1(c) ==      \* writes past z unless the length is a multiple of 8 * NCORES
  <<Sum(UNION {(i .. i + 3) \cup (i + 4 * NCORES .. i + (4 * NCORES) + 3) :
               i \in Every(4 * c, DATA_SIZE, 8 * NCORES)})>>

vvadd2(c) == <<Sum(UNION {{i, i + NCORES} : i \in Every(c, DATA_SIZE, 2 * NCORES)})>>

(* Duff's device: the count is rounded up to rounds of eight, of which the *)
(* first is entered in the middle.                                         *)
vvadd3(c) ==
  LET count == DATA_SIZE \div NCORES
      rounds == (count + 7) \div 8
      done == (8 * rounds) - ((8 - (count % 8)) % 8)
  IN  <<Sum(c * count .. (c * count) + done - 1)>>

vvadd4(c) == <<Sum(Every(c, DATA_SIZE, NCORES))>>
vvadd(c) == vvadd4(c)      \* mt-vvadd's own

-----------------------------------------------------------------------------
(* mt-matmul.c: every core verifies C after the barrier.                   *)
Verify == Sync("verify")
mt_matmul(body) == body \o <<Barrier, Verify>>

(* mt-vvadd.c: out of place, then core 0 verifies and overwrites the       *)
(* result with an input, then in place.                                    *)
mt_vvadd(c, body) ==
  LET core0(steps) == IF c = 0 THEN steps ELSE <<>>
      inplace == [n \in DOMAIN body |-> [body[n] EXCEPT !.op = "inplace"]]
      reset == Step("reset", To(DATA_SIZE), {0}, {}, {})
  IN  <<Barrier>> \o body \o <<Barrier>> \o core0(<<Verify, reset>>)
      \o <<Barrier>> \o inplace \o <<Barrier>> \o core0(<<Verify>>) \o <<Barrier>>

(* multicore.c: a hart checks and rewrites buf while it holds the lock.    *)
(* The check spins on a letter that is not the one the last holder wrote;  *)
(* that the step ends takes RaceFree for granted.                          *)
multicore(c) ==
  For(Loop(0, Rounds, 1), LAMBDA r :
    <<Sync("get_lock"), Copy({Static("buf")}, To(32), {0}, {0}), Sync("put_lock")>>)

Matmuls(c) ==
  [ad |-> ad_matmul(c), ae |-> ae_matmul(c), af |-> af_matmul(c), ag |-> ag_matmul(c),
   ai |-> ai_matmul(c), ak |-> ak_matmul(c), al |-> al_matmul(c), am |-> am_matmul(c),
   an |-> an_matmul(c), ap |-> ap_matmul(c), aq |-> aq_matmul(c), ar |-> ar_matmul(c),
   at |-> at_matmul(c), av |-> av_matmul(c), ay |-> ay_matmul(c), az |-> az_matmul(c),
   bb |-> bb_matmul(c), bc |-> bc_matmul(c), bf |-> bf_matmul(c), bh |-> bh_matmul(c),
   bj |-> bj_matmul(c), bk |-> bk_matmul(c), bm |-> bm_matmul(c), bo |-> bo_matmul(c),
   br |-> br_matmul(c), bs |-> bs_matmul(c), ce |-> ce_matmul(c), cf |-> cf_matmul(c),
   cg |-> cg_matmul(c), ci |-> ci_matmul(c), ck |-> ck_matmul(c), cl |-> cl_matmul(c),
   cm |-> cm_matmul(c), cs |-> cs_matmul(c), cv |-> cv_matmul(c), cy |-> cy_matmul(c),
   dc |-> dc_matmul(c), df |-> df_matmul(c), dm |-> dm_matmul(c), do |-> do_matmul(c),
   dr |-> dr_matmul(c), ds |-> ds_matmul(c), du |-> du_matmul(c), dv |-> dv_matmul(c),
   matmul |-> matmul(c)]

Vvadds(c) ==
  [vvadd0 |-> vvadd0(c), vvadd1 |-> vvadd1(c), vvadd2 |-> vvadd2(c),
   vvadd3 |-> vvadd3(c), vvadd4 |-> vvadd4(c), vvadd |-> vvadd(c)]

MatmulNames == DOMAIN Matmuls(0)
VvaddNames  == DOMAIN Vvadds(0)
Kernels == MatmulNames \cup VvaddNames \cup {"multicore"}

(* What core c runs in one of the programs.                                *)
Program(c, k) == CASE k \in MatmulNames -> mt_matmul(Matmuls(c)[k])
                   [] k \in VvaddNames  -> mt_vvadd(c, Vvadds(c)[k])
                   [] OTHER             -> multicore(c)
=============================================================================
