---------------------------- MODULE Parts_proofs ----------------------------
(***************************************************************************)
(* The parts of the board that share no state with the pipeline: the       *)
(* immediate generator and the display.                                    *)
(***************************************************************************)
EXTENDS Immediate_Generator, SevSegDisp, WellFoundedInduction, TLAPS

-----------------------------------------------------------------------------
(* Immediate_Generator gives back each immediate that a word of its format *)
(* holds, whatever the other fields of the word are.                       *)
THEOREM ImmediatesUnpack ==
  ASSUME NEW ir \in Words
  PROVE  /\ \A v \in I_Imm : I_TYPE(AsI(ir, v)) = v /\ S_TYPE(AsS(ir, v)) = v
         /\ \A v \in B_Imm : B_TYPE(AsB(ir, v)) = v
         /\ \A v \in U_Imm : U_TYPE(AsU(ir, v)) = v
         /\ \A v \in J_Imm : J_TYPE(AsJ(ir, v)) = v
<1>1. ASSUME NEW v \in I_Imm PROVE I_TYPE(AsI(ir, v)) = v
  BY DEF I_TYPE, AsI, I_Imm, SignExtended, Words, Bits, Bit
<1>2. ASSUME NEW v \in I_Imm PROVE S_TYPE(AsS(ir, v)) = v
  <2>1. \A n \in Bits : S_TYPE(AsS(ir, v))[n] = v[n]
    BY DEF S_TYPE, AsS, I_Imm, SignExtended, Words, Bits, Bit
  <2>2. QED BY <2>1 DEF S_TYPE, I_Imm, Words
<1>3. ASSUME NEW v \in B_Imm PROVE B_TYPE(AsB(ir, v)) = v
  <2>1. \A n \in Bits : B_TYPE(AsB(ir, v))[n] = v[n]
    BY DEF B_TYPE, AsB, B_Imm, SignExtended, Words, Bits, Bit
  <2>2. QED BY <2>1 DEF B_TYPE, B_Imm, Words
<1>4. ASSUME NEW v \in U_Imm PROVE U_TYPE(AsU(ir, v)) = v
  BY DEF U_TYPE, AsU, U_Imm, Words, Bits, Bit
<1>5. ASSUME NEW v \in J_Imm PROVE J_TYPE(AsJ(ir, v)) = v
  <2>1. \A n \in Bits : J_TYPE(AsJ(ir, v))[n] = v[n]
    BY DEF J_TYPE, AsJ, J_Imm, SignExtended, Words, Bits, Bit
  <2>2. QED BY <2>1 DEF J_TYPE, J_Imm, Words
<1>6. QED BY <1>1, <1>2, <1>3, <1>4, <1>5

(* Immediate_Generator replicates the sign, and no branch or jump offset   *)
(* is odd.                                                                 *)
THEOREM ImmediatesTyped ==
  ASSUME NEW ir \in Words
  PROVE  /\ I_TYPE(ir) \in I_Imm /\ S_TYPE(ir) \in I_Imm
         /\ B_TYPE(ir) \in B_Imm /\ U_TYPE(ir) \in U_Imm /\ J_TYPE(ir) \in J_Imm
<1>1. I_TYPE(ir) \in I_Imm
  BY DEF I_TYPE, I_Imm, SignExtended, Words, Bits, Bit
<1>2. S_TYPE(ir) \in I_Imm
  BY DEF S_TYPE, I_Imm, SignExtended, Words, Bits, Bit
<1>3. B_TYPE(ir) \in B_Imm
  BY DEF B_TYPE, B_Imm, SignExtended, Words, Bits, Bit
<1>4. U_TYPE(ir) \in U_Imm
  BY DEF U_TYPE, U_Imm, Words, Bits, Bit
<1>5. J_TYPE(ir) \in J_Imm
  BY DEF J_TYPE, J_Imm, SignExtended, Words, Bits, Bit
<1>6. QED BY <1>1, <1>2, <1>3, <1>4, <1>5

-----------------------------------------------------------------------------
(* The display, for every width, count of the divider and mode, and every  *)
(* order of resets.                                                        *)

(* The digit to light next follows the one that is lit.                    *)
InTurn == /\ r_disp_digit \in Digit /\ lit \in Digit \cup {4}
          /\ r_disp_digit = IF lit = 4 THEN 0 ELSE (lit + 1) % 4

(* s_clk_500 does not rise under the reset, so the reset arm of the        *)
(* multiplexer is never taken.                                             *)
LEMMA NoRiseInReset ==
  ASSUME DivideRefresh, ~s_clk_500, s_clk_500'
  PROVE  ~s_reset
BY DEF DivideRefresh

LEMMA NextInTurn ==
  ASSUME InTurn, [Next]_displayVars
  PROVE  /\ InTurn'
         /\ lit' # lit => lit' = IF lit = 4 THEN 0 ELSE (lit + 1) % 4
<1>1. CASE Next /\ ~s_clk_500 /\ s_clk_500'
  <2>1. lit' = r_disp_digit /\ r_disp_digit' = (r_disp_digit + 1) % 4
    BY <1>1, NoRiseInReset DEF Next, Refresh
  <2>2. r_disp_digit \in {0, 1, 2, 3}
    BY DEF InTurn, Digit
  <2>3. lit' \in Digit /\ lit' # 4 /\ r_disp_digit' \in Digit
    BY <2>1, <2>2 DEF Digit
  <2>4. r_disp_digit = IF lit = 4 THEN 0 ELSE (lit + 1) % 4
    BY DEF InTurn
  <2>5. QED BY <2>1, <2>3, <2>4 DEF InTurn
<1>2. CASE Next /\ ~(~s_clk_500 /\ s_clk_500')
  BY <1>2 DEF Next, Refresh, InTurn
<1>3. CASE UNCHANGED displayVars
  BY <1>3 DEF displayVars, InTurn
<1>4. QED BY <1>1, <1>2, <1>3

(* CathodeDriver lights the digits in turn, through resets of any length:  *)
(* none is skipped and none is lit twice.                                  *)
THEOREM DigitsLightInTurn == Spec => DigitsInTurn
<1>1. Init => InTurn
  BY DEF Init, InTurn, Digit
<1>2. InTurn /\ [Next]_displayVars => InTurn'
  BY NextInTurn
<1>3. InTurn /\ [Next]_displayVars
        => [lit' # lit => lit' = IF lit = 4 THEN 0 ELSE (lit + 1) % 4]_displayVars
  BY NextInTurn
<1>4. QED BY <1>1, <1>2, <1>3, PTL DEF Spec, DigitsInTurn

-----------------------------------------------------------------------------
(* Recursion on the natural numbers.                                       *)

LEMMA Least ==
  ASSUME NEW T, T \subseteq Nat, T # {}
  PROVE  \E m \in T : \A n \in T : m <= n
<1> DEFINE less == {ss \in Nat \X Nat : ss[1] < ss[2]}
<1>1. IsWellFoundedOn(less, Nat)
  BY NatLessThanWellFounded DEF OpToRel
<1>2. PICK m \in T : \A n \in T : <<n, m>> \notin less
  <2> HIDE DEF less
  <2> QED BY <1>1, WFMin
<1>3. ASSUME NEW n \in T, n < m PROVE FALSE
  <2>1. <<n, m>> \in Nat \X Nat /\ <<n, m>>[1] < <<n, m>>[2]
    BY <1>3
  <2>2. QED BY <1>2, <2>1
<1>4. QED BY <1>3

(* A set that has 0, and with each number the next one up to n.            *)
LEMMA UpTo ==
  ASSUME NEW n \in Nat, NEW T, 0 \in T, \A k \in 0 .. n - 1 : k \in T => k + 1 \in T
  PROVE  0 .. n \subseteq T
<1> SUFFICES ASSUME 0 .. n \ T # {} PROVE FALSE
  OBVIOUS
<1>1. PICK m \in 0 .. n \ T : \A k \in 0 .. n \ T : m <= k
  <2>1. PICK U : U = 0 .. n \ T
    OBVIOUS
  <2>2. U # {} /\ U \subseteq Nat
    BY <2>1
  <2>3. QED BY <2>1, <2>2, Least
<1>2. m - 1 \in 0 .. n - 1 /\ m - 1 \in T
  <2>1. m # 0 /\ m \in 0 .. n
    OBVIOUS
  <2>2. m - 1 \in 0 .. n - 1 /\ ~(m <= m - 1) /\ m - 1 \in 0 .. n
    BY <2>1
  <2>3. QED BY <1>1, <2>2
<1>3. m - 1 + 1 = m
  OBVIOUS
<1>4. QED BY <1>2, <1>3

(* The first n values of the sequence that starts with s and goes on by F. *)
Begins(f, n, S, s, F) ==
  /\ f \in [0 .. n -> S] /\ f[0] = s
  /\ \A k \in 0 .. n - 1 : f[k + 1] = F[<<k, f[k]>>]

LEMMA BeginsAlike ==
  ASSUME NEW S, NEW s, NEW F, NEW m \in Nat, NEW n \in Nat, m <= n,
         NEW f, NEW g, Begins(f, m, S, s, F), Begins(g, n, S, s, F)
  PROVE  \A k \in 0 .. m : f[k] = g[k]
<1> DEFINE T == {k \in 0 .. m : f[k] = g[k]}
<1>1. 0 \in T
  BY DEF Begins
<1>2. ASSUME NEW k \in 0 .. m - 1, k \in T PROVE k + 1 \in T
  <2>1. k \in 0 .. n - 1 /\ k + 1 \in 0 .. m
    OBVIOUS
  <2>2. f[k + 1] = F[<<k, f[k]>>] /\ g[k + 1] = F[<<k, g[k]>>]
    BY <2>1 DEF Begins
  <2>3. QED BY <1>2, <2>1, <2>2
<1>3. 0 .. m \subseteq T
  <2> HIDE DEF T
  <2> QED BY <1>1, <1>2, UpTo
<1>4. QED BY <1>3

LEMMA BeginsLonger ==
  ASSUME NEW S, NEW s \in S, NEW F \in [Nat \X S -> S], NEW n \in Nat,
         NEW f, Begins(f, n, S, s, F)
  PROVE  \E g : Begins(g, n + 1, S, s, F)
<1>1. PICK g : g = [k \in 0 .. n + 1 |-> IF k = n + 1 THEN F[<<n, f[n]>>] ELSE f[k]]
  OBVIOUS
<1>2. f \in [0 .. n -> S] /\ F[<<n, f[n]>>] \in S
  BY DEF Begins
<1>3. g \in [0 .. n + 1 -> S] /\ g[0] = s
  <2>1. \A k \in 0 .. n + 1 : k = n + 1 \/ k \in 0 .. n
    OBVIOUS
  <2>2. 0 # n + 1 /\ 0 \in 0 .. n + 1
    OBVIOUS
  <2>3. QED BY <1>1, <1>2, <2>1, <2>2 DEF Begins
<1>4. ASSUME NEW k \in 0 .. n PROVE g[k + 1] = F[<<k, g[k]>>]
  <2>1. k # n + 1 /\ k \in 0 .. n + 1 /\ k + 1 \in 0 .. n + 1
    OBVIOUS
  <2>2. g[k] = f[k]
    BY <1>1, <2>1
  <2>3. CASE k = n
    BY <1>1, <2>1, <2>2, <2>3
  <2>4. CASE k # n
    <3>1. k \in 0 .. n - 1 /\ k + 1 # n + 1
      BY <2>4
    <3>2. g[k + 1] = f[k + 1]
      BY <1>1, <2>1, <3>1
    <3>3. QED BY <2>2, <3>1, <3>2 DEF Begins
  <2>5. QED BY <2>3, <2>4
<1>5. n + 1 - 1 = n
  OBVIOUS
<1>6. QED BY <1>3, <1>4, <1>5 DEF Begins

Follows(f, s, F) == f[0] = s /\ \A n \in Nat : f[n + 1] = F[<<n, f[n]>>]

(* There is a function that starts with s and goes on by F.                *)
LEMMA Recursion ==
  ASSUME NEW S, NEW s \in S, NEW F \in [Nat \X S -> S]
  PROVE  \E f \in [Nat -> S] : Follows(f, s, F)
<1> DEFINE T == {n \in Nat : \E g : Begins(g, n, S, s, F)}
<1>1. 0 \in T
  <2>1. PICK g : g = [k \in 0 .. 0 |-> s]
    OBVIOUS
  <2>2. Begins(g, 0, S, s, F)
    BY <2>1 DEF Begins
  <2>3. QED BY <2>2
<1>2. ASSUME NEW n \in Nat PROVE n \in T
  <2>1. \A k \in 0 .. n - 1 : k \in T => k + 1 \in T
    BY BeginsLonger
  <2>2. 0 .. n \subseteq T
    <3> HIDE DEF T
    <3> QED BY <1>1, <2>1, UpTo
  <2>3. n \in 0 .. n
    OBVIOUS
  <2>4. QED BY <2>2, <2>3
<1> DEFINE G(n) == CHOOSE g : Begins(g, n, S, s, F)
<1>3. \A n \in Nat : Begins(G(n), n, S, s, F)
  BY <1>2
<1> HIDE DEF G
<1>4. PICK f : f = [n \in Nat |-> G(n)[n]]
  OBVIOUS
<1>5. f \in [Nat -> S] /\ f[0] = s
  <2>1. ASSUME NEW n \in Nat PROVE G(n)[n] \in S
    BY <1>3 DEF Begins
  <2>2. G(0)[0] = s
    BY <1>3 DEF Begins
  <2>3. QED BY <1>4, <2>1, <2>2
<1>6. ASSUME NEW n \in Nat PROVE f[n + 1] = F[<<n, f[n]>>]
  <2>1. Begins(G(n), n, S, s, F) /\ Begins(G(n + 1), n + 1, S, s, F)
    BY <1>3
  <2>2. \A k \in 0 .. n : G(n)[k] = G(n + 1)[k]
    <3>1. PICK a, b, m : a = G(n) /\ b = G(n + 1) /\ m = n + 1
      OBVIOUS
    <3>2. m \in Nat /\ n <= m /\ Begins(a, n, S, s, F) /\ Begins(b, m, S, s, F)
      BY <2>1, <3>1
    <3>3. \A k \in 0 .. n : a[k] = b[k]
      <4> HIDE DEF T
      <4> QED BY <3>2, BeginsAlike
    <3>4. QED BY <3>1, <3>3
  <2>3. n \in 0 .. n /\ n \in 0 .. n + 1 - 1 /\ n + 1 \in Nat
    OBVIOUS
  <2>4. G(n + 1)[n + 1] = F[<<n, G(n + 1)[n]>>]
    BY <2>1, <2>3 DEF Begins
  <2>5. QED BY <1>4, <2>2, <2>3, <2>4
<1>7. QED BY <1>5, <1>6 DEF Follows

(* The powers of two.                                                      *)
LEMMA Powers ==
  /\ TwoTo \in [Nat -> Nat \ {0}]
  /\ TwoTo[0] = 1
  /\ \A n \in Nat : TwoTo[n + 1] = 2 * TwoTo[n]
<1>1. PICK F : F = [p \in Nat \X (Nat \ {0}) |-> 2 * p[2]]
  OBVIOUS
<1>2. F \in [Nat \X (Nat \ {0}) -> Nat \ {0}] /\ 1 \in Nat \ {0}
  BY <1>1
<1>3. PICK f \in [Nat -> Nat \ {0}] : f[0] = 1 /\ \A n \in Nat : f[n + 1] = F[<<n, f[n]>>]
  <2>1. PICK S, s : S = Nat \ {0} /\ s = 1
    OBVIOUS
  <2>2. F \in [Nat \X S -> S] /\ s \in S
    BY <1>2, <2>1
  <2>3. PICK f \in [Nat -> S] : Follows(f, s, F)
    BY <2>2, Recursion
  <2>4. QED BY <2>1, <2>3 DEF Follows
<1>4. \A n \in Nat : f[n + 1] = 2 * f[n]
  BY <1>1, <1>3
<1>5. f = [n \in Nat |-> IF n = 0 THEN 1 ELSE 2 * f[n - 1]]
  <2>1. ASSUME NEW n \in Nat, n # 0 PROVE f[n] = 2 * f[n - 1]
    <3>1. n - 1 \in Nat /\ n - 1 + 1 = n
      BY <2>1
    <3>2. QED BY <1>4, <3>1
  <2>2. QED BY <1>3, <2>1
<1>6. TwoTo = [n \in Nat |-> IF n = 0 THEN 1 ELSE 2 * TwoTo[n - 1]]
  <2> DEFINE t == CHOOSE g : g = [n \in Nat |-> IF n = 0 THEN 1 ELSE 2 * g[n - 1]]
  <2>1. t = [n \in Nat |-> IF n = 0 THEN 1 ELSE 2 * t[n - 1]]
    BY <1>5
  <2>2. TwoTo = t
    BY DEF TwoTo
  <2>3. QED BY <2>1, <2>2
<1> HIDE DEF TwoTo
<1>7. TwoTo[0] = 1
  BY <1>6
<1>8. ASSUME NEW n \in Nat PROVE TwoTo[n + 1] = 2 * TwoTo[n]
  <2>1. n + 1 \in Nat /\ n + 1 # 0 /\ n + 1 - 1 = n
    OBVIOUS
  <2>2. TwoTo[n + 1] = 2 * TwoTo[n + 1 - 1]
    BY <1>6, <2>1
  <2>3. QED BY <2>1, <2>2
<1>9. ASSUME NEW n \in Nat PROVE TwoTo[n] \in Nat \ {0}
  <2> DEFINE U == {k \in 0 .. n : TwoTo[k] \in Nat \ {0}}
  <2>1. 0 \in U
    BY <1>7
  <2>2. ASSUME NEW k \in 0 .. n - 1, k \in U PROVE k + 1 \in U
    BY <1>8, <2>2
  <2>3. 0 .. n \subseteq U
    <3> HIDE DEF U
    <3> QED BY <2>1, <2>2, UpTo
  <2>4. QED BY <2>3
<1>10. TwoTo \in [Nat -> Nat \ {0}]
  BY <1>6, <1>9
<1>11. QED BY <1>7, <1>8, <1>10

-----------------------------------------------------------------------------
(* The conversion of BCD.                                                  *)

LEMMA DivMod ==
  ASSUME NEW a \in Nat, NEW b \in Nat, b > 0
  PROVE  \E q \in Nat, r \in 0 .. b - 1 :
           q = a \div b /\ r = a % b /\ a = b * q + r
<1>1. PICK q \in Int, r \in 0 .. b - 1 : q = a \div b /\ r = a % b
  OBVIOUS
<1>2. a = b * q + r
  BY <1>1
<1>3. q \in Nat
  <2>1. ~(q <= -1)
    <3>1. ASSUME q <= -1 PROVE FALSE
      <4>1. b * q <= b * (-1)
        BY <3>1
      <4>2. b * q + r < 0
        BY <4>1
      <4>3. QED BY <1>2, <4>2
    <3>2. QED BY <3>1
  <2>2. QED BY <2>1
<1>4. QED BY <1>1, <1>2, <1>3

(* The quotient is the only number that leaves a remainder below b.        *)
LEMMA DivUnique ==
  ASSUME NEW a \in Nat, NEW b \in Nat, b > 0, NEW q \in Nat, NEW r \in 0 .. b - 1,
         a = b * q + r
  PROVE  a \div b = q /\ a % b = r
  OBVIOUS

(* Two divisions in a row are one.                                         *)
LEMMA DivTwice ==
  ASSUME NEW v \in Nat, NEW p \in Nat, p > 0, NEW n \in Nat, n > 0
  PROVE  (v \div p) \div n = v \div (n * p)
<1>1. PICK q \in Nat, r \in 0 .. p - 1 : q = v \div p /\ v = p * q + r
  BY DivMod
<1>2. PICK x \in Nat, y \in 0 .. n - 1 : x = q \div n /\ q = n * x + y
  BY DivMod
<1>3. PICK z : z = p * y + r
  OBVIOUS
<1>4. z \in 0 .. n * p - 1
  <2>1. p * y <= p * (n - 1) /\ p * y \in Nat
    BY <1>2
  <2>2. p * (n - 1) = n * p - p
    OBVIOUS
  <2>3. QED BY <1>3, <2>1, <2>2
<1>5. v = (n * p) * x + z
  BY <1>1, <1>2, <1>3
<1>6. n * p \in Nat /\ n * p > 0
  OBVIOUS
<1>7. v \div (n * p) = x
  BY <1>4, <1>5, <1>6, DivUnique
<1>8. QED BY <1>1, <1>2, <1>7

(* The digits of a number, the ones first.                                 *)
Decimal(m) == <<m % 10, (m \div 10) % 10, (m \div 100) % 10, (m \div 1000) % 10>>

(* What an adjusted digit leaves behind in its place when it doubles, and  *)
(* what it passes on.                                                      *)
Left(d)  == 2 * (AddThree(d) % 8)
Taken(d) == AddThree(d) \div 8

LEMMA DigitDoubles ==
  ASSUME NEW d \in 0 .. 9
  PROVE  /\ Taken(d) \in {0, 1} /\ Left(d) \in {0, 2, 4, 6, 8}
         /\ 2 * d = 10 * Taken(d) + Left(d)
<1>1. CASE d < 5
  <2>1. AddThree(d) = d
    BY <1>1 DEF AddThree
  <2>2. d % 8 = d /\ d \div 8 = 0
    BY <1>1
  <2>3. d \in {0, 1, 2, 3, 4}
    BY <1>1
  <2>4. QED BY <2>1, <2>2, <2>3 DEF Left, Taken
<1>2. CASE d >= 5
  <2>1. AddThree(d) = d + 3
    <3>1. (d + 3) % 16 = d + 3
      OBVIOUS
    <3>2. QED BY <1>2, <3>1 DEF AddThree
  <2>2. (d + 3) % 8 = d - 5 /\ (d + 3) \div 8 = 1
    BY <1>2
  <2>3. d \in {5, 6, 7, 8, 9}
    BY <1>2
  <2>4. QED BY <2>1, <2>2, <2>3 DEF Left, Taken
<1>3. QED BY <1>1, <1>2

(* A number doubles and takes a bit: what becomes of its ones, and what    *)
(* the rest of it takes.                                                   *)
LEMMA NumberDoubles ==
  ASSUME NEW x \in Nat, NEW c \in {0, 1}
  PROVE  /\ (2 * x + c) % 10 = Left(x % 10) + c
         /\ (2 * x + c) \div 10 = 2 * (x \div 10) + Taken(x % 10)
         /\ x \div 10 \in Nat /\ Taken(x % 10) \in {0, 1}
<1>1. PICK h \in Nat, d \in 0 .. 9 : h = x \div 10 /\ d = x % 10 /\ x = 10 * h + d
  OBVIOUS
<1>2. PICK t, l : t = Taken(d) /\ l = Left(d)
  OBVIOUS
<1>3. t \in {0, 1} /\ l \in {0, 2, 4, 6, 8} /\ 2 * d = 10 * t + l
  BY <1>2, DigitDoubles
<1>4. 2 * x + c = 10 * (2 * h + t) + (l + c)
  BY <1>1, <1>3
<1>5. 2 * x + c \in Nat /\ 2 * h + t \in Nat /\ l + c \in 0 .. 9
  BY <1>1, <1>3
<1>6. (2 * x + c) % 10 = l + c /\ (2 * x + c) \div 10 = 2 * h + t
  <2>1. PICK y, q, r : y = 2 * x + c /\ q = 2 * h + t /\ r = l + c
    OBVIOUS
  <2>2. y \in Nat /\ q \in Nat /\ r \in 0 .. 9 /\ y = 10 * q + r
    BY <1>4, <1>5, <2>1
  <2>3. y \div 10 = q /\ y % 10 = r
    BY <2>2
  <2>4. QED BY <2>1, <2>3
<1>7. QED BY <1>1, <1>2, <1>3, <1>6

LEMMA Places ==
  ASSUME NEW m \in Nat
  PROVE  /\ m \div 10 \in Nat /\ m \div 100 \in Nat /\ m \div 1000 \in Nat
         /\ (m \div 10) \div 10 = m \div 100
         /\ (m \div 100) \div 10 = m \div 1000
  OBVIOUS

(* The step of the conversion doubles the number that the digits stand     *)
(* for, up to its thousands.                                               *)
LEMMA DecimalDoubles ==
  ASSUME NEW m \in Nat, NEW bit \in {0, 1}
  PROVE  /\ Decimal(m) \in Nibbles
         /\ Doubled[<<Decimal(m), bit>>] = Decimal(2 * m + bit)
<1>1. PICK x0, x1, x2, x3 :
        x0 = m /\ x1 = m \div 10 /\ x2 = m \div 100 /\ x3 = m \div 1000
  OBVIOUS
<1>2. /\ x0 \in Nat /\ x1 \in Nat /\ x2 \in Nat /\ x3 \in Nat
      /\ x1 = x0 \div 10 /\ x2 = x1 \div 10 /\ x3 = x2 \div 10
  BY <1>1, Places
<1>3. PICK c0, c1, c2, c3 : c0 = bit /\ c1 = Taken(x0 % 10)
                            /\ c2 = Taken(x1 % 10) /\ c3 = Taken(x2 % 10)
  OBVIOUS
<1>4. /\ c1 \in {0, 1} /\ (2 * x0 + c0) % 10 = Left(x0 % 10) + c0
      /\ (2 * x0 + c0) \div 10 = 2 * x1 + c1
  BY <1>2, <1>3, NumberDoubles
<1>5. /\ c2 \in {0, 1} /\ (2 * x1 + c1) % 10 = Left(x1 % 10) + c1
      /\ (2 * x1 + c1) \div 10 = 2 * x2 + c2
  BY <1>2, <1>3, <1>4, NumberDoubles
<1>6. /\ c3 \in {0, 1} /\ (2 * x2 + c2) % 10 = Left(x2 % 10) + c2
      /\ (2 * x2 + c2) \div 10 = 2 * x3 + c3
  BY <1>2, <1>3, <1>5, NumberDoubles
<1>7. (2 * x3 + c3) % 10 = Left(x3 % 10) + c3
  BY <1>2, <1>6, NumberDoubles
<1>8. PICK n \in Nat : n = 2 * x0 + c0
  BY <1>2, <1>3
<1>9. n \div 10 = 2 * x1 + c1 /\ n \div 100 = 2 * x2 + c2 /\ n \div 1000 = 2 * x3 + c3
  BY <1>4, <1>5, <1>6, <1>8, Places
<1>10. Decimal(n) = <<Left(x0 % 10) + c0, Left(x1 % 10) + c1, Left(x2 % 10) + c2,
                      Left(x3 % 10) + c3>>
  BY <1>4, <1>5, <1>6, <1>7, <1>8, <1>9 DEF Decimal
<1>11. Decimal(m) = <<x0 % 10, x1 % 10, x2 % 10, x3 % 10>>
  BY <1>1 DEF Decimal
<1>12. Decimal(m) \in Nibbles
  <2>1. PICK a, b, c, d : a = x0 % 10 /\ b = x1 % 10 /\ c = x2 % 10 /\ d = x3 % 10
    OBVIOUS
  <2>2. a \in 0 .. 15 /\ b \in 0 .. 15 /\ c \in 0 .. 15 /\ d \in 0 .. 15
    BY <1>2, <2>1
  <2>3. QED BY <1>11, <2>1, <2>2 DEF Nibbles
<1>13. Doubled[<<Decimal(m), bit>>] =
         <<Left(x0 % 10) + c0, Left(x1 % 10) + c1, Left(x2 % 10) + c2,
           Left(x3 % 10) + c3>>
  <2>1. PICK p : p = <<Decimal(m), bit>>
    OBVIOUS
  <2>2. p \in Nibbles \X {0, 1}
    BY <1>12, <2>1
  <2>3. Doubled[p] = <<Left(p[1][1]) + p[2], Left(p[1][2]) + Taken(p[1][1]),
                       Left(p[1][3]) + Taken(p[1][2]), Left(p[1][4]) + Taken(p[1][3])>>
    BY <2>2 DEF Doubled, Left, Taken
  <2>4. /\ p[2] = c0
        /\ p[1][1] = x0 % 10 /\ p[1][2] = x1 % 10 /\ p[1][3] = x2 % 10 /\ p[1][4] = x3 % 10
    BY <1>3, <1>11, <2>1
  <2>5. QED BY <1>3, <2>1, <2>3, <2>4
<1>14. QED BY <1>1, <1>3, <1>8, <1>10, <1>12, <1>13

(* The top i bits of v, of BITS, as a number.                              *)
Top(v, i) == v \div TwoTo[BITS - i]

LEMMA TopGrows ==
  ASSUME NEW v \in 0 .. TwoTo[BITS] - 1
  PROVE  /\ Top(v, 0) = 0 /\ Top(v, BITS) = v
         /\ \A i \in 0 .. BITS : Top(v, i) \in Nat
         /\ \A i \in 0 .. BITS - 1 :
              /\ BitOf(v, BITS - (i + 1)) \in {0, 1}
              /\ Top(v, i + 1) = 2 * Top(v, i) + BitOf(v, BITS - (i + 1))
<1>1. BITS \in Nat /\ v \in Nat
  <2>1. TwoTo[BITS] \in Nat
    BY DisplayAssumption, Powers
  <2>2. QED BY <2>1, DisplayAssumption
<1>2. Top(v, 0) = 0
  <2>1. PICK w : w = TwoTo[BITS]
    OBVIOUS
  <2>2. w \in Nat /\ w > 0 /\ v \in 0 .. w - 1 /\ v = w * 0 + v
    BY <1>1, <2>1, Powers
  <2>3. v \div w = 0
    BY <1>1, <2>2, DivUnique
  <2>4. BITS - 0 = BITS
    BY <1>1
  <2>5. QED BY <2>1, <2>3, <2>4 DEF Top
<1>3. Top(v, BITS) = v
  <2>1. BITS - BITS = 0 /\ v \div 1 = v
    BY <1>1
  <2>2. QED BY <2>1, Powers DEF Top
<1>4. ASSUME NEW i \in 0 .. BITS PROVE Top(v, i) \in Nat
  <2>1. PICK w : w = TwoTo[BITS - i]
    OBVIOUS
  <2>2. w \in Nat /\ w > 0
    <3>1. BITS - i \in Nat
      BY <1>1
    <3>2. QED BY <2>1, <3>1, Powers
  <2>3. v \div w \in Nat
    BY <1>1, <2>2, DivMod
  <2>4. QED BY <2>1, <2>3 DEF Top
<1>5. ASSUME NEW i \in 0 .. BITS - 1
      PROVE  /\ BitOf(v, BITS - (i + 1)) \in {0, 1}
             /\ Top(v, i + 1) = 2 * Top(v, i) + BitOf(v, BITS - (i + 1))
  <2>1. PICK j : j = BITS - (i + 1)
    OBVIOUS
  <2>2. j \in Nat /\ BITS - i = j + 1
    BY <1>1, <2>1
  <2>3. PICK w : w = TwoTo[j]
    OBVIOUS
  <2>4. w \in Nat /\ w > 0 /\ TwoTo[j + 1] = 2 * w
    BY <2>2, <2>3, Powers
  <2>5. PICK x : x = v \div w
    OBVIOUS
  <2>6. x \in Nat
    BY <1>1, <2>4, <2>5, DivMod
  <2>7. x \div 2 = v \div (2 * w)
    BY <1>1, <2>4, <2>5, DivTwice
  <2>8. PICK h \in Nat, b \in {0, 1} : h = x \div 2 /\ b = x % 2 /\ x = 2 * h + b
    BY <2>6
  <2>9. BitOf(v, j) = b /\ Top(v, i + 1) = x /\ Top(v, i) = h
    BY <2>1, <2>2, <2>3, <2>4, <2>5, <2>7, <2>8 DEF BitOf, Top
  <2>10. BitOf(v, BITS - (i + 1)) = b
    BY <2>1, <2>9
  <2>11. QED BY <2>8, <2>9, <2>10
<1>6. QED BY <1>2, <1>3, <1>4, <1>5

(* BCD converts: its digits are those of the number.                       *)
LEMMA ConvertsToDecimal ==
  ASSUME NEW v \in 0 .. TwoTo[BITS] - 1
  PROVE  BCD(v) = Decimal(v)
<1> DEFINE next(g, i) == Doubled[<<g[i - 1], BitOf(v, BITS - i)>>]
           digits == CHOOSE g : g = [i \in 0 .. BITS |->
                       IF i = 0 THEN <<0, 0, 0, 0>> ELSE next(g, i)]
<1>1. BITS \in Nat
  BY DisplayAssumption
<1>2. PICK W : W = [i \in 0 .. BITS |-> Decimal(Top(v, i))]
  OBVIOUS
<1>3. W[0] = <<0, 0, 0, 0>>
  <2>1. Decimal(0) = <<0, 0, 0, 0>>
    BY DEF Decimal
  <2>2. 0 \in 0 .. BITS
    BY <1>1
  <2>3. QED BY <1>2, <2>1, <2>2, TopGrows
<1>4. ASSUME NEW i \in 0 .. BITS - 1 PROVE W[i + 1] = next(W, i + 1)
  <2>1. i \in 0 .. BITS /\ i + 1 \in 0 .. BITS /\ i + 1 - 1 = i
    BY <1>1
  <2>2. PICK m, bit : m = Top(v, i) /\ bit = BitOf(v, BITS - (i + 1))
    OBVIOUS
  <2>3. m \in Nat /\ bit \in {0, 1} /\ Top(v, i + 1) = 2 * m + bit
    BY <2>1, <2>2, TopGrows
  <2>4. Doubled[<<Decimal(m), bit>>] = Decimal(2 * m + bit)
    BY <2>3, DecimalDoubles
  <2>5. W[i] = Decimal(m) /\ W[i + 1] = Decimal(2 * m + bit)
    BY <1>2, <2>1, <2>2, <2>3
  <2>6. QED BY <2>1, <2>2, <2>4, <2>5
<1>5. ASSUME NEW i \in 0 .. BITS, i # 0 PROVE W[i] = next(W, i)
  <2>1. i - 1 \in 0 .. BITS - 1 /\ i - 1 + 1 = i
    BY <1>1, <1>5
  <2> HIDE DEF next
  <2>2. QED BY <1>4, <2>1
<1>6. W = [i \in 0 .. BITS |-> IF i = 0 THEN <<0, 0, 0, 0>> ELSE next(W, i)]
  <2> HIDE DEF next
  <2>1. ASSUME NEW i \in 0 .. BITS
        PROVE  W[i] = IF i = 0 THEN <<0, 0, 0, 0>> ELSE next(W, i)
    BY <1>3, <1>5
  <2>2. DOMAIN W = 0 .. BITS /\ W = [i \in 0 .. BITS |-> W[i]]
    BY <1>2
  <2>3. QED BY <2>1, <2>2
<1>7. digits = [i \in 0 .. BITS |-> IF i = 0 THEN <<0, 0, 0, 0>> ELSE next(digits, i)]
  BY <1>6
<1> HIDE DEF digits
<1>8. digits[BITS] = W[BITS]
  <2> DEFINE T == {i \in 0 .. BITS : digits[i] = W[i]}
  <2>1. 0 \in T
    <3>1. 0 \in 0 .. BITS
      BY <1>1
    <3>2. QED BY <1>3, <1>7, <3>1
  <2>2. ASSUME NEW i \in 0 .. BITS - 1, i \in T PROVE i + 1 \in T
    <3>1. i + 1 \in 0 .. BITS /\ i + 1 # 0 /\ i + 1 - 1 = i
      BY <1>1
    <3>2. digits[i + 1] = next(digits, i + 1)
      <4> HIDE DEF next
      <4> QED BY <1>7, <3>1
    <3>3. next(digits, i + 1) = next(W, i + 1)
      BY <2>2, <3>1
    <3>4. QED BY <1>4, <3>1, <3>2, <3>3
  <2>3. 0 .. BITS \subseteq T
    <3> HIDE DEF T
    <3> QED BY <1>1, <2>1, <2>2, UpTo
  <2>4. BITS \in 0 .. BITS
    BY <1>1
  <2>5. QED BY <2>3, <2>4
<1>9. W[BITS] = Decimal(v)
  <2>1. BITS \in 0 .. BITS
    BY <1>1
  <2>2. QED BY <1>2, <2>1, TopGrows
<1>10. BCD(v) = digits[BITS]
  BY DEF BCD, digits
<1>11. QED BY <1>8, <1>9, <1>10

-----------------------------------------------------------------------------
LEMMA PlaceOfDecimal ==
  ASSUME NEW m \in Nat, NEW k \in Digit
  PROVE  Decimal(m)[k + 1] = (m \div 10 ^ k) % 10
<1>1. 10 ^ 0 = 1 /\ 10 ^ 1 = 10 /\ 10 ^ 2 = 100 /\ 10 ^ 3 = 1000
  OBVIOUS
<1>2. m \div 1 = m
  OBVIOUS
<1>3. CASE k = 0
  BY <1>1, <1>2, <1>3 DEF Decimal
<1>4. CASE k = 1
  BY <1>1, <1>4 DEF Decimal
<1>5. CASE k = 2
  BY <1>1, <1>5 DEF Decimal
<1>6. CASE k = 3
  BY <1>1, <1>6 DEF Decimal
<1>7. QED BY <1>3, <1>4, <1>5, <1>6 DEF Digit

(* The digit that lights up is the decimal digit of its place of the       *)
(* number that the display register holds, whatever number of its width    *)
(* that is: in the wrapper's mode, BCD.sv and CathodeDriver.sv together.   *)
THEOREM DigitsAreDecimal ==
  ASSUME MODE
  PROVE  Spec => ShowsDecimal
<1> DEFINE Sound == InTurn /\ DATA_IN \in Values
<1>1. Init => Sound
  BY DEF Init, InTurn, Digit
<1>2. Sound /\ [Next]_displayVars => Sound'
  <2>1. [Next]_displayVars /\ DATA_IN \in Values => DATA_IN' \in Values
    BY DEF Next, displayVars
  <2>2. QED BY <2>1, NextInTurn
<1>3. Sound /\ [Next]_displayVars
        => [lit' # lit => shown' = (DATA_IN \div 10 ^ lit') % 10]_displayVars
  <2> SUFFICES ASSUME Sound, Next, lit' # lit
               PROVE  shown' = (DATA_IN \div 10 ^ lit') % 10
    BY DEF displayVars
  <2>1. lit' = r_disp_digit /\ shown' = Hex_Val(DATA_IN, r_disp_digit)
    BY DEF Next, Refresh
  <2>2. r_disp_digit \in Digit /\ DATA_IN \in 0 .. TwoTo[BITS] - 1
    BY DisplayAssumption DEF InTurn
  <2>3. Hex_Val(DATA_IN, r_disp_digit) = Decimal(DATA_IN)[r_disp_digit + 1]
    <3>1. BCD(DATA_IN) = Decimal(DATA_IN)
      BY <2>2, ConvertsToDecimal
    <3>2. QED BY <3>1 DEF Hex_Val
  <2>4. DATA_IN \in Nat
    BY <2>2
  <2>5. QED BY <2>1, <2>2, <2>3, <2>4, PlaceOfDecimal
<1>4. QED BY <1>1, <1>2, <1>3, PTL DEF Spec, ShowsDecimal
=============================================================================
