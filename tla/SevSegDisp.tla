----------------------------- MODULE SevSegDisp -----------------------------
(***************************************************************************)
(* The four-digit display: the binary to decimal conversion of BCD.sv, the *)
(* divider and the digit multiplexer of CathodeDriver.sv, and the mode mux *)
(* of SevSegDisp.sv.  A step is a rising edge of the board clock; the      *)
(* multiplexer moves in the step in which s_clk_500 rises.                 *)
(***************************************************************************)
EXTENDS Integers

CONSTANTS
  BITS,       \* width of DATA_IN: 16
  DIVIDE,     \* the divider's last count: 0x186A0
  MODE,       \* TRUE shows decimal digits; the wrapper ties it to 1
  Values      \* what the display register may hold

VARIABLES
  DATA_IN, s_reset,             \* inputs
  clk_div_counter, s_clk_500,   \* the divider
  r_disp_digit,                 \* the digit to light next
  lit, shown                    \* ANODES and CATHODES: which digit, and its value

displayVars == <<DATA_IN, s_reset, clk_div_counter, s_clk_500, r_disp_digit,
                 lit, shown>>

Digit   == 0 .. 3       \* 0 is the ones
TwoTo[n \in Nat] == IF n = 0 THEN 1 ELSE 2 * TwoTo[n - 1]
BitOf(v, i) == (v \div TwoTo[i]) % 2

ASSUME DisplayAssumption == /\ BITS \in Nat \ {0} /\ DIVIDE \in Nat
                            /\ MODE \in BOOLEAN
                            /\ Values \subseteq 0 .. TwoTo[BITS] - 1

-----------------------------------------------------------------------------
(* BCD.                                                                    *)

(* Wrong on purpose, for the mutation runs: a digit that will carry is     *)
(* adjusted from 6 on.                                                     *)
AddThree_FromSix(d) == IF d >= 6 THEN (d + 3) % 16 ELSE d

(* A digit of 5 or more carries into its neighbour at the next doubling.   *)
AddThree(d) == IF d >= 5 THEN (d + 3) % 16 ELSE d

Nibbles == [1 .. 4 -> 0 .. 15]    \* the four outputs, the ones first

(* All digits double; each takes the top bit of the one below it, and the  *)
(* ones take the next bit of the number.                                   *)
Doubled[p \in Nibbles \X {0, 1}] ==
  LET Low(k)  == 2 * (AddThree(p[1][k]) % 8)
      High(k) == AddThree(p[1][k]) \div 8
  IN  <<Low(1) + p[2], Low(2) + High(1), Low(3) + High(2), Low(4) + High(3)>>

(* The bits of the number go in from the top one on.                       *)
BCD(v) ==
  LET digits[i \in 0 .. BITS] ==
        IF i = 0 THEN <<0, 0, 0, 0>>
        ELSE Doubled[<<digits[i - 1], BitOf(v, BITS - i)>>]
  IN  digits[BITS]

Nibble(v, k) == (v \div 16 ^ k) % 16
Hex_Val(v, k) == IF MODE THEN BCD(v)[k + 1] ELSE Nibble(v, k)

-----------------------------------------------------------------------------
(* CathodeDriver.                                                          *)

(* Wrong on purpose, for the mutation runs: s_clk_500 is set where it      *)
(* should toggle.                                                          *)
DivideRefresh_Sets ==
  \/ /\ s_reset
     /\ s_clk_500' = FALSE /\ clk_div_counter' = 0
  \/ /\ ~s_reset /\ clk_div_counter # DIVIDE
     /\ clk_div_counter' = clk_div_counter + 1 /\ UNCHANGED s_clk_500
  \/ /\ ~s_reset /\ clk_div_counter = DIVIDE
     /\ clk_div_counter' = 0 /\ s_clk_500' = TRUE

DivideRefresh ==
  \/ /\ s_reset
     /\ s_clk_500' = FALSE /\ clk_div_counter' = 0
  \/ /\ ~s_reset /\ clk_div_counter # DIVIDE
     /\ clk_div_counter' = clk_div_counter + 1 /\ UNCHANGED s_clk_500
  \/ /\ ~s_reset /\ clk_div_counter = DIVIDE
     /\ clk_div_counter' = 0 /\ s_clk_500' = ~s_clk_500

(* Wrong on purpose, for the mutation runs: the next digit is the one      *)
(* after the next.                                                         *)
Refresh_ByTwo ==
  IF ~s_clk_500 /\ s_clk_500'
  THEN /\ r_disp_digit' = (r_disp_digit + 2) % 4
       /\ lit' = r_disp_digit
       /\ shown' = Hex_Val(DATA_IN, r_disp_digit)
  ELSE UNCHANGED <<r_disp_digit, lit, shown>>

(* The reset arm of this block is never taken: s_clk_500 does not rise     *)
(* while s_reset is up.                                                    *)
Refresh ==
  IF ~s_clk_500 /\ s_clk_500'
  THEN /\ r_disp_digit' = IF s_reset THEN 0 ELSE (r_disp_digit + 1) % 4
       /\ lit' = r_disp_digit
       /\ shown' = Hex_Val(DATA_IN, r_disp_digit)
  ELSE UNCHANGED <<r_disp_digit, lit, shown>>

(* The flops power up at 0; 4 stands for no digit lit.                     *)
Init == /\ DATA_IN \in Values /\ s_reset = TRUE
        /\ clk_div_counter = 0 /\ s_clk_500 = FALSE
        /\ r_disp_digit = 0 /\ lit = 4 /\ shown = 0
Next == /\ DivideRefresh
        /\ Refresh
        /\ DATA_IN' \in Values /\ s_reset' \in BOOLEAN
Spec == Init /\ [][Next]_displayVars /\ WF_displayVars(Next)

-----------------------------------------------------------------------------
(* Properties.                                                             *)

(* BCD.sv: "convert binary to 4 digit BCD".  The digit that lights up is   *)
(* the decimal digit of its place, of a number of five digits too: the     *)
(* carry out of the thousands is lost and the four low digits are right.   *)
ShowsDecimal ==
  [][lit' # lit => shown' = (DATA_IN \div 10 ^ lit') % 10]_displayVars

(* The digits light up in turn, through resets of any length: no reset     *)
(* makes the multiplexer skip or repeat one.                               *)
DigitsInTurn ==
  [][lit' # lit => lit' = IF lit = 4 THEN 0 ELSE (lit + 1) % 4]_displayVars

(* Once the reset stays away every digit is lit again and again.           *)
AllDigitsShown == <>[]~s_reset => \A k \in Digit : []<>(lit = k)

(* io_poll.s: "Switches -> seven-seg (hex)".                               *)
ShowsHex == [][lit' # lit => shown' = Nibble(DATA_IN, lit')]_displayVars
=============================================================================
