------------------------ MODULE Immediate_Generator ------------------------
(***************************************************************************)
(* The immediates of an instruction word, bit by bit, and how an assembler *)
(* puts an immediate into a word of each format.                           *)
(*                                                                         *)
(* A word is a function from its bits.  The port imm is ir[31:7]: imm[n]   *)
(* of the source is ir[n + 7] here.                                        *)
(***************************************************************************)
EXTENDS Integers

Bit   == {0, 1}
Bits  == 0 .. 31
Words == [Bits -> Bit]

I_TYPE(ir) == [n \in Bits |-> IF n >= 11 THEN ir[31] ELSE ir[n + 20]]

S_TYPE(ir) == [n \in Bits |-> CASE n >= 11         -> ir[31]
                                [] n \in 5 .. 10   -> ir[n + 20]
                                [] n \in 0 .. 4    -> ir[n + 7]]

B_TYPE(ir) == [n \in Bits |-> CASE n >= 12         -> ir[31]
                                [] n = 11          -> ir[7]
                                [] n \in 5 .. 10   -> ir[n + 20]
                                [] n \in 1 .. 4    -> ir[n + 7]
                                [] n = 0           -> 0]

U_TYPE(ir) == [n \in Bits |-> IF n >= 12 THEN ir[n] ELSE 0]

J_TYPE(ir) == [n \in Bits |-> CASE n >= 20         -> ir[31]
                                [] n \in 12 .. 19  -> ir[n]
                                [] n = 11          -> ir[20]
                                [] n \in 1 .. 10   -> ir[n + 20]
                                [] n = 0           -> 0]

-----------------------------------------------------------------------------
(* The immediates a format can hold, and the word that holds one, whose    *)
(* other bits are those of ir.  The field of bits hi to lo of the word is  *)
(* where the format has it, the sign in bit 31.                            *)
SignExtended(v, top) == \A n \in Bits : n >= top => v[n] = v[top]
I_Imm == {v \in Words : SignExtended(v, 11)}
B_Imm == {v \in Words : SignExtended(v, 12) /\ v[0] = 0}
U_Imm == {v \in Words : \A n \in 0 .. 11 : v[n] = 0}
J_Imm == {v \in Words : SignExtended(v, 20) /\ v[0] = 0}

AsI(ir, v) == [n \in Bits |-> IF n >= 20 THEN v[n - 20] ELSE ir[n]]
AsS(ir, v) == [n \in Bits |-> CASE n >= 25          -> v[n - 20]
                                [] n \in 7 .. 11    -> v[n - 7]
                                [] OTHER            -> ir[n]]
AsB(ir, v) == [n \in Bits |-> CASE n = 31           -> v[12]
                                [] n \in 25 .. 30   -> v[n - 20]
                                [] n \in 8 .. 11    -> v[n - 7]
                                [] n = 7            -> v[11]
                                [] OTHER            -> ir[n]]
AsU(ir, v) == [n \in Bits |-> IF n >= 12 THEN v[n] ELSE ir[n]]
AsJ(ir, v) == [n \in Bits |-> CASE n = 31           -> v[20]
                                [] n \in 21 .. 30   -> v[n - 20]
                                [] n = 20           -> v[11]
                                [] n \in 12 .. 19   -> v[n]
                                [] OTHER            -> ir[n]]
=============================================================================
