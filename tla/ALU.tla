-------------------------------- MODULE ALU --------------------------------
(***************************************************************************)
(* The EX-stage ALU (rtl/ALU.sv) for words of XLEN bits, 32 in the RTL.    *)
(* XLEN is a power of two, so that the low log2(XLEN) bits of srcB, the    *)
(* shift amount, are srcB % XLEN.                                          *)
(***************************************************************************)
EXTENDS Integers, FiniteSetsExt

CONSTANT XLEN

ASSUME XLENAssumption == XLEN \in {2, 4, 8, 16, 32}

LOCAL Words == 2 ^ XLEN
Bit(a, i) == (a \div 2 ^ i) % 2

(* The word with the bits i for which <<bit i of a, bit i of b>> is in S.  *)
WordWhere(S, a, b) ==
  SumSet({2 ^ i : i \in {j \in 0 .. XLEN - 1 : <<Bit(a, j), Bit(b, j)>> \in S}})

LOCAL Sgn(a) == IF 2 * a >= Words THEN a - Words ELSE a

Result(alu_func, srcA, srcB) ==
  LET shamt == srcB % XLEN
      One(b) == IF b THEN 1 ELSE 0
  IN  CASE alu_func = "ADD"  -> (srcA + srcB) % Words
        [] alu_func = "SUB"  -> (srcA - srcB) % Words
        [] alu_func = "OR"   -> WordWhere({<<0, 1>>, <<1, 0>>, <<1, 1>>}, srcA, srcB)
        [] alu_func = "AND"  -> WordWhere({<<1, 1>>}, srcA, srcB)
        [] alu_func = "XOR"  -> WordWhere({<<0, 1>>, <<1, 0>>}, srcA, srcB)
        [] alu_func = "SRL"  -> srcA \div 2 ^ shamt
        [] alu_func = "SLL"  -> (srcA * 2 ^ shamt) % Words
        [] alu_func = "SRA"  -> (Sgn(srcA) \div 2 ^ shamt) % Words
        [] alu_func = "SLT"  -> One(Sgn(srcA) < Sgn(srcB))
        [] alu_func = "SLTU" -> One(srcA < srcB)
        [] alu_func = "LUI_COPY" -> srcA
=============================================================================
