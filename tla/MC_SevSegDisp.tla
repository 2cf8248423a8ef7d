--------------------------- MODULE MC_SevSegDisp ---------------------------
(***************************************************************************)
(* The display with a divider of three counts; the numbers are those at    *)
(* which a digit carries or a bit is alone, and some with all digits.      *)
(***************************************************************************)
EXTENDS SevSegDisp

MCValues == {2 ^ i : i \in 0 .. 15} \cup {10 ^ i - 1 : i \in 0 .. 4}
            \cup {0, 4, 5, 49, 50, 499, 500, 4999, 5000, 10000, 19999, 49999,
                  43981, 65535}
=============================================================================
