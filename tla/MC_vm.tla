------------------------------- MODULE MC_vm -------------------------------
(***************************************************************************)
(* vm with a register of 2 bits, so that the test touches every page there *)
(* is: the freelist is used down to its tail.                              *)
(***************************************************************************)
EXTENDS vm

(* The hypotheses of the theorems of vm_proofs, here and for the register  *)
(* of 6 bits that riscv_test.h has unless it is told otherwise.            *)
SixBits == INSTANCE vm WITH LFSR_BITS <- 6, Entropies <- {0, 61}, UserPages <- {1, 62}

ASSUME MCFullPeriod == FramesInDram /\ FullPeriod
ASSUME MCSixBits == SixBits!FramesInDram /\ SixBits!FullPeriod
=============================================================================
