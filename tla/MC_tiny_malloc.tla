--------------------------- MODULE MC_tiny_malloc ---------------------------
(***************************************************************************)
(* tiny_malloc with three blocks, under a stack that is at times too deep  *)
(* for the heap to grow.  Blocks take 8, 12 or 16 bytes.                   *)
(***************************************************************************)
EXTENDS tiny_malloc

(* What the proofs assume of the constants.                                *)
ASSUME MCSizes == SizesInReach /\ PowersOfTwo
=============================================================================
