------------------------------ MODULE MC_harts ------------------------------
(***************************************************************************)
(* Every program of mt_kernels, on the two cores and the size of matrix it *)
(* is written for.                                                         *)
(***************************************************************************)
EXTENDS harts

(* 1000 elements leave nothing over for vvadd0; one more does, and it      *)
(* still sums every element once.                                          *)
Longer == INSTANCE harts WITH DATA_SIZE <- 1001

ASSUME Leftover == /\ \E c \in Cores : Longer!vvadd0(c)[2].rows # {}
                   /\ Longer!Sound([c \in Cores |-> Longer!Program(c, "vvadd0")], "vvadd0")
=============================================================================
