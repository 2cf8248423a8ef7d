----------------------------- MODULE MC_CPU_TOP -----------------------------
(***************************************************************************)
(* CPU_TOP under an environment that may raise RST at any edge and answers *)
(* any word of BusData on the data bus.                                    *)
(***************************************************************************)
EXTENDS CPU_TOP, MC_Programs

Pool == {ADDI(1, 0, 5), ADD(2, 1, 2), LW(1, 1, 0), BEQ(1, 2, 8),
         JALR(2, 1, 2), ECALL}
MCImages == ProgramsFrom(Pool)
MCJunk   == {9}
MCBus    == {2, 4}

(* A flushed slot that decodes as a jump as well: the don't-care outputs   *)
(* may do anything but trap.                                               *)
Jumps == [ZeroControl EXCEPT !.RF_WE = TRUE, !.jal_i = TRUE]
MCZero    == {ZeroControl}
MCUnknown == {ZeroControl, Jumps}
=============================================================================
