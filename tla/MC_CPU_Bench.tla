---------------------------- MODULE MC_CPU_Bench ----------------------------
(***************************************************************************)
(* CPU_Bench with a three-region map of 16 addresses: no data below 4, two *)
(* words of RAM from 4 to 11, devices from 12.                             *)
(***************************************************************************)
EXTENDS CPU_Bench, MC_Programs

MCJunk     == {9}
MCBus      == {0}
MCZero     == {ZeroControl}
MCMemories == {[a \in 0 .. 1 |-> 11 - 7 * a]}

Pool == {ADDI(1, 0, 5), ADDI(2, 1, 4), ADD(1, 1, 2), LW(1, 0, 4), LBU(2, 1, 2),
         LW(1, 1, 7), SW(1, 1, 3), SB(2, 1, 1), JAL(1, 8)}
MCImages == ProgramsFrom(Pool)

(* A load and an instruction that does not use it.                         *)
MCLoadImages == ProgramsFrom({LW(1, 0, 4), ADDI(2, 0, 5)})
=============================================================================
