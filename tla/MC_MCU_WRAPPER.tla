--------------------------- MODULE MC_MCU_WRAPPER ---------------------------
(***************************************************************************)
(* The board with the map of MC_CPU_Bench: two words of RAM from 4 to 11   *)
(* and four device addresses from 12 on.  The programs mix loads, a store, *)
(* a load-use pair, device accesses and a jump.                            *)
(***************************************************************************)
EXTENDS MCU_WRAPPER, MC_Programs

MCJunk     == {9}
MCBus      == {0}
MCZero     == {ZeroControl}
MCMemories == {[a \in 0 .. 1 |-> 11 - 7 * a]}
MCSwitches == {0, 3}
MCButtons  == {0}

(* A dependent pair of loads, a store, and the devices.                    *)
MCImages == ProgramsFrom({LW(1, 0, 4), LW(2, 1, 1), SW(1, 0, 8), SW(1, 0, 13)})
            \cup ProgramsFrom({LW(1, 0, 4), LW(2, 0, 14), JAL(0, 8)})
=============================================================================
