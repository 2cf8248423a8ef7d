---------------------------- MODULE MC_CPU_Core ----------------------------
(***************************************************************************)
(* CPU_Core on every program of four instructions from a pool.             *)
(***************************************************************************)
EXTENDS CPU_Core, MC_Programs, DMEM

MCJunk == {9}
MCBus  == {6}
MCMemories == {[a \in 0 .. DMEM_WORDS - 1 |-> (5 * a + 3) % WordMod]}

(* Word i + 3 does nothing where word i traps.                             *)
QuietTraps(images) ==
  {m \in images : \A a \in 0 .. 3 : m[a] = ECALL => m[(a + 3) % 4] = NOP}

Pool == {ADDI(1, 0, 5), ADD(1, 1, 1), SUB(2, 1, 2), LW(1, 1, 3), SB(1, 2, 1),
         BEQ(1, 2, 8), JAL(1, 8), JALR(2, 1, 2), ECALL, NOP}

(* The instruction classes the first pool leaves out, and writes to x0.    *)
OtherPool == {LUI(1, 8), AUIPC(2, 4), ADDI(0, 0, 5), ADD(2, 0, 1), LBU(1, 2, 3),
              LB(2, 0, 2), SW(2, 1, 4), BLT(1, 2, 8), NOP}
MCImages == QuietTraps(ProgramsFrom(Pool)) \cup ProgramsFrom(OtherPool)

(* Programs of the other kind: the trap's third successor writes.          *)
MCTrapImages == ProgramsFrom({ECALL, ADDI(1, 0, 5), SB(1, 2, 1)})
MCZero == {ZeroControl}

(* The first programs, the ALU, the don't-cares and the words of DMEM are  *)
(* as the refinement needs them.                                           *)
ASSUME MCRefinement == Images = MCTrapImages \/ RefinementAssumptions
ASSUME MCWordsTyped ==
  \A word, address \in Word, func3 \in 0 .. 7 :
    LET offset == byteOffset(address)
    IN  /\ Format(word, offset, func3) \in Word
        /\ \A data \in Word : StoreLanes(word, offset, data, func3) \in Word
=============================================================================
