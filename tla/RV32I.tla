------------------------------- MODULE RV32I -------------------------------
(***************************************************************************)
(* What the pipeline promises: the instructions it implements, executed    *)
(* one at a time.  No pipeline, no stall, no forwarding.  One action per   *)
(* instruction class; a machine that has executed ECALL or EBREAK stops.   *)
(***************************************************************************)
EXTENDS CPU_pkg

CONSTANTS
  Alu(_, _, _),          \* arithmetic: operation and two words to a word
  MemRead(_, _, _),      \* memory, address, func3 to the loaded word
  MemWrite(_, _, _, _),  \* memory, address, word, func3 to the new memory
  IMEM_WORDS, Images, JunkWords, Memories

VARIABLES
  program,  \* the loaded image
  pc,       \* address of the next instruction, or Halted
  x,        \* the registers; x[0] is 0
  mem       \* data memory

archVars == <<program, pc, x, mem>>

Halted == -1

(* The instruction at pc, and the values of its source registers.          *)
Current == program[(pc \div 4) % IMEM_WORDS]
A == x[Current.rs1]
B == x[Current.rs2]

Fetched(op) == pc # Halted /\ Current.op = op
Result2Rd(v) == x' = [x EXCEPT ![Current.rd] = IF Current.rd = 0 THEN 0 ELSE v]
PcPlus4 == pc' = Add(pc, 4)

(* Register-immediate and register-register operations by func3, and the   *)
(* alternatives that instruction bit 30 selects.                           *)
Operation == [f \in 0 .. 7 |->
  <<"ADD", "SLL", "SLT", "SLTU", "XOR", "SRL", "OR", "AND">>[f + 1]]
ImmOperation(i) == IF i.func3 = 5 /\ i.ir30 THEN "SRA" ELSE Operation[i.func3]
RegOperation(i) == IF i.func3 = 0 /\ i.ir30 THEN "SUB" ELSE ImmOperation(i)

Taken(func3, a, b) ==
  \/ func3 = 0 /\ a = b
  \/ func3 = 1 /\ a # b
  \/ func3 = 4 /\ Signed(a) < Signed(b)
  \/ func3 = 5 /\ Signed(a) >= Signed(b)
  \/ func3 = 6 /\ a < b
  \/ func3 = 7 /\ a >= b

-----------------------------------------------------------------------------
Lui == /\ Fetched("LUI")
       /\ Result2Rd(Current.U_Type)
       /\ PcPlus4
       /\ UNCHANGED <<program, mem>>

Auipc == /\ Fetched("AUIPC")
         /\ Result2Rd(Add(pc, Current.U_Type))
         /\ PcPlus4
         /\ UNCHANGED <<program, mem>>

(* The link is the address of the next instruction.                        *)
Jal == /\ Fetched("JAL")
       /\ Result2Rd(Add(pc, 4))
       /\ pc' = Add(pc, Current.imm)
       /\ UNCHANGED <<program, mem>>

Jalr == /\ Fetched("JALR")
        /\ Result2Rd(Add(pc, 4))
        /\ LET target == Add(A, Current.imm) IN pc' = target - (target % 2)
        /\ UNCHANGED <<program, mem>>

Branch == /\ Fetched("BRANCH")
          /\ IF Taken(Current.func3, A, B) THEN pc' = Add(pc, Current.imm)
             ELSE PcPlus4
          /\ UNCHANGED <<program, x, mem>>

OpImm == /\ Fetched("OP_IMM")
         /\ Result2Rd(Alu(ImmOperation(Current), A, Current.imm))
         /\ PcPlus4
         /\ UNCHANGED <<program, mem>>

Op == /\ Fetched("OP")
      /\ Result2Rd(Alu(RegOperation(Current), A, B))
      /\ PcPlus4
      /\ UNCHANGED <<program, mem>>

Load == /\ Fetched("LOAD")
        /\ Result2Rd(MemRead(mem, Add(A, Current.imm), Current.func3))
        /\ PcPlus4
        /\ UNCHANGED <<program, mem>>

Store == /\ Fetched("STORE")
         /\ mem' = MemWrite(mem, Add(A, Current.imm), B, Current.func3)
         /\ PcPlus4
         /\ UNCHANGED <<program, x>>

(* FENCE, and the SYSTEM instructions that are not calls, do nothing.      *)
Nop == /\ Fetched("FENCE") \/ (Fetched("SYSTEM") /\ Current.func3 # 0)
       /\ PcPlus4
       /\ UNCHANGED <<program, x, mem>>

SystemCall == /\ Fetched("SYSTEM") /\ Current.func3 = 0
              /\ pc' = Halted
              /\ UNCHANGED <<program, x, mem>>

ArchInit == /\ program \in Images
            /\ pc = 0
            /\ x \in {[r \in RegAddr |-> IF r = 0 THEN 0 ELSE junk[r]] :
                      junk \in [RegAddr -> JunkWords]}
            /\ mem \in Memories

ArchNext == \/ Lui \/ Auipc \/ Jal \/ Jalr \/ Branch \/ OpImm \/ Op
            \/ Load \/ Store \/ Nop \/ SystemCall

ArchSpec == ArchInit /\ [][ArchNext]_archVars
Progress == WF_archVars(ArchNext)
=============================================================================
