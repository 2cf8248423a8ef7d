# RV32I pipeline: TLA+ models, checks and proofs

This directory models the five-stage RV32I core of this repository, the memory
and the board it runs on, and the C code of the vendored `riscv-tests` that
keeps state: the demand-paging environment, the allocator of the debug programs
and the multi-threaded kernels. File names without a directory are of `rtl/`.
`PROJECT.json` holds the same information in a form for tools: which definition
models which lines, which run checks which property.

    tlc -workers 2 -config MC_CPU_Core.cfg MC_CPU_Core     # one run
    tlapm CPU_TOP_proofs.tla                               # the proofs

## 1. The system

| Component | State | Operations | Talks to | What is hard |
| --- | --- | --- | --- | --- |
| `CPU_TOP` | four pipeline registers, `halt_sig` | one rising edge: every `always_ff` at once | everything in the core; the data bus | stall, flush, forward, trap and reset meet in one edge |
| `IMEM` + `Program_Counter` | the fetched word and its address | fetch, hold on stall, empty on freeze | PC select and flush from EX | no reset; flush wins over freeze |
| `Control_Unit_Decoder` | none | word to control signals | ID | every output is `'X` for an unlisted opcode, an empty slot included |
| `Forwarding_Unit`, `HazardUnit`, `PC_Decoder`, `Branch_Condition_Generator` | none | stall, forward selects, flush, next PC | EX, MEM, WB | priorities between them; stale operands under a stall |
| `Reg_File` | 32 words | two reads, one write | ID; written from MEM | never reset; `mem_wb_q` is a second copy of the last write |
| `ALU`, `Jump_Branch_Address_Generator`, `Immediate_Generator` | none | arithmetic | EX | widths, sign |
| `DMEM` | 2048 words, the registered read word | byte, half and word stores and loads | bus | the reply is formatted a cycle after the request |
| `Interconnect` | `region_q`, `mmio_q` | address to region, reply routing | bus, DMEM, devices | the reply must follow the request's address |
| `MCU_WRAPPER` | `clk_50`, `s_reset`, LEDs, display register | clock divider, reset, output registers | all of the above | DMEM on the undivided clock; reset stops the clock that would sample it |
| `SevSegDisp`, `BCD`, `CathodeDriver` | divider, digit | binary to decimal, multiplexing | wrapper | a reset that may come at any count; the carry out of four digits |
| `env/v/vm.c` | page table, freelist, frames, the caller's pages | page fault, eviction at the exit | a user program and an MMU | stale cached translations; A and D bits in two hands |
| `debug/programs/tiny-malloc.c` | heap end, freelist | malloc, free, realloc, memalign and their kin | the debugger, the stack | long sequences of calls; a call that fails half-way |
| `mt/*.c`, `mt-matmul`, `mt-vvadd`, `util.h` | shared C, static copies, the barrier | compute a share, wait, verify | cores with each other | who writes which cell when; barriers in loops |
| `debug/programs/multicore.c` | lock, buffer | lock, rewrite, unlock | harts with each other | mutual exclusion, progress |

In the RTL there is one kind of concurrency: five instructions in flight, all moving at
the same edge, each reading what the others held before it. There are two
sources of asynchrony: RST, and (on the board) the two clocks. The bus has no
handshake: a read enabled at an edge is answered in the next cycle, by a RAM
that still looks at the bus while it answers.

What makes each part correct:

* the core: every instruction takes effect once, in program order, with the
  operands program order gives it; a stall ends; a trap stops it; a reset
  restarts it;
* the memory side: a load gets the word that is in memory at its own address,
  routed, sized and extended as itself asks;
* the wrapper: a press of BTNC restarts the core whatever its length, and two
  RAM edges in a core cycle look like one;
* the display: each digit that lights up is right, and all of them do;
* `vm.c`: the test program sees one flat memory, and leaves it written back;
* the allocator: no byte is lost or given twice, and a call fails only when
  there is no room;
* the kernels: cores share no cell between two barriers, read only what is
  ready, and verify a result that is complete; barriers pair up; everybody
  finishes.

## 2. The modules

    CPU_pkg <- Control_Unit_Decoder <-+
       ^  <--- Hazards <--------------+- CPU_TOP <- CPU_TOP_proofs
       |                                   ^  ^           ^
    RV32I <..(refinement)......... CPU_Core   |    CPU_Core_proofs
                                              |
                                        CPU_Bench -> DMEM
                                          ^    ^
                                 MCU_WRAPPER  CPU_Bench_proofs
                                          ^    ^
                                   MCU_WRAPPER_proofs -> CPU_TOP_proofs

    Immediate_Generator, SevSegDisp <- Parts_proofs
    tiny_malloc <- tiny_malloc_proofs
    vm <- vm_proofs        mt_kernels <- harts <- harts_proofs

| Module | Models | Correspondence |
| --- | --- | --- |
| `CPU_pkg` | `CPU_pkg.sv` | words, register numbers, the instruction as a record of its bit fields, the control word. `imm` is the I, S, B or J immediate the format selects; `U_Type` is apart because JAL puts it on the ALU as well. |
| `Control_Unit_Decoder` | `Control_Unit_Decoder.sv` | `Decode` is the case statement read output by output; `ControlOf` adds what an unlisted opcode may decode to. |
| `Hazards` | `Forwarding_Unit.sv`, `HazardUnit.sv`, `PC_Decoder.sv`, `Branch_Condition_Generator.sv` | one operator per output. |
| `ALU` | `ALU.sv` | `Result`, at a width that is a parameter. |
| `CPU_TOP` | `CPU_TOP.sv`, `IMEM.sv`, `Program_Counter.sv`, `Reg_File.sv`, `Jump_Branch_Address_Generator.sv`, the muxes | a variable per flip-flop, a state function per wire, an operator `Latch...` per `always_ff`; an edge is their conjunction. |
| `RV32I` | the promise | the implemented instructions, one action per class, executed one at a time. |
| `CPU_Core` | `CPU_TOP` and the memory it expects | the memory answers as a contract says; `ImplementsISA` is the refinement. |
| `DMEM` | `DMEM.sv` | address arithmetic, store lanes, load formatting. |
| `CPU_Bench` | `my-tests/tb/riscv_test_CPU_TOP_tb.sv`, `Interconnect.sv`, `DMEM.sv` | CPU_TOP, Interconnect and DMEM on one clock, as the riscv-tests run. |
| `CPU_TOP_proofs` | | theorems about `CPU_TOP`. |
| `MCU_WRAPPER` | `MCU_WRAPPER.sv`, the devices of `Interconnect.sv` | a step is an edge of the board clock; `clk_50` is a flip-flop of it, and `CoreClock` is what rises with it. |
| `Immediate_Generator` | `Immediate_Generator.sv` | one function of the word's bits per output. |
| `SevSegDisp` | `SevSegDisp.sv`, `BCD.sv`, `CathodeDriver.sv` | double-dabble as a recursive function; divider and multiplexer as actions. |
| `vm` | `env/v/vm.c` | both arrays of `freelist_t` with their pointers; `handle_fault`, `evict`, `terminate`; the user's accesses and the MMU's cache are the environment. |
| `tiny_malloc` | `debug/programs/tiny-malloc.c` | addresses and sizes in bytes, `size_t` with its width; an action per entry point. |
| `mt_kernels` | `mt/*.c`, `benchmarks/mt-matmul`, `benchmarks/mt-vvadd`, `multicore.c` | for each file the sequence of steps of a core. A step is what happens between two synchronisations: the cells of C it writes, the ks it sums over, the copies it reads or fills. |
| `harts` | `benchmarks/common/util.h`, `multicore.c` | `barrier()` atomic by atomic, the spin lock, and the cores that run a program of `mt_kernels`. |
| `CPU_Core_proofs` | | that `CPU_Core` implements `RV32I`. |
| `CPU_Bench_proofs`, `MCU_WRAPPER_proofs` | | theorems about `DMEM` and `CPU_Bench`, and about `MCU_WRAPPER`. |
| `harts_proofs`, `vm_proofs`, `tiny_malloc_proofs` | | theorems about `harts`, `vm` and `tiny_malloc`. |
| `Parts_proofs` | | theorems about `Immediate_Generator` and `SevSegDisp`. |
| `MC_*` | | the constants of the runs. `MC_Programs` has the instruction constructors. |

A state of the model is the state between two rising edges. Nothing in the core
happens at any other time, so there is one step, `Edge`, and what is
interesting is which disjunct of each `Latch...` operator it takes. RST and
DATA_IN are input variables: each step gives them any value the environment may
choose for the next cycle.

The value `'X` is a choice among the values a build may wire: `UnknownControl`
is a set of control words for an unlisted opcode (the decoder gives
`system_call` a value there, so none of them traps) and `XWord` is the unused
leg of the write-back mux. Operators whose name has a suffix after an
underscore and whose comment says "wrong on purpose" (`ForwardSel_WBFirst`, ...)
are broken versions used to see that a property can fail; no specification uses
them.

The names of the sources under `riscv-tests` are kept: `ad_matmul` is
`mt/ad_matmul.c`. `vm` treats a fault handler as one step, because it runs with
interrupts off on the only hart that maps pages. In `mt_kernels` the order
inside a step is left out: no other core can tell. A core that is at a step may
be anywhere in it, which is what `RaceFree` is about. A loop that does several
rows or columns in a round goes on to the end of its last round: what it touches
beyond its bound when the rounds do not fit is modelled in `af`, `am`, `at`, `bb`,
`du` (`Rounded`) and the sums. The other products are exact for the size they are
written for, 32 rows on one core or two.

## 3. What is checked

Programs of the core are images of four instructions drawn freely from a pool. Words
have 4 bits, so the image *is* the address space: every jump and branch lands in
it, PC wraps, links wrap, and JALR can reach a misaligned target. Three
registers (x0 and two others) are what it takes for two producers and one
consumer. The pipeline is five deep and a behaviour is unbounded: loops run for
as long as TLC finds new states. Wider words change what the ALU computes, not
which value reaches it.

| Run | Question | Result |
| --- | --- | --- |
| `core_open` (2.1 M states) | six instructions that produce, consume, stall, flush and trap; RST raised at any edge; any word on the bus; an empty slot may decode as a jump | pass: `OperandsCurrent`, `LinkNotForwarded`, `WriteBackCoherent`, `FrozenSpacing`, `StallLastsOneCycle`, `ResetRestarts`, `TypeOK` |
| `core_isa` (243 k) | two pools of ten instructions that cover all classes: does the pipeline implement the sequential machine, and go on doing so? | pass: `ImplementsISA`, `ProgramProgresses` |
| `bench` (106 k) | the real memory side on one clock, addresses in all three regions, stores of bytes and words, loads behind loads | pass: `ReplyRoutedByLoad`, `LoadReadsCurrentWord` |
| `board` (192 k) | the divided clock, the button, the devices; loads, a store, a load-use pair, a jump | pass: `QuietLoadReadsCurrentWord`, `LaterRamEdgesRepeat`, `DeviceReplySteady`, `ResetReleases` |
| `display` (14 k) | numbers at which digits carry, a reset at any clock | pass: `ShowsDecimal`, `DigitsInTurn`, `AllDigitsShown` |
| `vm` (31 k) | loads, fetches and stores on all pages of a small space, every frame to start from, an MMU that caches and drops entries at will, and sets A and D itself or faults | pass: `AssertionsHold`, `FramesExclusive`, `FlatMemory`, `WrittenBack`, `AccessCompletes` |
| `malloc` (321 k) | every order of calls with up to three blocks, at two stack depths | pass: `HeapTiled`, `FreelistCoalesced`, `FitsRequest`, `FailsForWantOfSpace`, `UsedIsHeld`, `GapKept` |
| `mt` (31 k) | 45 matrix products (43 of them free of races, see below), six vector sums and the locked buffer on two cores | pass: `SoundAtStart`, `BarrierTogether`, `CopiesReady`, `RaceFree`, `VerifiedIsComplete`, `AllFinish` |
| `core_reset` | does a reset clear the trap, as the comment at `CPU_TOP.sv:380` says? | violated |
| `core_trap` | does the core freeze on ECALL, as `riscv-tests/tests.mk:3` says? | violated |
| `bench_format` | is a load formatted as itself asks, as `README.md:41` and `DMEM.sv:78` say? | violated |
| `board_loads` | does a load on the board keep its word until the core takes it, as `README.md:5` says? | violated |

What the properties say:

* `ImplementsISA` is refinement, `CoreSpec => RV32I!ArchSpec`. The mapping
  takes an instruction as executed when it leaves EX: the architectural PC is
  the address of the oldest instruction that has not left EX, a register is the
  value MEM is about to write or else the register file's. Every edge is then a
  step of one instruction or a stutter. An instruction lost, repeated, executed
  in the shadow of a jump, or computed from a stale operand is a violation.
* `OperandsCurrent` is the same fact about operands alone, but under RST, any
  bus and any don't-care; it does not depend on the memory or on the program.
* `LinkNotForwarded`: the forward path from MEM would deliver the wrong value
  for JAL and JALR. The code is right only because nobody can ask.
* `WriteBackCoherent` and `FrozenSpacing`: a trap stops `mem_wb_q` but not the
  register file, and one more instruction is still fetched; nothing may rely on
  a forward that has been switched off.
* `ResetRestarts`: the fetch latch has no reset, so the first edge under RST
  may keep an old instruction. The second one restarts at 0, unless the core
  has trapped (divergence 1).
* `ReplyRoutedByLoad`, `LoadReadsCurrentWord`: what arrives in MEM belongs to
  the load in MEM, although the bus already shows the next instruction, and a
  stalled load has read at a wrong address first.

* `QuietLoadReadsCurrentWord`, `LaterRamEdgesRepeat`: the board's RAM has two
  edges in a core cycle. The second changes nothing, so the pair is as good as
  one edge, except for a load behind which another access follows
  (divergence 4).
* `ResetReleases`: `s_reset` is sampled by the clock that the button stops.
* `FramesExclusive` needs the period of the shift register to be
  `MAX_TEST_PAGES`; `FlatMemory` and `WrittenBack` need both flushes of
  `handle_fault` and the dirty bits, whoever sets them.
* `HeapTiled`: the blocks of the program and of the freelist are apart, inside
  the heap, and every byte is in one of them; `UsedIsHeld` compares what
  `mallinfo` counts with what the program holds; `FailsForWantOfSpace` looks for
  a place whenever a call has failed.
* `VerifiedIsComplete`: when a core verifies, the boxes of all steps of all
  cores make up the product: each term once, and a cell that is stored, not
  added to, has all its terms from one step, and no step goes beyond the
  matrix or vector (vvadd1 does, and is exempt from that: `OverrunningKernels`).
  `RaceFree` and `CopiesReady` are about time: no overlap between cores, no read
  of a copy before its barrier.
* `SoundAtStart` is about the text of the programs, before anything has run:
  conflicting steps are between different barriers or both under the lock,
  copies come before their readers, products before the verification. It is
  what the theorems on `harts` ask of a program.
* `cf` and `cm` (`RacyKernels`) race. Of them the run shows that the barriers
  pair up, that copies are ready and that all cores finish; `RaceFree`,
  `VerifiedIsComplete` and the corresponding parts of `SoundAtStart` are about
  the other 43 products, the sums and the buffer.

### Bounds

`board` has the map of `bench` with device addresses and two families of
programs; the button, the switches and the phase of `clk_50` are free at every
step. `display` counts to 2 instead of 0x186A0: only the equality at the
end of a count matters. `vm` has a register of two bits (`LFSR_BITS` can be set
when `riscv_test.h` is compiled), so there are two pages and three frames: the
program maps every page, and the freelist is used to the node at which its tail
is cleared, and extended again by the evictions. Two pages and two values are
what it takes to confuse them. With the six bits that `riscv_test.h` has by
default, TLC evaluates the conditions the proofs need (`MCSixBits`). `malloc` has a heap
of 60 bytes in which three blocks of 8 to 16 bytes can lie in every order; an
alignment of 0 is not a power of two. `mt` has two cores, because the Makefile
runs `spike -p2` and many files are written for two; matrices of 32, because
the files with constants in them have that; vectors of 1000, the length in
`mt-vvadd/dataset.h`, which is not a multiple of 16. They leave nothing over for
`vvadd0`; an assumption of `MC_harts` (`Leftover`) evaluates `Sound` of it for
1001. `Rounds` bounds the loop of
`multicore.c`, which has no end.

### Divergences found

1. **`halt_sig` outlives a reset.** Its reset branch (`CPU_TOP.sv:377-379`)
   clears only `mem_wb_q`, so after a trap the fetch is frozen until the FPGA
   is configured again. The comment in the same block says "until reset".
2. **One instruction runs after the trap.** ECALL in EX raises FLUSH, and
   `IMEM.sv:47` tests the flush before the freeze, so the word at ECALL+12 is
   fetched and executed; it can write after `halt_sig` is up. `core_isa` is
   therefore limited to programs in which that word does nothing.
3. **A load is formatted for the instruction behind it.** `mem_data` and the
   byte offset are EX-stage wires; in the cycle the word arrives EX holds
   another instruction. A word load followed by an ADDI gets a sign-extended
   byte; followed by a word-sized instruction it is right. This is a plausible
   cause of the ten riscv-tests the README reports as failing.

4. **The first of two loads in a row gets the word of the second, on the
   board.** `DATA_MEMORY` is on CLK, the core on `clk_50`: the RAM's edge in the
   middle of the core cycle reads for the load in EX while the one in MEM has
   not been sampled yet.

The following were met while modelling; they have no run of their own.

* A press of BTNC while `clk_50` is low and until it would have risen makes no
  falling edge, so `s_reset` never shows it (`MCU_WRAPPER_io_tb` FUNC-1 expects
  it). A press may also give the core a single reset edge, after which `IMEM`
  can still hold an old word (`MCU_WRAPPER_tb` TIME-2). `ButtonReachesReset` and
  `ResetFetchesZero` state the two expectations.
* `Interconnect.sv:86` answers switches and buttons at the addresses of the
  output devices; the map in `README.md` and in `MCU_WRAPPER.sv:23` has them at
  0x11000000 and 0x11000080 (`MemoryMapRead`).
* The display is wired for decimal (`MODE`); `io_poll.s` speaks of hex.
* `tiny-malloc.c:116`: the gap to the stack is an unsigned difference. Called
  with less than `MALLOC_MINIMUM_GAP` left, it wraps, and every request is
  granted. `GapKept` is about the calls that find the gap.
* `mt/cf_matmul.c` and `mt/cm_matmul.c`: both cores add to the same rows with
  plain loads and stores, and terms are lost where they meet. `RaceFree` and
  `VerifiedIsComplete` leave these two out (`RacyKernels`).
* `mt/vvadd1.c` writes eight elements a turn without looking at the end: with
  1000 elements and two cores, z[1000] to z[1007] are past the array.
* `mt/vvadd0.c:7` takes the remainder by `n / ncores` where the elements left over
  are `n % ncores`. The two agree unless the cores leave as many elements as each
  of them gets; then some are not summed (5 elements on 3 cores).
* `benchmarks/mt-matmul/dataset.h:8` has `DIM_SIZE` 16; the files with 32 in
  them run past its arrays.
* The kernels call `barrier(ncores)`; `util.h` now has `barrier(&global,
  &local)`. They are modelled as calling the latter on the driver's barrier.

### Environment and fairness

`core_isa` assumes four things, each of which the runs above or the hazards
list show to be needed: known opcodes, a quiet word after a trap (2), a memory
that formats for the right instruction (3), and don't-cares that neither jump
nor store (`InertControls`; an empty slot decoded as a store would be a store).
RST is low after the start: `ResetRestarts` covers reset apart.

Fairness is weak fairness on `CoreNext`, the clock edge. The clock of the core
is free-running once RST is low, and an edge is always enabled: nothing in the
core waits for anything. `ProgramProgresses` then says that the sequential
machine goes on executing, so stalls and flushes cannot hold it up for ever. No
run disables the deadlock check; a halted core still has edges.

* `board`, `display`: weak fairness on the edge of the board clock, which
  nothing gates.
* `vm`: the hart executes, so it retries its access and goes through the
  handlers; nothing makes it begin a new access or exit.
* `mt`: each core executes (`WF` of `HartStep` per core). Spinning at the
  barrier or the lock changes nothing, so fairness does not push a core through
  either. Nothing promises that a hart wins the lock: `AllFinish` holds because
  each one takes it a bounded number of times.

## 4. What is proved

`CPU_TOP_proofs` proves, for every word size, register count, image size, set of
programs, ALU, bus and don't-care set that the assumptions allow:

| Theorem | Statement |
| --- | --- |
| `TypeCorrect` | `Spec => []TypeOK` |
| `OperandInvariant` | `Spec => []OperandInv` |
| `OperandsAreCurrent` | `Spec => []OperandsCurrent` |
| `LinksAreNotForwarded` | `Spec => []LinkNotForwarded` |
| `WriteBackIsCoherent` | `Spec => []WriteBackCoherent` |
| `FrozenIsSpaced` | `Spec => []FrozenSpacing` |
| `StallsLastOneCycle` | `Spec => StallLastsOneCycle` |
| `ResetAlwaysRestarts` | `Spec => ResetRestarts` |

`OperandsCurrent` is not inductive: it speaks of EX, and depends on what ID read
a cycle earlier and on what a stall captured. The invariant is the conjunction
of seven parts, each with a step lemma of its own:

* `TypeOK`;
* `SlotsDecoded`: ID/EX holds what its instruction decodes to, and an empty slot
  names only x0;
* `MemWrites`: a register write in MEM is an ALU result, a load or a link, and a
  link has an empty slot behind it - because the jump that writes it flushed;
* `TrapShadow`: a trap in MEM has two empty slots behind it;
* `FrozenSpacing`: once `mem_wb_q` has stopped, the instructions still in
  flight are too far apart to need it. It is entered from `TrapShadow`, and kept
  because a frozen fetch issues at most one word per flush;
* `WriteBackCoherent`;
* `HeldOperands`: an operand held in ID/EX is the register's value, or WB is
  about to replace it. This is where capturing the forwarded operand on a stall
  matters.

The lemmas are about `Edge` with arbitrary next inputs, so a module that drives
RST and DATA_IN in its own way can reuse them. The assumptions are the ASSUMEs
of `CPU_pkg`, `Control_Unit_Decoder` and `CPU_TOP`: the ALU, the bus and the
image are typed, a word without a known opcode is the zero word, and an unknown
opcode never traps. TLC evaluates all of them in every run.

`CPU_Bench_proofs` is about the memory side on one clock:

| Theorem | Statement |
| --- | --- |
| `RepliesAreRouted` | `BenchSpec => []ReplyRoutedByLoad` |
| `LoadsReadCurrentWords` | `BenchSpec => []LoadReadsCurrentWord` |

What asks on the bus at an edge, with the address EX shows then, is what is in
MEM after it: `region_q` and the read word are latched at the same edge as
`ex_mem_q`. A load that is held in EX asks as well, at an address it may not
have yet, but it puts an empty slot in MEM, so that nobody takes the answer
(`AskedIsNextInMEM`). The second theorem assumes that no control word both
loads a register and stores (`LoadsAndStores`). The decoder keeps to that for
every listed opcode; for an unlisted one, an empty slot included, its `'X`
could be anything, and a slot that did both would read the word its own store
replaces.

The third theorem, `LoadsSeeStores`, is about `DMEM` alone, for every width of a
lane, size of the RAM and address the case statements list: a load returns the
bytes of the last store to its lanes, sized and extended, and a store leaves
other lanes and other words as they were. A word is a number here, so its lanes
are the digits of one; the lemmas before the theorem say what \div and % do to
digits (`Digits`, `DigitReplaced`), and `LaneUnits` that the lanes of an aligned
access divide the word.

`MCU_WRAPPER_proofs` is about the divided clock:

| Theorem | Statement |
| --- | --- |
| `DeviceRepliesHold` | `BoardSpec => DeviceReplySteady` |
| `QuietLoadsReadCurrentWords` | `BoardSpec => []QuietLoadReadsCurrentWord` |
| `LaterEdgesRepeat` | `BoardSpec => LaterRamEdgesRepeat` |

The RAM's edge in the middle of the core cycle leaves the word alone when the
bus is quiet, and the falling edge of `clk_50` moves none of the registers that
answer for a device. The second theorem has the assumption of
`LoadsReadCurrentWords`. The third has it for any read and write at once
(`ReadsAndWrites`): its invariant, `RepeatInv`, says that while `clk_50` is low
the RAM has already done what the bus asks, and doing it again changes nothing.
That the same store twice is one store is `StoreFills`, once more on digits.

`CPU_Core_proofs` proves the refinement:

| Theorem | Statement |
| --- | --- |
| `PipelineImplementsISA` | `CoreSpec => ImplementsISA` |
| `QuietHaltFreezesState` | `CoreSpec => HaltFreezesState` |

Every edge is an instruction of `RV32I` or a stutter: a stall, a slot without an
instruction and a trapped core are stutters; otherwise there is one lemma per
class of instruction (`ComputeStep`, `LoadStep`, `StoreStep`, `JumpStep`,
`BranchStep`, `SystemStep`). The invariant is `CoreInv`: `OperandInv`;
`FetchOrder`, the three stages before MEM hold successive words of the program;
`TrapIsLast`, after a trap only words that change nothing leave EX; and RST low.
TLC checks it on the programs of `core_isa` (it is not one of the run's
properties). The hypotheses are `RefinementAssumptions` in `CPU_Core`:

* `KnownPrograms`: every word of an image has a listed opcode;
* `QuietBehindTraps`: the word three behind a trap does nothing. This is
  divergence 2; with it the core does freeze, as the second theorem says;
* `InertUnknowns`: the decoder's `'X` does nothing in an empty slot;
* `AluAddsAndCopies`: ADD adds and LUI_COPY copies;

and `MemoryTyped`, that loads and stores make words of words, which `FormatTyped`
and `StoreFills` show of `DMEM` at every size. TLC evaluates them on the constants
of `core_isa` (`MCRefinement`, `MCWordsTyped`).

`harts_proofs` is for every number of cores:

| Theorem | Statement |
| --- | --- |
| `BarrierKeepsTogether` | `Spec => []BarrierTogether` |
| `NoRaces` | `Spec => []RaceFree` |
| `CopiesBeforeReads` | `Spec => []CopiesReady` |
| `VerifiesWhatIsDone` | `Spec => []VerifiedIsComplete` |
| `SharesAreSound` | `Spec /\ Fits(kernel) => []SoundAtStart` |
| `FittingProgramsAreRight` | `Spec /\ Fits(kernel) => [](RaceFree /\ CopiesReady /\ VerifiedIsComplete)` |

`BarrierTogether` is not inductive: whether a spinning core may leave depends on
the sense, which the last one to arrive reverses, and which one is the last
depends on the count. `BarrierInv` has, besides the types:

* `RunnersInSense`: a core outside the barrier has the sense of its last
  crossing;
* `LastIsAlone`: while one core is between its increment and the reversal, all
  others spin in the old sense. This is why resetting `count` before `sense` is
  safe although the two are separate stores;
* `CountIsRight`: the count is the number of cores that have arrived and are
  not released, and 0 once it has been reset;
* `AllAlike`: counting a released core as past the barrier, all cores have
  crossed equally often.

That the count reaches `NCORES` - 1 only when all others wait is an argument on
cardinalities (`OthersCounted`).

The next three assume `ProgramsSound`, a condition on the text of the programs
alone: what two cores both touch they touch between different barriers or both
under the lock, copies are made before a barrier that their readers are behind,
and so are products and their verification. TLC evaluates it for every kernel
of the run (`SoundAtStart`). `HartsInv` takes it to every schedule: besides
`BarrierInv`, a core has crossed as many barriers as its program has before the
place it is at (`InProgram`), and the lock is its holder's alone (`LockInv`). Two
cores at different places are then between the same barriers, which the
programs exclude for steps that conflict.

For twelve programs the condition itself is proved, at every size that their
loops fit (`Fits`):

| Programs | `LDA` rows, `NCORES` cores |
| --- | --- |
| `vvadd4`, mt-vvadd's own sum, the locked buffer of `multicore.c` | any length, any number of cores or harts and turns |
| mt-matmul's own product, `ap` | the cores divide the rows evenly; otherwise the last rows are left out |
| `ar` | the same, and at most 32 rows: its copy of B is an array of 32 by 32 on the stack |
| `bb` | every core's share is a multiple of 4 rows |
| `do` | 32 rows, the cores divide them |
| `af`, `am`, `du` | 32 rows, every share is a multiple of 2 |
| `at` | 32 rows, every share is a multiple of 8 columns |

Elsewhere they are wrong: with 3 cores and 32 rows, core 1 of `at` adds columns 10
to 25, and core 2 has those from 21 on. Sizes whose products a C int does not
hold are excluded, as everywhere in `mt_kernels`. The argument:

* `RoundsFit`, `SharesFit`: an unrolled loop over a share that is a multiple of
  its rounds touches that share and nothing else;

* `SplitBounds`: core c's part begins at or before x just if
  `c * n < (x + 1) * NCORES`. So the parts are in order, apart and complete
  (`PartsApart`, `PartsWhole`, `PartWithin`), and so are the elements in turn
  (`TurnsApart`, `TurnsWhole`). Dividing first gives the same parts when
  there is no rest (`ShareIsPart`);
* `VolumesAddUp`: boxes that are apart and cover C have volumes that add up to
  its volume, which is what `Complete` computes. Each term of the product is a
  point; the points of a box are as many as its volume, and `Complete`'s fold
  over the different volumes is the cardinality of the union;
* `StagesAreSound`: with one product a core, the driver's barriers put the
  verification behind all of them, mt-vvadd's reset and its second verification
  where only core 0 works, and the sum in place behind the first verification
  (`DriverOfProduct`, `DriverOfSum` read the sequences element by element);
* `Flattened`: `multicore.c` is a loop, so its steps are `FlattenSeq` of equal
  turns, a recursion. Step j of turn i is shown to be at place
  `(i - 1) * L + j` by exhibiting the function that the recursion defines, as
  for the display below; then every step between `get_lock` and `put_lock` is
  under the lock (`LockSound`), and `LockInv` makes that mutual exclusion.

The other programs have several products a core, copies or barriers of their
own, or are for two cores; for them `ProgramsSound` is what TLC evaluates.

`vm_proofs` is for every width of the shift register, every set of pages the
program touches, and all contents:

| Theorem | Statement |
| --- | --- |
| `AssertionsNeverFail` | `Spec => []AssertionsHold` |
| `MemoryIsFlat` | `Spec => []FlatMemory` |
| `AllWrittenBack` | `Spec => []WrittenBack` |
| `FramesAreExclusive` | `Spec => []FramesExclusive` |

The hypotheses are that `vm_boot` links frames that are in the memory
(`FramesInDram`) and all different (`FullPeriod`). What the recursive function
`FrameOrder` computes is out of the provers' reach; TLC computes it, for the
register of the run and for the one of six bits (`MCFullPeriod`, `MCSixBits`). `VmInv`
is checked by TLC as well. Its parts:

* `TlbCurrent`: what is cached is the entry of the table. Both flushes of
  `handle_fault` are for this;
* `BitsInOrder`, `ViewIsFlat`: a page without D is the same in its frame and at
  home, and what the program sees is what a flat memory would hold;
* `EvictedHome`: a page that is evicted at the end is home;
* `FramesApart`, `NodeOfPage`: no two pages have the same frame, and
  `user_mapping` has the frame of every page;
* `FreeNodes`, `FreeAfterMapped`: the free nodes are the last of the array, in
  its order, and the frames of mapped pages are those of the nodes before them.

`FramesExclusive` walks the freelist. That the walk meets the suffix and nothing
else is shown by the smallest counterexample, as natural numbers are
well-ordered (`Smallest`).

`tiny_malloc_proofs` is for every width of `size_t`, heap, stack depth and
sequence of calls:

| Theorem | Statement |
| --- | --- |
| `BytesKept` | `Spec => []HeapTiled` |
| `Coalesced` | `Spec => []FreelistCoalesced` |
| `BytesAndAlignment` | `Spec => []FitsRequest` |
| `NullForWantOfSpace` | `Spec => []FailsForWantOfSpace` |
| `GapIsKept` | `Spec => GapKept` |
| `UsedBytesAreHeld` | `Spec => []UsedIsHeld` |

The hypotheses, which TLC evaluates (`MCSizes`), are `SizesInReach`, that a
request with its header does not wrap (`tiny-malloc.c:125` does not check), and
`PowersOfTwo`, that an alignment above two is a multiple of a word. `MallocInv`
is what the run checks and what it rests on:

* `MallocType` and `Words`: the end of the heap and the size of every block are
  multiples of a word;
* the list is in order throughout and no two entries touch or overlap, where
  `FreelistCoalesced` speaks of neighbours only;
* `HeapTiled`, `FitsRequest`, `FailsForWantOfSpace`.

A call is seen as two things: a splice of the list, which replaces a run of
entries by others (`GoodSplice` says when the result is in order and
coalesced), and an exchange of blocks for others that cover the same bytes
(`Regroup` then gives `HeapTiled`). `free` has one lemma for the list it leaves
(`FreeGood`), the splits of `malloc` and `memalign` share `CarveGood`, and growing
the heap is `GrowHeld` or, for a fresh block that `memalign` then cuts,
`GrowFree`. Three facts are arithmetic: the place `memalign` picks leaves a list
entry before it or nothing, and is the least that does (`BeforeAligns`,
`BeforeIsLeast`), so a block it passes over could not have served; and
`CAN_ALLOC_P`, an unsigned difference, is exact for a caller that finds the gap
(`GapIsExact`). The searches of the list end at the first entry that will do,
which exists because indices are well-founded (`FirstIndex`).

`UsedIsHeld` compares two sums: what `mallinfo` adds up along the freelist, taken
from the heap, and the sizes of the blocks the program holds. Both are shown to
be the cardinality of a set of addresses (`FreeBytes`, `HeldBytes`), and
`HeapTiled` says that these sets are apart and make up the heap. That a
recursive sum over a set is the cardinality of a disjoint union
(`BytesAreASum`, `SumIsBytes`) goes without an induction theorem: the function
that gives the cardinality of the union satisfies the recursion, and a least
set at which two solutions differ cannot exist (`FirstOf`).

`Parts_proofs` has the parts that share nothing with the pipeline.
`Immediate_Generator` has two theorems, for every instruction word:
`ImmediatesUnpack` (each immediate is the one the format holds, whatever the
other fields) and `ImmediatesTyped` (sign extension, zero low part, even
offsets). They are proved bit by bit; together they say that the generator is
the inverse of the formats.

`DigitsAreDecimal` is `Spec => ShowsDecimal` of `SevSegDisp`: the four nibbles of
double-dabble are the decimal digits of the number for all values of all
widths, thousands and above dropped as the code drops them. The hypothesis is
`MODE`: in the other mode the display shows hexadecimal digits. The loop keeps
this invariant: after i bits the nibbles are the digits of the number those bits
are (`DecimalDoubles`), as adding 3 to a digit above 4 before the shift turns
the carry out of the nibble into a carry out of the digit (`DigitDoubles`).
The library's induction theorems take an operator as a parameter and cannot be
used. So the loop is solved by exhibiting the function that gives the digits of
the top i bits: it satisfies the recursion, and `UpTo`, an induction over a set
of numbers, says that nothing else does. That a function with the equations of
`TwoTo` exists on all natural numbers is `Recursion`: its finite beginnings
agree with each other. Both rest on the least member of a set (`Least`).

`DigitsLightInTurn` is `Spec => DigitsInTurn` of
`SevSegDisp`, for every count of the divider and every order of resets. The
digit lit and the digit next to light belong together (`InTurn`), and the
multiplexer's own reset never fires, because its clock does not rise under a
reset.

What TLC checks and no theorem states:

* liveness, which the provers do not do: `ProgramProgresses`, `ResetReleases`,
  `AllDigitsShown`, `AccessCompletes`, `AllFinish`;
* `FullPeriod` of the shift register, a fact about polynomials of each width;
* `SoundAtStart` for the programs `Fits` does not name, `FramesInDram`,
  `SizesInReach`, `PowersOfTwo`, `RefinementAssumptions`: conditions on constants, evaluated on those of the
  runs. So are the ASSUMEs on the shape of the parameters (`DmemAssumption`,
  `MapAssumption`, `VmAssumption` and the like).

## 5. What is not modelled

* Power-up without a reset. Every behaviour starts from the state a reset of
  several edges leaves, as in both benches. A configured FPGA that never sees
  BTNC starts from the flip-flops' initial values and fetches address 4 first.
* Words with an unlisted opcode other than zero: nothing in the RTL says what
  they do. Devices: the bench ties the switches and buttons to 0.
* `ebrak` (always 0), `ex_mem_q.DATA_IN`, `ex_mem_q.memWE`, `instruction` and
  `halt_sig`'s export: written, never read by the core.
* `decode_instr_name`: a mnemonic for the waveform. The benches, programs and
  Makefiles are drivers and data.
* Of `riscv-tests`, which is vendored: the assembler tests (programs for the
  core), the environments p, pm and pt and `encoding.h` (macros, start-up code;
  `encoding.h` is generated), the single-threaded benchmarks, `mt-memcpy` and
  the other debug programs (straight-line code). Of `vm.c`: the console and the
  host mailbox, CSR set-up, the harts that only make cache traffic; the hooks
  `pf_filter` and `trap_filter` (184, 206), which do nothing unless a test
  redefines them (`riscv_test.h:31-40`); the assertions on the range of an
  address (127, 162), which hold because `UserPages` are in it; illegal
  instructions and unexpected exceptions (219-235), which end the program
  without an eviction. Of
  `tiny-malloc.c`: the contents of blocks, and the downward heap, which no
  target builds. Of the kernels: the values, and the counters of `stats()`. Of
  `multicore.c`: the check at line 78, which spins on a letter that is not the one
  the last holder of the lock wrote. The model's step ends, which takes the
  exclusion for granted that `RaceFree` states; and the letters wrap with
  `hart_count`, so that after some 2^32 turns, beyond any `Rounds` that is checked, a
  hart would wait for ever with the lock.

## 6. Plan

Modelled and checked in this order: `CPU_pkg`, decoder, hazards; `CPU_TOP` with
RST and bus free; `RV32I` and the refinement; `DMEM` and the bench; the board;
the display; `vm`; `tiny_malloc`; the kernels; `Immediate_Generator`.

Proved: `CPU_TOP`; the bench and `DMEM`; the board; the refinement of `RV32I` by
`CPU_Core`; the barrier and the kernels; `vm`; `tiny_malloc`; the display's
conversion and multiplexer. Every invariant and action property that a passing
run checks has a theorem; section 4 ends with what stays with TLC.

What is left:

1. `FramesExclusive` without `FullPeriod`: the period of a shift register of
   given width is a fact about polynomials, and stays with TLC.
2. `mt_kernels`: `Sound` for the files with loops, in the sizes that divide
   evenly. The lemmas on parts and volumes carry over; what is missing is what
   `FlattenSeq` makes of a loop, step by step.
