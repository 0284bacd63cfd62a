# TLA+ models of the CV32E40P core

CV32E40P is a 32-bit in-order RISC-V core with four pipeline stages, written in
SystemVerilog (`src/rtl`). These modules model the parts of it that decide *what
happens when*: the instruction fetch, the pipeline with its hazards and the
FPU dispatcher, the load/store unit, the controller with interrupts and Debug
Mode, the hardware loops and the clock gate; and two of the C programs of
`src/example_tb` that exercise the core, the interrupt test with its generator and
the hardware loop test. TLC checks them on small instances; TLAPS proves their safety
properties and refinements for every value of the parameters.

In every model one step is one rising clock edge. The input wires of the
cycle are a record `c`, chosen freely among what the neighbours may do; a
combinational wire of the code is an operator on `c`; a register is a variable.
Names are those of the code.

## 1. The system

| part | code in `src/rtl` (`cv32e40p_*.sv`) | state | operations, one per clock cycle | talks to |
|---|---|---|---|---|
| prefetcher | `prefetch_buffer`, `prefetch_controller`, `fifo`, `obi_interface` | redirect FSM, outstanding and flush counters, last address, delayed loop flush, FIFO pointers and memory, registered request | request, accept an answer, deliver a word, redirect, loop jump, flush | instruction memory (OBI), fetch stage |
| fetch stage | `if_stage`, `aligner`, `compressed_decoder` | aligner FSM, held half, pc, pending loop jump, IF/ID registers | cut words into instructions, hand over, stall, redirect | prefetcher, decode stage, controller |
| decode stage | `id_stage`, `decoder`, `register_file_*` | ID/EX registers, register file | decode, read and forward operands, issue, stall, second half of a misaligned access | controller, execute stage |
| controller | `controller` | main FSM (16 states), debug status FSM, request latches | boot, decode, flush, trap, return, sleep, enter and leave Debug Mode, hazards | every stage (halts, redirects, CSR saves) |
| interrupts | `int_controller` | registered lines | mask, prioritise, wake up | controller, CSRs |
| CSRs | `cs_registers` | mstatus, mepc, mie, dcsr, dpc, tdata1, counters ... | write, save, restore | controller, execute stage |
| execute stage | `ex_stage`, `alu`, `alu_div`, `mult`, `apu_disp`, `fp_wrapper` | EX/WB registers, divider and multiplier FSMs, FPU operations in flight | execute, write back, wait | decode stage, LSU, FPU |
| load/store unit | `load_store_unit`, `obi_interface` | outstanding counter, description of the access in WB, first half of a misaligned load | request, split, answer, assemble | data memory (OBI), execute stage |
| hardware loops | `hwloop_regs`, `DECODE_HWLOOP` in `controller` | two loops: start, end, count | jump back, decrement | fetch stage, controller |
| sleep unit | `sleep_unit` | sticky fetch enable, busy | stop and start the clock | controller, pins |
| interrupt test | `../example_tb/core/interrupt/`, `cv32e40p_random_interrupt_generator.sv` | globals, mask and pending words; line registers and modes of the generator | raise lines, take and acknowledge interrupts, wait, enable and disable | core, through `mie`, `mstatus` and the lines |
| hardware loop test | `../example_tb/core/hwlp_test/` | none of its own | macros with nested loops, traps and CSR accesses in their bodies | hardware loops |

What is hard here is timing. The two memories grant and answer when they like;
a branch, an interrupt, a loop jump and a stall meet in any cycle; an
instruction may be in EX while the one behind it is turned into a trap; and the
clock may be off. A simulation of the core walks through few of these
coincidences. What each part has to get right:

- *prefetcher*: exactly the words the program wants reach the fetch stage; no
  answer lacks room; it never gets stuck;
- *fetch stage*: every instruction is handed over once, in order, put together
  from its own halves, with its own address;
- *load/store unit*: loads return and stores leave the bytes program order says;
  at most two transactions; the request lines obey the bus protocol;
- *controller*: traps are precise; an enabled interrupt is served; Debug Mode is
  entered between two instructions; a single step is one instruction; sleeping
  loses nothing;
- *sleep unit*: the clock stops only when nothing is left to be done, starts
  again for every reason to wake up, and does stop;
- *execute stage*: every operand read is the value of the last write in program
  order, results never overtake or overwrite each other, no stall waits for itself;
- *hardware loops*: every body is executed as often as the program says, whatever
  interrupts, traps or flushes come at its end;
- *interrupt test*: each request is served once, the program waits for nothing
  that has already happened.

## 2. The modules

```
FifoQueue ----- used by ---+
FetchStream <-- refined by - Prefetcher            PrefetcherProofs
  |                          | extended by
  |           FetchFifo ---- PrefetchBuffer        PrefetcherProofs
  | used by
InstrStream <-- refined by - Aligner               AlignerProofs
Halfwords     (addresses of 16 and 32-bit instructions)

IsaDefs, Isa <- refined by - Controller            ControllerProofs
                             | extended by
                             SleepUnit             SleepUnitProofs
LoadStoreUnit                                      LoadStoreUnitProofs
Execute                                            ExecuteProofs
HwLoops ------- extended by  HwlpTest              HwLoopsProofs (HwlpTest: programs)
IrqTest                                            IrqTestProofs (program and generator)
```

The fetch path is a chain: `Aligner` does not know the prefetcher but only what
it promises, `FetchStream`. `MC*` modules and their `.cfg` files are the
instances for TLC. A parameter that a run varies but the hardware does not (the
bus mode in `LoadStoreUnit`, `COREV_CLUSTER` in `Controller`, the build of
`Execute`, the program of `HwLoops`) is a variable chosen by `Init` and never
changed, so that one run covers every value.

### Prefetcher, FetchStream, FifoQueue, FetchFifo, PrefetchBuffer

An address is the number of a word; the word read from memory is represented by
its address, so it is visible which word is delivered. `ControllerEdge`,
`HwlpFlushEdge`, `FifoEdge` and `ObiEdge` are the register blocks of
`prefetch_controller`, the FIFO and `obi_interface`; all happen in every cycle.
`MemoryEdge` is the instruction memory: it grants at any time and answers granted
requests in order, one cycle later at the earliest. `FetchEdge` is the fetch stage
as far as the prefetcher sees it; `Legal` says when it may redirect or jump: this is
the contract of the assertions in `sva/cv32e40p_prefetch_controller_sva.sv` and
of `docs/source/corev_hw_loop.rst`.

`FetchStream` is the promise: consecutive words from the last redirect target
on, a loop jump after one more word. `Prefetcher` sees its FIFO as the queue
`FifoQueue`; `FetchFifo` has the pointers, the count and the memory of `fifo.sv`.
`PrefetchBuffer` runs both side by side on the same push, pop and flush wires.

### Aligner, InstrStream, Halfwords

A halfword is represented by its address; the program (`mem`) says which
halfwords start a 32-bit instruction. `Aligned32` ... `BranchMisaligned` are the
states of the FSM, `Out` its outputs with the override for branches,
`AlignerEdge` and `IdEdge` the registers. A branch may go to any halfword at any
time. `InstrStream` is the promise to the decode stage: its program counter is a
function of the program and of `ports`, a history of the aligner's ports that records in
every cycle the target of a redirect, the target of a loop jump and whether IF/ID is
written. It leaves program order only for such a target: at once after a redirect, behind
the instruction at `HWLP_END` after a loop jump;
`ports.turn` flips in every cycle, so that handing an instruction over twice is not
mistaken for standing still.

### LoadStoreUnit

The LSU with the registers that move in lock step with it: the LSU part of ID/EX
and EX/WB. A byte is represented by where it comes from (a memory byte, a byte of
the stored register, an extension), so the whole alignment network is checked while
its width is not. `SecondHalfEdge` is the trick of `id_stage` that reuses the adder
for the second half of a misaligned access. `amem` and `want_wb` are history
variables: memory as the program sees it, and the value the load in WB has to return.

### Execute

Issue, execution and write-back: the stalls and forwarding selects at the end of
`controller.sv`, the ID/EX register, `ex_stage` with its two write ports, the FSMs
of divider and multiplier as far as they hold EX, `apu_disp` with its in-flight and
waiting entries, and the memorised FPU result. There are no data. A result on
its way carries its destination and whether it is the one of the *last*
instruction issued to that register; the abstract machine is thereby in the
model: an operand is right if it is the finished result of the last writer in program
order. One source stands for the three operands, whose comparators are the same.
The FPU is external: a pipeline of latency 1, 2 or variable, as the dispatcher knows it;
memory answers when it likes. Branch decisions are free, and a cycle without
instruction (`bubble`) may come at any time. Exceptions are not in this model but in
`Controller`.

### IsaDefs, Isa, Controller

`Controller` has every state of the FSM with `COREV_PULP = 0` (and the two
states of `cv.elw` for a PULP cluster), one action per state, `DECODE` split by
what is in ID. An action assembles the FSM's outputs as a record (`Default` with
exceptions, as the code does), and `Edge` clocks everything they steer: the IF/ID and
ID/EX registers, the CSRs, the debug FSM. Stalls of the other units are free
inputs. Instructions are the classes the controller tells apart; `Fetchable`
gives the ones a program may have at each address, chosen anew at each fetch, so
a run covers every program over them.

`Isa` is the machine software sees. The refinement mapping takes an instruction to
have executed when it enters EX, a trap or `mret` when `FLUSH_WB` is left, `dret`
when `XRET_JUMP` is left; a CSR written in EX counts as written. `Isa` follows what traps,
returns and CSR instructions do; it has no registers, so that operands and results are the
subject of `Execute`, not of this refinement.

### SleepUnit

Extends `Controller` with the clock gate. The pins are variables here, so that
the gated clock is a function of the state: when it is off, only the sleep unit,
the pins and the debug request latch move.

### HwLoops, HwlpTest

The loop registers with `DECODE` and `DECODE_HWLOOP` of the controller, the
IF/ID register and the part of the aligner that remembers a loop jump. An address is
the position of an instruction; the fetch delivers or does not. `Out` is the
controller's combinational block, split by what is in ID (`NextInBody`,
`CsrJumps`, ...). A trap or an interrupt leads to one state `HANDLER`, which leaves
the loops alone, and `Return` goes back; as in `custom/vectors.S:134` the handler of a
trap adds 4 to `mepc`. `ref` is the reference: program counter and loop registers of a
machine that executes one instruction after the other (`Step`).

`Rules` are the conditions `docs/source/corev_hw_loop.rst` puts on programs, each a
predicate on a state of that reference machine: bodies of at least three instructions
(`SizeRule`), ends of nested loops at least two instructions apart (`EndsRule`), loop 0 inside
(`NestRule`), no write to the registers of a loop in its body (`WriteRule`), entry from
the start (`EntryRule`), no `fence.i` in a body (`FenceRule`). `CsrRule` is not in
the manual but needed by the code: no CSR access at the end of the body of a loop with
count 0 (section 6). `Obeys(p, S)` says that `S` contains every state of the reference machine
executing `p`, all within the rules. When TLC starts on `MCHwLoops` it evaluates
`TestsObeyRules`: each of the 38 test programs runs to its end within the rules.

`HwlpTest` has the macros of `hwlp.h` as sequences of instructions; plain arithmetic is
one letter. `lp.setup` gets the number of instructions behind it: the translation of a
label into `uimmL` is the assembler's, and the end address is that of the first
instruction behind the body, which is what the core compares with.

### IrqTest

`interrupt.c` with the handlers of `isr.h` and `vectors.S`, and the interrupt
generator of the testbench. One step is one clock cycle with at most one statement of
the program: a statement takes as long as it likes but is not split, a stall is a step
of its own, and an interrupt comes between two statements. The globals shared
with the handlers are the record `g`. A store to the generator, the register
behind the store, the process that drives the lines and the register of the core
are cycles apart, as in the code. Two `initial` processes of the generator and
the register of the lines run in the same time step in an order SystemVerilog leaves
open: the model takes either. The matrix multiplication of test 5 is a number of
steps with an end; its numbers are left out. Test 4 is commented out in `main`,
and the mode `PC_TRIG` is used by no test: neither is modelled.

## 3. What the runs check

| run | instance | question |
|---|---|---|
| `fetch` | FIFO of 2, 5 words, hardware loops | nothing overflows, nothing is lost, repeated or stale: `RoomForAll`, `FlushBounded`, `LoopEndRequested`, `StreamIntact`, refinement of `FetchStream` |
| `prefetch_buffer` | FIFO of 2, 3 words, legacy bus | the FIFO's memory and pointers always hold the queue `Prefetcher` works with (`BufferHolds`); where requests wait for answers, the fetch never gets stuck (`FetchProgress`) |
| `aligner` | 3 words, all 64 programs up to rotation | refinement of `InstrStream`: every instruction once, in order, elsewhere only where a redirect or a loop jump says (a counter that adds 4 after a 16-bit instruction, an instruction handed over again, a forgotten or repeated loop jump break it); `InStep`, and `InstrProgress` |
| `lsu` | 8 bytes, both bus modes | loads, stores and post-increments are right for every alignment and delay; requests are stable; nothing blocks |
| `execute` | 2 registers and x0, 12 instructions, FPU latencies 1 to 3, with and without `COREV_PULP` | operands are those of program order, registers end up right, EX and LSU move together, `fflags` are complete when read, no stall waits for itself |
| `traps` | 4 addresses, interrupts, with and without cluster | precise traps, no CSR write in flight, taken branches flush, interrupts are served, an interrupted event load is done again |
| `debug` | 4 addresses, interrupts and halt requests | every entry to and exit from Debug Mode, single stepping, triggers, debugger writes to dcsr, dpc, tdata1, the status pins |
| `sleep` | 3 addresses | the clock gate stops and starts at the right times and loses no debug request |
| `hwloops` | 38 programs, 2 interrupts, counters of 2 bits | interrupts, traps, CSR flushes and stalls at any point of a loop leave it exact; loop jumps obey the contract of the fetch; every program ends |
| `irq_test` | 5 lines and a bit without line, 2 random words | the test program reports no error, takes each request once and ends |
| `trigger_writes` | 3 addresses | fails: see section 6 |
| `hwloops_zero` | 4 programs, 1 interrupt | fails: see section 6 |

**Bounds.** With a FIFO of 2 and at most 2 outstanding requests every
combination of full, empty, flushed and late occurs, and its pointers wrap at every
second word; 5 words are enough that a stale word, the next word, a loop start and a
branch target differ (the address space wraps around as in the code). With 3 words a
misaligned instruction spans every boundary, the wrap-around included, and `mem` ranges
over all programs of 16 and 32-bit instructions, up to rotation: of the programs that
differ only in where address 0 is, `MCAligner` keeps one, as a redirect enters the
program at any halfword and nothing else depends on the address. The LSU never has more than two
transactions; two words of memory let a misaligned access cross every boundary; the
accesses have every type, offset, extension and update.

In `Execute` at most two instructions are in EX and WB and the dispatcher has room for
two operations behind the one in EX: with two registers every result can be read,
overwritten and passed by another. The instructions have one representative of each
kind; operations of the same kind differ in the registers only. `MaxStall` is not a
constraint but the number checked: 6 is the longest wait, 5 would fail.

The programs of the controller runs are sets of instruction classes at two to four
addresses, enough for a program, its handlers and a debug ROM; every instruction class
that reaches another path of the FSM is in one of them. `HwLoops` runs each macro with
the loop counts 0 to 3 that make a loop go on twice, once or end; a counter of 2
bits wraps where the one of 32 bits would, which no program reaches by
itself. Two interrupts let one come right after the return from another. In
`IrqTest` the set of lines has two fast ones, one of them also in the range of the
random mode, the three standard ones, whose priorities are out of order, and a bit
without line; `MaxWords` bounds the random words, `MatSteps` the multiplication.
What else grows without bound in the code (addresses, counts) wraps around or is
bounded there as well: there is no constraint on the state space in any configuration.

**Fairness.** `Prefetcher` and `LoadStoreUnit`: the memory grants a request that
it keeps seeing and answers what it granted (OBI), the controller keeps asking
and the decode stage does not refuse for ever. `Aligner`: a word is offered and
accepted again and again, without a redirect having to come. `Controller`: again
and again there is a cycle without stall, with the interrupt lines as they are,
so that fairness never changes an input. `SleepUnit`: the same, and the units finish
their transactions. `HwLoops`: again and again there is a cycle in which nothing
stalls and no interrupt is pending, and handlers return. `IrqTest`: the program does
not stall for ever, and an interrupt that stays enabled is taken. All are weak: the
pipeline is clocked in every cycle, and an answer once owed stays owed. No fairness
is assumed of interrupts, halt requests or branches. `Execute` has no
liveness property: a bound on the wait, `StallsEnd`, says more.

Each checked property has at least one deliberately wrong variant of a
definition next to it (marked as such) that a plausible slip in the code would
amount to, and which TLC finds to violate it.

## 4. What is proved

Everything in this section holds for every value of the constants: every FIFO depth
and size of memory, every program, every set of registers and instructions, and in every
timing of memories, interrupts and halt requests that the input sets of the models
allow. The argument is always the same: an inductive invariant, found by strengthening the
property until every kind of cycle preserves it, was first checked by TLC and
then proved; the properties follow from it. Each proof first says in lemmas what the
registers of one unit do in a cycle (`...Edge`, `Stays`, `Leaves`, `Starts`, ...)
and then, conjunct by conjunct, why the invariant survives (`...Step`, `...Keeps`).

- `PrefetcherProofs`, counters: `CountersCorrect`, `TypeCorrect`, `FlushCorrect`,
  `RoomCorrect`, `LoopEndCorrect`, and `OutstandingCorrect` (the transaction counter is the
  number of requests the bus owes an answer), from `CounterInv`. None of these
  is inductive alone: that every answer has room depends on how many will be dropped, this
  on how many are outstanding, this on the request the bus adapter holds
  back; and `FlowInv` adds what a cycle in which a loop jump may come says of the counters.
- `PrefetcherProofs`, contents: `StreamCorrect` (`StreamIntact`) and `DeliversStream`, the
  refinement of `FetchStream`. `StreamInv` adds to the counters which words are in flight:
  FIFO, bus and held request, without the words to be dropped, are consecutive from the
  next word wanted on; `WaitInv` says the same of a redirect or loop jump not yet
  accepted by the bus.
- `PrefetcherProofs`, memory of the FIFO: `BufferCorrect`. The `i`-th entry of the queue is in the slot
  `read_pointer_q + i - 1` modulo the depth (`BufferInv`), across wraps, flushes and the flush that
  keeps `HWLP_END`. It needs `CounterInv`: an overflow would overwrite the oldest word.
- `AlignerProofs`: `TypeCorrect`, `InStepCorrect`, and `InstrStreamCorrect`, the refinement
  of `InstrStream`. The inductive invariant is `TypeOK /\ InStep`; `InStep` says for each
  state of the FSM where pc, held half and word stream stand, so that a step that writes IF/ID
  can only write the instruction of the stream and one that does not can only wait, redirect or
  remember a loop jump, as `ports` says.
- `LoadStoreUnitProofs`: `TypeCorrect`, `LoadsRight`, `StoresRight`, `IncrementsRight`,
  `RequestsStable`, from `LSUInv`: the address operands in EX are those of the access, in the
  second half of a misaligned one advanced by 4 (`Operands`); every byte already granted is in
  memory (`StoreInv`); every half already granted is on the bus or in `rdata_q`, and
  the load that WB returns last is the one program order asks for (`LoadInv`). The alignment
  network is checked byte by byte for an access of any size, offset and extension.
- `ExecuteProofs`: `OperandsAreRight`, `ExAndLsuAgree`, `RegistersAreSettled`,
  `FlagsAreComplete`, from `ExecInv`. Its core is `Pending`: a register without its value of
  program order has its last writer in EX, in WB or in the FPU. That nothing
  there is lost needs to know who may meet whom: that at most one FPU operation is in flight (so
  `valid_waiting` is never set), that a result which is no longer the last has its
  younger writer in EX (`ApuInv`, `WbInv`), and that a result of latency 2 meets a
  load in WB only if the operation is itself held in EX. Given that, each stall condition
  and each forwarding select is seen to cover its cases (`WhyPending`, `CapturedRight`, `JumpRight`).
  `StallsAreShort` proves the bound of six cycles by a rank: what EX, WB and the FPU have
  left to do falls in every cycle in which ID is stalled and the environment answers at
  once (`RankFalls`).
- `ControllerProofs`: `TypeCorrect`, `CsrWritesFlushed`, `DebugStatusTrue`, `HaltsFromReset`,
  `BranchShadow`, from `CtrlInv`: in which states EX is empty and ID may hold an instruction
  (`InFlight`), and what the debug FSM says of Debug Mode (`DebugFsmInv`).
- `ControllerProofs`, refinement: `PipelineImplementsIsa`, the refinement of `Isa`: every cycle of the
  pipeline is a step of the instruction-level machine or none. `RefInv` adds to `CtrlInv`
  which address follows the one in ID (`Addresses`), what each state of the FSM is there for
  (`Executing`, `Modes`) and why Debug Mode is being entered (`Entering`).
- `SleepUnitProofs`: `ClockStopsIdle` and `ExternalGating`, from `CtrlInv` and `GateInv`: why
  the clock may be off.
- `HwLoopsProofs`: `ExecutesInProgramOrder`, `LoopJumpsOnceAndInTime`, `EnabledOnlyByProgram`
  and `ObedientProgramsInOrder`, for every program and number of interrupts, from `HwLoopsInv`. Its
  core says for every state of the FSM what the fetch knows of a jump back. In `DECODE` nothing:
  the next instruction it hands over is the one behind ID, and a jump behind ID is still to be
  made (`DecodeInv`). In `DECODE_HWLOOP` it knows the jump from the cycle on in which ID has
  seen the instruction before the last one, unless that one waits to be flushed (`HwloopInv`).
  During a flush it knows nothing, and `FLUSH_WB` makes the jump (`FlushInv`). The proof that every
  cycle keeps this goes by what is in ID and where in a body; where two loops are
  concerned, the rules decide that only one of them jumps.
- `IrqTestProofs`: `KeepsProtocol`, `TestsSucceed` (`NoError`) and `TakenOnce` (`ServedOnce`), for
  every set of lines, mask, pending word, number of random words and delay. The
  invariant has two halves. `ProgramInv` is about the program: where calls and interrupts
  return to, that interrupts are enabled only while main waits and in test 5, and
  (`ServeInv`) that the lines raised and enabled are those whose turn is still to come,
  while main can tell by the pending word that one was served. `GeneratorInv` says for each
  stage of the exchange how far the last store has got on its way through register, process, lines
  and core. When the handler of tests 2 and 3 ends, three statements after its store, the cleared
  line has reached the core (stages `written`, `sampled`, `lines`), and interrupts stay disabled
  until main has seen the new pending word. In test 5 `mret` enables interrupts at once:
  there the lines are low in the core because the two stores to the mode are a statement
  apart (`stopping`, `stopped`, `again`). That the core and the
  table `IRQ_ID_PRIORITY` agree on priorities is the lemma `HighestFirst`.

**Assumptions.** The named `ASSUME`s of the modules. Sizes are positive naturals and flags
Booleans; `DEPTH > 1` and, for the memory of the FIFO, a power of two is what
`prefetch_buffer.sv` asserts and sets up; the base register is incremented by loads and
stores only (it is the post-increment of `decoder.sv`'s load and store cases); `Accesses` is
not empty, as EX always describes some access; the sleep unit is the one of
`COREV_CLUSTER = 0` (`g_no_pulp_sleep`): with a cluster, `pulp_clock_en_i` decides instead. About the environment the proofs assume what
`Legal` and the input sets of the models say, nothing else.

`PipelineImplementsIsa` has a hypothesis about the use of the core, `WellUsed`: no `tdata1` write
in EX outside Debug Mode, and no halt or single step of a waiting `cv.elw`. In both
cases the code does not do what `Isa` says; section 6 describes them. `WellUsed` holds in
all states of the `traps` and `debug` instances, so the hypothesis excludes nothing these
runs reach. `StallsAreShort` has the hypothesis `MaxStall >= 6`; the run has 6.

The theorems of `HwLoopsProofs` have the hypothesis that the program obeys the rules,
`[]RulesObeyed`. `ObedientProgramsInOrder` takes it from the program alone (`Obedient`: when
executed one instruction after the other, each program stays within the rules), and
TLC evaluates that for the test programs (`TestsObeyRules`), so the hypothesis is met by all
programs of `hwloops`. Without the rules the properties are false: the manual forbids what the
hardware does not handle, and `hwloops_zero` is the one case that only `CsrRule` excludes.
That `2^COUNTER_BITS` is a positive natural is stated in `HwLoopsAssumption`, because the
provers know nothing of exponentiation. `IrqTestAssumption` says that at least one bit of a word is
a line; test 2 has nothing to serve otherwise.

**Checked by TLC only.** Liveness under fairness is out of the prover's reach:
`FetchProgress`, `InstrProgress`, `AccessesMoveOn`, `IrqServed`, `FallsAsleep`,
`DebugPulseServed`, and that the programs end (`Finishes`, `Terminates`). Every other property
of the passing runs is a theorem. That the programs of `hwlp_test` obey the rules
is evaluated for the programs and loop counts of the run.
The refinement mappings and invariants of the proofs are about the models; that the
models are the code is a matter of reading, for which the definitions keep its names.

## 5. Not modelled, and the plan

| component | why not, or when |
|---|---|
| arithmetic of divider, multiplier, ALU, `ff_one`, `popcnt` | combinational, or a loop over 32 bits without interaction: better served by equivalence checking. How long they hold EX is in `Execute` |
| latch-based register file | the same array; its clock gates are a matter of circuits |
| performance counters | no control depends on them |
| decoder, compressed decoder | tables: no behaviour over time. What the models need of them (system instructions, lengths) is in `IsaDefs`, `HwLoops`, `Halfwords` |
| Debug Mode inside a hardware loop | `HwLoops` has traps and interrupts, `Controller` Debug Mode without loops; their product is too large for one model |
| user mode, PMP, fetch and data errors | tied off in the code (`PULP_SECURE = 0`, no PMP) |
| FPU and common cells (`rtl/vendor`) | third-party |
| tracers, RVFI, the rest of the testbench | no part of the core: memories and stall generators are the free inputs of the models, the other C programs are straight-line or do I/O |
| scripts, constraints, documentation | no behaviour; the documents are read for the properties |

Fetch path, controller, LSU, sleep unit, `Execute`, hardware loops and interrupt test are
modelled, checked and, their safety properties, proved. What would come next is Debug Mode
inside a hardware loop, as a machine that `HwLoops` and `Controller` both refine, and the
composition of `HwLoops` with `Aligner`, whose contract for loop jumps `LoopJumpLegal` is.

## 6. Where code and documents disagree

- `trigger_writes`: `docs/source/debug.rst:115` says that outside Debug Mode
  writes to trigger registers are ignored. The write enable in
  `cs_registers.sv:1262` uses `debug_mode_i` of the cycle in which the write
  leaves EX. A `csrw tdata1` issued outside Debug Mode can be held in EX while
  a halt request takes the controller through `DBG_FLUSH` and `DBG_TAKEN_ID`,
  neither of which waits for EX; it then writes the register in Debug Mode.
  TLC finds the entry to Debug Mode with such a write in EX.
- `hwloops_zero`: `docs/source/corev_hw_loop.rst:134` says that a loop is enabled as
  soon as its count is greater than 0. When the last instruction of a body is a CSR
  access, the controller decrements the counter on its way to `FLUSH_EX`
  without comparing it with 0 (`controller.sv:603` and `:808`; the other branches do).
  A loop set up with the count 0 then has the count 2^32 - 1 and is enabled although
  the program never said so; `FLUSH_WB` finds the counter different from 0 and
  jumps back to the start of the body.
- When a halt request or a single step takes the core out of `cv.elw`, `ELW_EXE`
  (`controller.sv:1003`) leads to `DBG_FLUSH` without setting `debug_req_entry`, so
  `DBG_TAKEN_ID` finds no reason of its own and saves the cause of an ebreak
  (`controller.sv:1187` and `:1241`). `Isa` gives such an entry the cause of the
  request. The proof of the refinement failed at this step; TLC finds the
  counterexample on the `debug` instance with `Clusters = {TRUE}` and a `cv.elw` in the
  program. `WellUsed` leaves it out of the theorem.
