# A verification project for maips

maips is a MIPS32 processor in SystemVerilog: a five-stage pipeline with
forwarding, branch delay slots, precise exceptions, interrupts, coprocessor 0, a
bit-serial multiplier and divider, on-chip memories and a UART, with a small
kernel, programs in C, and the generators, in Python, of the assembler programs it is
tested with. This directory holds TLA+ models of them, TLC runs that check the models
and TLAPS proofs about them.

Paths below are relative to the repository; `src/` is its directory of
SystemVerilog sources, `asm/` that of the test programs.

## 1. Inventory

| Component | Source | State | Operations, and who calls them |
|---|---|---|---|
| Decoder | `src/pipeline/decoder` | none | instruction to control signals, in the decode stage |
| Stages | `src/core.sv`, `src/pipeline/stage_*.sv`, `pipeline_base.sv` | pc, one pipeline register per stage, hi, lo, llbit, `prev_stall` | every register loads, holds or is nullified at each clock edge |
| Register file | `src/memory/register_file.sv` | 32 words | written by write back, read by decode |
| Forwarding | `src/pipeline/forward/main_forwarder.sv` | none | values of memory and write back to decode and execute |
| Flow controller | `src/pipeline/pipeline_flow_controller.sv` | none | from branches, loads, busy signals and exceptions to hold, nullify and the next pc |
| Exception controller | `src/pipeline/exception_controller.sv` | none | the exception of the instruction in execute, its EPC and its vector |
| Coprocessor 0 | `src/memory/cop0` | nine registers | mtc0, eret, ei, di, ll; exception entry; Count and Compare raise the timer interrupt |
| Interrupt storage | `src/pipeline/interrupt_storage.sv` | one bit per line, a synchroniser | catches a line; all bits cleared when an interrupt is accepted |
| Multiplier, divider | `src/alu/div_mul/div_mul.sv` | a state machine, two accumulators, a counter | starts when a multiplication is in execute, stalls the pipeline until done, cleared by nullification |
| ALU | `src/alu` | none | functions, overflow, comparisons |
| Load/store unit | `src/pipeline/stage_memory_partial` | none | byte lanes of partial accesses |
| Memories | `src/memory` | RAMs, instruction memories | one access per cycle; the instruction side is busy when the data side uses its region |
| UART | `src/peripherals/uart` | configuration, shift registers, counters of two clocks | host writes a byte, sender and receiver run on a divided clock |
| Kernel | `c/kernel` | saved contexts, `clock_count` | saves the context an exception or interrupt has met, enables interrupts, calls C, restores it |
| Test library | `asm/generate/__*util.py`, `__gencom.py` | none | draws numbers and registers, writes instructions and calls of the bench, has files compiled |
| Generators | the other scripts of `asm/generate` | what they expect a program to compute | write a program that tests one instruction, or one family of them |
| Test bench | `testbench/top_test.sv`, `test_target.sv` | what a program has asserted | loads a program, obeys the functions it stores in debug memory, compares the registers with the simulator's |
| Build | `asm/generate_all.py`, `asm/tool` | a counter, a list, a semaphore, a lock; files | runs every generator in a thread, and the commands that make images |
| Simulator | `tool/Mars.jar`, not in the repository | registers, memory | executes a program, dumps its registers |

How the processor's parts interact. Everything but the UART runs on one clock. In a cycle the
stages' outputs go through the forwarding network into the operands of decode
and execute; execute's result goes to the exception controller; that, the
branch in execute, the jump in decode, the multiplier and the memories go into
the flow controller; and its signals decide what every register loads at the
clock edge. There is no handshake anywhere: correctness is that, in every cycle,
these decisions made from different stages agree.

The kernel's part of it is the stack of the program: a handler keeps the context there, in a
frame, and may be interrupted itself. Between the UART and its host there are four bits of a register
that both write, each on a clock of its own.

How the tests interact with it. A generator draws operands, computes in Python what
the instruction must give, and writes a program that asserts it: a call of the bench is a few stores to
debug memory, the last of which is the function. The same program is run by the
simulator, and the registers both end with are compared. So there are three
accounts of what an instruction does, in the SystemVerilog, in the generator and in
the simulator, and the tests mean something only while all three agree. The
exception programs run without the simulator, with a handler that counts; what is compared there is
the count that the generator foresaw.

What is hard. Values in flight in several stages (forwarding, load-use stalls);
stalls of many cycles that interrupts must break; events of several stages in one
cycle (branch, exception, stall, busy memory) decided by the order of assignments
in one block; exceptions in delay slots; state written late and checked early
(Status); strobes to devices that must not repeat; the interrupt that is cleared
in the cycle it is accepted; a context that is saved and restored with interrupts
enabled in between; a bit sampled by a clock that nothing relates to the one that sent it. The test programs of the repository run fixed
sequences and compare final registers: they meet few of the alignments.

In the tests, hard is what a generator carries from one callback to the
next (the accumulator, a chain of shifted values, the content of memory, a count of
exceptions), because it must follow what the processor does through any choice of
registers, equal ones and `$0` among them; control that returns through registers
saved on a stack, or through a handler; an interrupt at any instruction; and a
test that passes because it tests nothing. In the build, it is eight
threads on one counter, commands that fail half way, and images of an earlier build.
`PROJECT.json` lists each of these under `hazards`, with the line where it bites.

What makes each part correct:

- pipeline: what a program computes is what the architecture says (refinement);
  exceptions are precise; stalls end; a store strobes once;
- forwarding and flow controller: an operand is the newest value; a redirected
  fetch is not lost; no deadlock;
- decoder: an instruction announces the operands it takes;
- interrupts: none is lost once stored, each is served;
- coprocessor 0: read-only fields are written by the processor only; every
  pending line is recorded; the timer interrupts once per period;
- multiplier: its result is the product or quotient for every pair of operands;
- load/store unit: partial accesses agree with a memory of bytes;
- UART: each byte written is sent once, in order; each byte received is reported;
- kernel: an interrupted context is restored;
- generators: no program asserts what a correct processor would not give; what is
  carried on is what the machine holds; programs end, and have executed what they
  are named for;
- build: it ends, its counts are right, and a success means that the images are
  those of this build.

## 2. Modules

```
Decoder ── Machine ──┬── Isa            what the processor promises
   │                 └── Core ──┬── MCCore (TLC)
   │                       │    ├── CoreLive ── MCCoreLive (TLC)
   │                       │    └── CoreProofs (TLAPS), with BinaryLemmas
   │                       └ Arch == INSTANCE Isa WITH ...
   ├── OperandUse ──┬── OperandUseProofs (TLAPS)
   │                └── MCInstructions (TLC), with Lockstep
   │
   │    Words ──┬── Datapath ───┐        what the processor computes
   └ D == ... ──┤               │
                ├── Reference ──┼── TestProgram ──┬── ArithTests ─────┬ MCDataTests (TLC)
                ├── AsmLib ─────┤                 ├── LogicTests ─────┤
                └── TestBench ──┘                 ├── MemoryTests ────┘
                                                  ├── BranchTests ────┬ MCControlTests (TLC)
                                                  └── ExceptionTests ─┘
     Datapath, Reference ── Lockstep ── DatapathProofs (TLAPS), with BinaryLemmas

DivMul ──┬── MCDivMul (TLC)
   │     └── DivMulProofs (TLAPS), with BinaryLemmas
   └ Unit == INSTANCE MulDivUnit WITH ...   what the multiplier promises

Kernel ──┬── KernelProofs (TLAPS)
         └── MCKernelUart (TLC), with Uart and InterruptStorage
Uart ────── UartProofs (TLAPS), with BinaryLemmas
  └ Wire == INSTANCE Channel               what a pair of UARTs promises

Build ──┬── MCBuild (TLC)
        └── BuildProofs (TLAPS)
```

### The processor

**Decoder** is the decoder of the repository as pure operators: `Control(op)` is
the record `control_t` for each of the 102 mnemonics, with one operator per file
of `src/pipeline/decoder` and one per helper of `decoder_util.sv`. Encodings are
abstracted to the mnemonics the nested case statements recognise.

**Machine** is what Isa and Core share: words, registers, instructions, Status,
arithmetic. The machine is scaled down by constants: `N` words (2^32 in the code),
`NReg` general registers (32). The program counter counts instructions, and a data
word is two bytes, so that odd addresses are unaligned. `X` is SystemVerilog's
undefined value: what a stage computes for a bubble is undefined, and properties
say where it must not get to.

**Core** is the pipeline. A step is a clock edge. Its variables are the
flip-flops:

| Variable | Code |
|---|---|
| `pc_reg` | `stage_fetch.pc_reg` |
| `id`, `ex`, `mem`, `wb` | `signal_reg` of the `pipeline_base` of each stage |
| `rf`, `hi`, `lo`, `llbit` | `register_file.file`, `hi_reg`, `lo_reg`, `llbit_reg` |
| `cop0`, `cause` | `register_cop0.file` |
| `md` | `div_mul.current_state`, with the computing states as one, `RUN` |
| `irq` | `interrupt_storage.int_reg`, one line; InterruptStorage has several |
| `prev_stall` | `stage_memory.prev_stall` |
| `imem`, `dmem` | the instruction and data memories |

The combinational logic is operators named after the modules and signals of the
code (`ForwardToExecute`, `ExecuteOut`, `ExceptionData`, `Flow`). `Flow` is the
always_comb block of the flow controller with its last assignment first. `Tick`
takes every register to its next value; `Reset` is the reset signal.
Two things are nondeterministic: the interrupt line, and how many cycles the
multiplier computes (the code takes 34 to 38; what matters to the rest is that it
takes some). What the multiplier computes is its product, at the width of the
model.

The model leaves out: user mode and the coprocessor-unusable exception; the base
address of the handlers (two constants, `Vector` and `IntVector`); Count and
Compare; more than one interrupt line; the fixed-value masks of coprocessor 0
registers (the write masks are all or nothing); self-modifying code. Partial memory
accesses and most functions of the ALU are not in its programs either: they have the same
control as those that are, and Datapath has what they compute.

**Isa** is the abstract specification: one instruction a step, with `pc` and
`npc` for delay slots, `slot` for the delay-slot bit of Cause, exceptions and
interrupts as actions of their own. It is written from what the instructions mean,
not from how the pipeline executes them. It says nothing of loads and stores
outside the data memory, or of time.

`Arch` in Core is the refinement mapping: an instruction has executed once it
leaves the execute stage, so the registers of Isa are those of Core after what
memory and write back still carry, and `pc` and `npc` are the addresses of the
next valid instructions in execute, decode and fetch. `Allowed` and `Predictable`
say what the refinement asks of a program, and of its use of the memories.

**CoreLive** is Core with the clock made visible: `phase` turns at every edge, so
that an edge that changes nothing is still a step. It states the fairness.

**DivMul** is the bit-serial multiplier and divider, a step again being a clock
edge, for words of `W` bits (32 in the code). `state` is `current_state`; `thi`,
`tlo`, `a_neg`, `b_neg`, `tick` and `carry` (`cout_reg`) are its registers. The
always_comb block that selects the sources of the adder and of the registers is
turned around: `Sum`, `High`, `Low` and `Tick` say, for each register, what it
takes in each state. Where the code assigns `'x`, an accumulator takes any
value of `Junk`, the counter its first or its last value, and the carry either;
nothing resets them. `req` is what the execute stage holds: the operation
and its operands. It changes when the stage moves on, and becomes a bubble when
the stage is nullified; that it does not change in between is proved of
Core (`MultiplierOperandsStable`). `current_state = next_state` is a blocking
assignment among nonblocking ones (div_mul.sv:216); the model is the circuit that
is synthesised, where every register sees the state before the edge.

**MulDivUnit** is what DivMul implements and what Core takes for granted: wait,
run for some cycles, then hold out the result that arithmetic on integers gives
until the stage moves on. Division by zero may give anything.

**OperandUse** checks a contract between parts written apart: the operands the
decoder announces (`opd_use`) and the operands the multiplexers and the load/store
unit of later stages take, for all mnemonics. Only the load-use stall is kept of
the pipeline.

### The kernel and the UART

**Kernel** is the entry and the exit of exceptions and interrupts in `crt0.s`, instruction by
instruction: `protected_exception_reg` and `protected_interrupt_reg` are the two handlers as
sequences of instructions, and a step executes the one at `pc`, or takes the exception or
interrupt that is due instead. A timer interrupt (`Pulse`) may be stored before any
instruction, and a callback in C may raise the software interrupt. `regs` has the
registers, those of coprocessor 0 and `clock_count`; `stack` the words from `$sp` on, so that
`Push` and `Pop` are the moves of `$sp`; `frames` is what each active handler has interrupted,
which only the properties look at. `$t0` to `$t9` are one
register, and so are the masks of Status that do not change. The C functions are taken for
what they may do to all this: they keep words on the stack, overwrite every register their
calling convention lets them, and may be interrupted between their entry and their return.

**Uart** is two UARTs as `uart_test.sv` connects them: the host of the first writes a byte
and clears `txend` whenever it is set, the second's reads a byte whenever `rxend` is set. The variables
are the registers of `uart.sv`, `uart_sender.sv` and (as the record `rx`) `uart_receiver.sv`. A
step is an edge of the sender's or the receiver's divided clock, or an edge of a host's clock that changes
something; the others are stuttering, and there are some forty of them between two divided
edges, which is why a UART's edge comes after its host has seen the one before. `ahead` is the
time from the sender's next edge to the receiver's. Where a host writes in the cycle
in which the sender ends, two always blocks assign `txend`, and either may come last.

**InterruptStorage** is the path of an interrupt from the lines to Cause: `synchronizer` and `int_reg` of
`interrupt_storage.sv`, what the exception controller takes of it (`Taken`), the condition that
clears it (`Accept`, core.sv:44), the exception data in the memory stage (`ext_int`) and the pending bits that
`register_cop0` records (`cause`). Whether there is an instruction in execute, whether it has a
fault, and whether the memory stage is stalled, is free in every cycle; Core has the pipeline
that decides it, and `irq` for all lines. A device holds its line until the handler serves it; the timer's
line is up for one cycle. `top.sv` ties the external lines to zero, so they are of core.sv's interface.

**Channel** is what Uart implements: bytes arrive in order, each once, and all of them,
with one in the sender and one in the receiver.

### The tests

**Words** is the scaled machine the following modules share: a word has `W` bits, an
immediate half of them, a byte a quarter; the debug memory begins at the
immediate of all ones. **Datapath** is the processor again, but cut the other way:
one instruction at a time, with every function of the ALU, the bit and compare units, the
load/store unit and its byte masks, the exceptions, and the fields of coprocessor 0
that programs use (at scaled positions). It selects operands and units by the
control signals of Decoder, as the stages do. Core shows that the overlap of
instructions is not seen by a program; Datapath is what each of them computes.

**Reference** is the simulator, defined by arithmetic on numbers where Datapath follows the
circuits: leading zeros are counted there and found by halving here, a
rotation is a quotient and a remainder there and a merge of two shifts here, memory is
bytes there and masked words here. It is external code, modelled from what the
bench needs of it.

**Lockstep** is the two side by side, with no generator between them: a step executes any
instruction of `Code`, from any registers of `Start`, on the processor (`Executed`) and on the
simulator (`Simulated`), and goes on at one of two addresses where it is a branch or a jump. Delay slots are
Core's. `Raises` is when the architecture asks for an overflow or an address error instead, and
`Defined` what it leaves open: a division by zero, and a word that nobody has written, where the two
memories may differ (`known` are the words that are defined).

**AsmLib** is the library of the generators: the ranges of numbers (`Bound` is the
`Edge` numbers at each end and in the middle of a range; a random draw is its ends and the
constant `Draw`), the registers that may be drawn, the cycle of jump links `jl`, and
what each method of `asmutil` writes. **TestBench** is the part of `top_test.sv` that
watches the program.

**TestProgram** puts them together. A generator writes a `piece` of code; in the next
step (`Execute`) the processor `cpu` and the simulator `sim` execute it and
the `bench` reacts to what was stored in debug memory; then the generator goes on at `then`. The code
is straight-line, or a graph of straight pieces, so that executing each piece when it
has been written is what executing the whole program at the end would do, and a
generator's belief can be compared with the machine at every piece. A test that has
raised an error stops, as the bench does. Random choices are nondeterministic.

- **ArithTests**: mult, multu, mul, div, divu, madd, maddu, msub, msubu, the moves of hi
  and lo. `prev` is `prev_value`, the accumulator as the generator believes it.
- **LogicTests**: sums, logic, shifts, comparisons, counts, extensions, bit fields,
  conditional moves; patterns over all registers, single callbacks and chains.
- **MemoryTests**: loads, stores, lwl/swl, lwr/swr, ll/sc, reading the program. `datas` is
  what the generator believes of memory. The data memory keeps its content from the program before,
  the simulator's starts from zero.
- **BranchTests**: the branches and jumps as graphs of blocks; `link` is the result of
  `jl`, `drawn` the registers each block is written with, `visits` how often it was reached.
- **ExceptionTests**: traps, overflows, system calls, unaligned accesses, software
  interrupts, the timer. `Handler` is the handler a generator writes, `total` the exceptions it
  foresees. There is no simulator. `spoilt` records that a program has done one of
  the two things found wrong below. The timer of di_ei interrupts once in a piece,
  before any of its instructions.

**Build** is `generate_all.py` and what it starts. A thread's state is the
statement it is at: waiting for the semaphore, in the script, at the lock, between
reading and writing the counter, done. A script writes the assembler file of each
of its targets (`gen`) and runs its commands (`cmd`), any of which may fail; `fresh` is the
set of files made in this build from fresh files. The commands of the three compilers
(Mars, kernel, mix) are those of `asm/tool`, with whether they pass a failure on.

## 3. Runs

| Run | Instance | Shows |
|---|---|---|
| `core_programs` | Core; 1728 programs of data instructions, 575 of control transfers, 3528 of exceptions | `CoreImplementsIsa`: forwarding, stalls, delay slots and exceptions never show in a result. `StoreOnce`: a store held in the memory stage strobes once. `OperandsStable`: the multiplier's operands do not move. `LoadNotForwarded`: the load-use stall is long enough. `TransfersTaken`: a redirected fetch is not lost. `PreciseException`. `TypeOK` |
| `core_live` | CoreLive; 144 programs for interrupts and 49 of seven instructions that wait, trap or disable interrupts, with the interrupt line free in every cycle | `CoreImplementsIsa`: interrupts fall between instructions. `AcceptedIsTaken`: none is lost. `Progress`: no deadlock of stalls. `InterruptServed`: also in a branch loop |
| `instructions` | OperandUse; every mnemonic but five. Lockstep; every one of its instructions, and every two of them | `OperandsAnnounced`. `CpuIsReference`: each unit, with the control the decoder gives it, computes what the architecture's arithmetic says, or raises its exception. `TypeOK` |
| `div_mul` | DivMul; every operation on every pair of four-bit operands, then any of five more requests | `ImplementsUnit`: the result is the product or quotient, held until it is taken. `LoopInvariant`: and why. `ResultArrives`: no path through the states waits for ever. `TypeOK` |
| `test_data` | ArithTests, LogicTests and MemoryTests | `NoFalseAlarm`: what a generator asserts, the processor gives. `CpuIsReference`: processor and simulator agree after every piece, and the data is what the simulator has, whatever the memory held before. `ValuesTracked`: what a generator carries on is what the registers hold. `TypeOK` |
| `test_control` | BranchTests and ExceptionTests | `AlarmsExplained`: an assertion fails only where a generator is wrong, as listed below. `CpuIsReference`, on where a program goes too. `MarksReached`: the programs end, through every mark. `FramesIntact`: every call returns to its caller. `CountForeseen`: the handler counts what was foreseen. `HandlersReturn`: and returns, in normal mode. `TypeOK` |
| `build` | Build; four scripts, two slots, with any command failing | `SlotsKept`, `CountsRight`, `SuccessIsFresh`: a success means that the images are of this build. `Ends`. `TypeOK` |
| `kernel_uart` | Kernel, four programs; Uart, with the receiver slower and faster than the sender; InterruptStorage, three lines | `ContextRestored`: a handler gives back all registers, the stack, Status and the next address, however handlers nest. `ArgumentsArrive`: C is called with the Cause, EPC and registers of its own exception. `ClockCounted`: every timer interrupt is counted once. `ImplementsChannel`: the bytes arrive, in order, each once. `InterruptsRecorded`: an enabled interrupt that is caught or held comes to be pending in Cause, whatever other line is accepted before. `TypesOK` |
| `announce_all` | OperandUse; every mnemonic | violated, see below |
| `core_busy_jump` | Core; a jump behind a load from the program's memory | violated, see below |
| `core_read_only` | Core; mtc0 to BadVAddr | violated, see below |
| `branch_bne` | BranchTests; beq, bne, j, jal | violated, see below |

**Bounds of Core.** 16 words, 4 registers and 8 words of data memory. Programs
are generated: a fixed start, every sequence of two or three instructions from
a pool (those with a control transfer in a delay slot left out, the architecture
leaves them undefined), a loop, and handlers that return. Three instructions are
the number that can be in flight between an instruction and the newest value
it may need: the fourth before it has left write back. 16 words hold
a program with two handlers; every value that matters (zero, negative, overflowing,
unaligned) is among them. Reset may strike at any cycle.

**Bounds of DivMul.** Four bits are the smallest width at which a product's carry and a
quotient pass through inner bits of both registers; the states and the paths between
them do not depend on the width. The undefined registers hold all zeros or all ones.

**Bounds of Lockstep.** Two operands of six numbers each: zero, one, the two at the middle of the range, where
signs change, the last, and one of mixed bits; a word of data at offsets that reach each of its
bytes from either side; shifts by nothing, by an inner number and by the most; fields of the first bit, of
some and of all. Results go to a register that holds an operand, so that the second instruction
computes on what the first has left, or on half of it.

**Bounds of the tests.** `W` is 12, the smallest width at which the debug memory, the
data and the program have addresses of their own and a byte has a sign and a value; it is 16
where a shift amount or a bit field must reach all of a word. `Edge` is 1 where the code
takes four numbers at each end of a range: the ends themselves and
the middle remain. `Draw` adds a word or three with mixed bits. `NReg` is the
number of registers a program names plus those that let two draws differ: four for single
operations, eight for patterns in which each register has a place of its own;
`$4`, `$26`, `$27` and `$28` to `$31` keep their roles under other numbers. `MaxCalls`
bounds the callbacks of a program, of which the code makes thousands: one where a
callback carries nothing on, two or three where it does, the third being the first that
continues what it started itself. `Marks` (1024 to 8192) is three, so that a link
can go forward, backward and past a mark, and four for the walks. `Counts` bounds where in the
data segment an address is drawn; it includes the counter of the handler.
`CHECK_DEADLOCK FALSE` in the runs of tests: a program ends.

**Bounds of Kernel.** Four programs of system calls, traps and software interrupts, each repeated
for ever. With the timer interrupt stored at the start, two more, at any instructions, and one software interrupt
raised in C, a handler is interrupted at each of its instructions, and so is the handler
that has interrupted it. What frames hold is of distinct values, and `Junk` differs at each
depth.

**Bounds of Uart.** The periods are those of `uart_test.sv` in nanoseconds (560 and 572), and
a receiver that is as much faster (550). Four phases that spread over a period, and two with the fast
receiver; the drift of 12 ns an edge takes a frame of 160 edges through three
more periods, so what a phase could meet is met within one. Bytes have all bits equal, alternating, or
one alone at the end, two of them in all pairs, so that each follows each. The host writes at
once, or after more than a bit or two.

**Bounds of InterruptStorage.** The timer's line, one external line, and the last, which is not
recorded; two external lines of the same kind do not differ. The masks enable none, all, all but
the timer, or all but the last; devices may raise their line before any cycle.

**Bounds of Build.** Four scripts are more than the two slots by enough that a
slot passes on twice; they are of Mars with one target and with two, with data, and of mix.
`kernel` differs from mix only in which commands it runs.

**Fairness.** `core_live` assumes `[]<><<Edge(TRUE)>>_liveVars`, and no reset:
infinitely many clock edges find the multiplier done if it computes. The clock
always runs, and in the code the multiplier counts its cycles and finishes, which
`ResultArrives` of `div_mul` shows. Nothing else is assumed; an edge is a step even if no
register of the pipeline changes, so a deadlocked pipeline is not excused:
`Progress` fails when a stored result is waited for (the mutant
`ExecuteBusyAtStorage`). `div_mul` assumes weak fairness of the clock edges
that do not clear the unit, so that a unit that stands still is not rescued by a
clear. `build` assumes weak fairness of every thread's steps, of starting threads and
of joining them. Weak is enough because no thread waits at the same place twice:
the semaphore is released as often as it is acquired, and a lock that is
held is given back by its holder's own steps. `kernel_uart` assumes weak fairness of
the UARTs' steps together: their clocks do not stop, and the order of their edges is fixed
by `ahead`. For the interrupt lines it assumes weak fairness of the cycles in which there is an
instruction in execute and the memory stage is not stalled, which `Progress` of `core_live` shows
of the pipeline, and of the end of a handler. In between there may be any number of other
cycles, in which an interrupt must not be lost.

Each property of a passing run has a mutant in `PROJECT.json`: a plausible bug in
one definition of the model that makes the property fail under the same
configuration.

### What the code does otherwise than its comments say

1. **A jump can be lost** (`core_busy_jump`). When a load or store uses the region
   of memory that holds the program, `instruction_memory_busy` stalls the fetch
   stage but not the stages that ask for the new address; the request lasts one
   cycle. A jump in decode, or a branch, `jr` or `eret` in execute, is not taken.
   Programs that keep data and text in different regions never meet it, and the
   runs above assume that, but for the data programs, whose only transfer
   is out of reach of the busy cycle.
2. **mtc0 writes read-only registers** (`core_read_only`). The write mask
   goes to the forwarding network only, so the next two instructions read the old
   value and later ones the new.
3. **Five instructions announce the wrong operands** (`announce_all`): `lwl`, `lwr`,
   `wsbh`, `seb` and `seh` right behind a load of their rt use its old value.
4. **The test of bne executes no bne** (`branch_bne`). Its program falls into mark 0,
   where `beq.py:20` jumps to the mark that mark 0 links. The block whose link is the
   start ends the program, and in bne that is mark 0 itself: the program ends at
   once, whatever is drawn.

Read in the source on the way, without a run:

- `div_mul.sv:1` says hi is the quotient; the code puts it in lo, as MIPS has it.
- `bgtz.py:32` draws from `range(1, 2**31 + 1)`, which has 2^31, a negative word; its
  comment in line 37 says greater than zero. `AlarmsExplained` allows for it.
- `__gen_address.py:48` and `:80` draw the address of a store that must trap from all of the
  data segment, the handler's counter included. A store that does not trap overwrites it.
- `di_ei.py:80` draws `$k0` and `$k1`, which its handler overwrites (lines 70 to 73).
- `kernel_compile.py:30-32` and `mix_compile.py` ignore the results of `os.system`: a
  script whose program did not compile succeeds. `SuccessIsFresh` leaves their targets out.
- `xori.py:36-39` names both of its programs xori_1, so xori_2, which the bench lists,
  is never written: a success of `xori.py` says nothing of it, and what the bench loads for it
  is left from an earlier build. No run shows it, for it is in the lists and in no behaviour.
  `break.bat` generates a target that is not listed.
- `register_cop0.sv:113` goes through the pending bits up to the one before
  `IDX_CAUSE_IP_E`, which is the last, so IP7 is never recorded: the sixth line interrupts, and
  leaves no trace in Cause but on the forwarding network (`main_forwarder.sv:223`).
  `InterruptsRecorded` is about the other lines.
- `interrupt_storage.sv:32` clears every line when one is accepted, so an overflow of Count in that
  very cycle is lost, and so is what a disabled line had stored and its device holds no more.
- `asmutil.check_reg` stores 1 where `top_test.sv:178` compares with `32'h0001_0000`, so gp
  and sp are always compared.
- `top_test.sv:311` tests `target.assert_not_equal & ~assert_equal_hit`: the flag of the
  other assertion.
- `cop0_unusable.py:21` draws below 1, so it never enters user mode; lines 15 and 16
  miss a comma.
- `generate_all.py:44` maps `print` and drops the iterator: the names of failed scripts
  are never printed.
- `uart_test.sv:39` reckons a bit of the first UART with 39 of its host's cycles, 0.6 per cent from 115200;
  the divider counts from 0 to `div_counter` inclusive (`uart.sv:130-135`), so it is 40, and the
  two UARTs of the test differ by 2 per cent, not by 0.73. `ImplementsChannel` has the periods of the code.
- `main.cpp:96-98` makes the tick of system call 30 of Count and `clock_count`, read one after the
  other with interrupts enabled: a timer interrupt in between makes it a period too late.
- `numutil.s8` draws nine bits. `div` and `divu` divide in floating point, which is exact
  at 32 bits but not by design.

## 4. Proofs

`CoreProofs` proves, for every word size (a multiple of 16), number of registers,
program and memory:

| Theorem | Argument |
|---|---|
| `TypeCorrect`: `Spec => []TypeOK` | `TypeOK` is inductive. One lemma for what each operator delivers (`ForwardType`, `ExecuteOutType`, `ExceptionDataType`, `FlowType`, ...), one for each stage's register, combined over `Tick` and `Reset` |
| `ExceptionsArePrecise`: `[]PreciseException` | inductive together with nothing else: in the step that raises the exception the flow controller nullifies three stages and clears the multiplier; in the next one the exception has moved on, because a stage that holds a bubble asks for no stall |
| `StoresStrobeOnce`: `StoreOnce` | the register that remembers a stall holds back the strobe |
| `MultiplierOperandsStable`: `OperandsStable` | a multiplication that holds execute holds every register the forwarding network reads |
| `InterruptsAreNotLost`: `AcceptedIsTaken` | an interrupt has priority over every other exception, and is cleared only in a cycle in which the memory stage takes the exception |
| `LoadsAreNotForwarded`: `[]LoadNotForwarded` | when a load enters the memory stage either the stall has put a bubble behind it or the instruction behind it announced none of its registers |

The second part of `CoreProofs`, with what the decoder and the execute stage make of each of the 36
instructions, proves that the pipeline implements the architecture, for
every word size, number of registers, program and arrival of interrupts:

| Theorem | Argument |
|---|---|
| `RefinementInvariant`: `Spec /\ []Predictable => []RInv` | `RInv` is inductive, with `TypeOK`, `LoadNotForwarded` and `PreciseException`: `StagesHold`, `PcFollows`, `OperandsHeld`, `MemoryHolds` and `Arch!TypeOK`, see below |
| `PipelineImplementsIsa`: `Spec /\ []Predictable => CoreImplementsIsa` | a clock edge is a stutter of Isa while the multiplier computes (`StallStutters`) or the execute stage holds a bubble (`BubbleStutters`); an entry of a handler when an exception is raised (`ExceptionImplemented`); else it executes the instruction in the execute stage (`InstructionImplemented`, one lemma for each class of instruction). A reset is one of Isa |
| `SeparateMemoriesImplementIsa`: `Spec => CoreImplementsIsa` | where `TextAddr = {}`, the data memory holds every aligned word and the programs are allowed, `Predictable` is an invariant: an access that raises no address error is aligned |
| `PredictableTransfersAreTaken`: `Spec /\ []Predictable => TransfersTaken` | what makes the fetch stage ignore a new address is a busy instruction memory, and then no transfer is in decode or execute |
| `BadVAddrIsReadOnly`: `Spec /\ []Predictable => BadVAddrByException` | no instruction that reaches the memory stage names BadVAddr, so only an exception writes it |

The invariant says what makes the mapping right. `StagesHold`: the stages hold
instructions of the program with the signals the decoder gave them, or bubbles.
`PcFollows`: the instruction behind is the next one, or the target of a jump that has
left decode; a transfer always has its delay slot behind it. `OperandsHeld`:
what execute has latched is current where the memory stage and write back supply
nothing. `MemoryHolds`: a load does not write. `Arch!TypeOK`: none of the undefined
values the pipeline computes for its bubbles gets to where a program could see it.

`Predictable` is what the architecture asks of a program, and what the memories ask of
its run: no control transfer in the delay slot of another (its effect is not defined); no
`mtc0` to a read-only register (`core_read_only` shows what that does); `ei` and `di` name Status,
which their encoding fixes; loads and stores stay in the data memory; and no
access that makes the instruction memory busy just ahead of a transfer
(`core_busy_jump` shows that the transfer is lost). TLC finds
`Predictable` and `RInv` invariant with the constants of `core_programs` and with the
interrupts of `core_live`. `SeparateMemoriesImplementIsa` asks of the constants only; they are
the assumption `SeparateMemories` of MCCoreLive, which TLC evaluates in `core_live`.

`OperandUseProofs` proves, for every set of mnemonics without the five of the finding
and for every number of registers:

| Theorem | Argument |
|---|---|
| `OperandsAreAnnounced`: `[]OperandsAnnounced` | decoder by decoder, the announcement covers what the later stages take (`Announces`); the stall covers what is announced, so an instruction that goes on takes nothing from the load |

`DivMulProofs` proves, for every width of a word (2 to 32, powers of two, as the counter
needs them), all requests and all contents of the undefined registers:

| Theorem | Argument |
|---|---|
| `TypeCorrect`: `[]TypeOK` | inductive: a sum that is cut is a word, a word shifted left has room for a bit, the shift right takes in the carry (`ShiftRight`) |
| `LoopCorrect`: `[]LoopInvariant` | inductive with `TypeOK` and two more facts (`LoopIInv`). `Route`: each loop, and each state before one, belongs to the operation of the request, so the bits are taken from the right end. `Bits`: the powers of two of the bits that are done and those that are left make the range of a word, without which shifting left and right would not cancel. A loop begins with empty accumulators whatever the low one holds (`FirstTick`); a tick is `MultiplyStep` or `DivideStep`, which say the same of natural numbers |
| `ResultCorrect`: `ImplementsUnit` | `ResultIInv` adds to the loops what leads to and away from them. `Prepared`: an operand whose magnitude is used has been negated by then, although clearing the unit leaves the register of an earlier one. `Way`: each correction belongs to the operation and the signs of the request. `ProductSoFar`: between two corrections the accumulators and the carry stand for the product, or the sum or difference, up to a multiple of the range of a pair (`Same`), which is what a pair of words can say of it; `NegateLow`, `NegateHigh`, `AccumulateLow` and `AccumulateHigh` take the words one by one. `QuotientSoFar`: the quotient and the remainder have their signs or await them (`SignedDivision`). So what is held out is a result of the request (`ResultHeld`), and every step is one of the abstract unit or none (`UnitStep`) |

`DatapathProofs` proves, for every size of a word (multiples of 4 from 12 on, 32 among them), every number of
registers, every program of the 72 instructions of Lockstep, of any length, from any registers and
memories:

| Theorem | Argument |
|---|---|
| `ProcessorIsArchitecture`: `AnyProgram => []CpuIsReference` | inductive together with `TypeOK`: registers, hi, lo, program counter, exception and every word of memory that is defined are the same before an instruction, so `RaisingAgrees` or `WritingAgrees` has them the same after it |
| `AnyProgramTypes`: `AnyProgram => []TypeOK` | follows from the same invariant: what the units deliver are words, and `'x` is never selected |

An instruction is taken apart as the code is. The decoder: a lemma for each class of instruction
says what its control signals are (`DecodedShiftSa`, ...), `Summaries` what they leave alone. The units: each computes, with the
function it is given, what the arithmetic of Reference says. `FromBitsIs` ties the two together: a word is
the number its bits sum up to, so that an operation on sets of bits and one on numbers are
the same when each bit is (`EqualBits`). From there on: the logic functions and
the shifts, where an arithmetic shift and a rotation merge two parts; leading zeros, which the circuit finds by
halving and the architecture by counting (`ClzIs`, `LeadingZeros`); bit fields and merged bytes,
which are both a number with a field replaced (`FieldReplaced`, `MergeIs`); loads and stores of all widths and of the
parts of `lwl` and `swl`; comparisons and overflow on the sign bits of operands and sum (`OverflowIs`); products and
quotients with signs on the magnitudes (`DividedSigned`). The stages: which operand,
result and destination the control selects (`ResultIs`, `DestinationIs`), where a branch goes, and that
nothing else is written. What ends in `Agrees` puts the three together for each class.

`BinaryLemmas` has the facts about quotients, remainders, powers of two and binary digits these
proofs need. That 2^(n+1) is the double of 2^n counts the subsets of a set with one more
element, with the library's theorem on the size of a powerset. `Induction` is for a *set* of
numbers, which the provers can be given where they cannot be given a predicate: the
order of the numbers is well-founded, so a number missing from the set would be a least one. What
a recursive function gives is then found by exhibiting the function: a recursive definition chooses
one that satisfies its equation, so it is enough to show one that does (`DigitsSummedUp`), and
that what is chosen has the values it should have.

`BuildProofs` proves, for every finite set of scripts, every list of targets and
every number of slots:

| Theorem | Argument |
|---|---|
| `SlotsAreKept`: `[]SlotsKept` | the scripts that run and the free slots are the value of the semaphore together; each acquire and release moves one thread into or out of the set that runs |
| `CountsAreRight`: `[]CountsRight` | not inductive: the counter is the number of scripts that have succeeded *and have been counted*, which a thread adds to from a value it has read before. So the invariant `IInv` says too that at most one thread is between the read and the write (`LockHeld`), that what it has read is still the counter (`ReadCurrent`), that the counter and the list are functions of where the threads are (`CountSoFar`), and that at the end all threads are over (`JoinedAll`) |
| `SuccessesAreFresh`: `[]SuccessIsFresh` | with `FilesInv`, on top of `IInv`. `AtGen`: a script is at one of its targets and at one of its commands. `FilesMade`: a script that has not failed has made, in this build, every image of the targets it has passed and those of the commands it has run of the one it is at, unless their results are ignored (`Ignored`: kernel and mix). A failed command ends the script, so one that succeeds has made them all; what another thread fails to make is of another target (`TargetAssumption`) |
| `BuildTypeCorrect`: `[]TypeOK` | follows from the same invariant |

Threads go through their states in one direction, so what has been counted is a set of
threads, and the library's theorems on finite sets say what adding one does to its size.

`KernelProofs` proves, for every set of programs and any number of timer and software
interrupts:

| Theorem | Argument |
|---|---|
| `KernelInvariant`: `Spec => []KernelInv` | the invariant below. `ExceptionStep` and `InterruptStep` take the instructions of the two handlers one by one, over lemmas on what each kind of instruction does to registers and stack (`MoveDoes`, `SaveDoes`, ...); `ChainGrows`, `ChainShrinks` and `ChainGoesOn` are about the handlers below |
| `ContextIsRestored`: `ContextRestored` | at an `eret` the invariant says that each register is that of the frame (`EretReturns`), and no other step takes a frame away |
| `ArgumentsHold`: `[]ArgumentsArrive` | the invariant at the three instructions that are calls |
| `ClockHolds`: `[]ClockCounted` | `Clock`: what is stored or has been taken is one more than the pulses, for one is stored at the start; `clock_count` is what has been taken, or one less while the handler on top has yet to count its own |
| `TypesHold`: `[]TypeOK` | follows from the same invariant |

`ContextRestored` relates a step to the frame of a handler that was entered long before, so
nothing less than the whole handler is inductive. `InExc` and `InInt` say for each of the
54 and 59 instructions which words of the stack hold what (`ExcStack`), which
registers are still, or again, those of the context (`ExcRegs`) and what the others
carry to the next instruction (`ExcOthers`), in tables of the instruction that saves, overwrites and restores
each register. `Chain` says this of *every* active handler, not only of the one that runs: the
context in the frame above is what the handler below has been doing (`Level`), so that it goes on
from there. What makes this possible is `HandlerSurvives`: a handler can be
interrupted only where Status is IE, and at these instructions nothing it
relies on is in `$k0`, `$k1`, EPC or Cause, which an interrupt does not give back. For the code it is the
reason why EPC and Cause are read before EXL is cleared, and why interrupts are disabled
again before the frame is unwound. The assumption that a program is shorter than
`Vector` keeps it clear of the handlers' addresses, as in the memory map: user programs are linked at
0x00400000 (`crt0.s:11`), the kernel at 0x80000000 (`kernel.lds:3`).

`UartProofs` proves, for every pair of clock periods within the tolerance, every phase
between them, every set of messages and of delays of the host:

| Theorem | Argument |
|---|---|
| `BytesArriveInOrder`: `Spec => Wire!Init /\ [][Wire!Next]_(Wire!vars)` | the safety of `ImplementsChannel`: a host's write is a `Send` and a host's read is a `Deliver` of the next byte (`HostWritesInv`, `HostReadsInv`); every other step is a stutter |
| `UartInvariant`: `Spec => []UartInv` | one lemma for each step of the sender (`FrameBegins`, `FrameGoesOn`, `StopBitGoesOn`, `SenderRests`), of the receiver (`ReceiverRests`, `EdgeOfStartBit`, `EdgeOfByte`, `EdgeOfStopBit`) and of the hosts |
| `TypesHold`: `[]TypeOK` | follows; `TypeOK` says too that no frame is in error |

The receiver never sees the sender's counter: it counts its own edges from the start bit on,
and everything depends on how far the two counts drift apart in the 160 edges of a frame. `AtEdge(j)`
bounds the time since the frame began when the receiver is about to make its edge `j` of it,
and says that each of the four samples it holds is, where it is `Clear`, the bit that is on the line
then (`Sampled`): the middle three samples of each bit are clear, which is why it takes
their majority, and those near the changes of the line are not. `BitTaken` adds one such bit to the shift register.
The tolerance, `Tolerance`, is where this holds: 25 periods of the receiver are longer than 24 of the
sender, so that edge 150, the first sample of the stop bit's majority, does not fall into the
last bit of the byte; and 31 are shorter than 32, so that edge 154 is over before the next
frame can begin. It comes to -4 and +3.2 per cent; the clocks of `uart_test.sv` are 2.1 per cent apart. TLC evaluates
`Tolerance` in `kernel_uart`, for both pairs of clocks (`ClocksWithinTolerance`). What the synchroniser
holds after a reset, two zeros on an idle line, looks like the beginning of a start bit; `Idle` says
that it is over before the first frame can begin.

The assumptions are those the modules name: `SizeAssumption`, `MemoryAssumption`,
`UndefinedAssumption` of Machine, `EnvironmentAssumption` of Core, `MnemonicsAssumption` of OperandUse,
`WidthAssumption`, `RequestAssumption` and `JunkAssumption` of DivMul and
`BuildAssumption` and `TargetAssumption` of Build, `KernelAssumption` of Kernel,
`WordAssumption` of Words and `ProgramAssumption` of Lockstep; TLC evaluates them in
every run of these modules.

Model-checked only: the liveness properties (liveness is out of the prover's reach), among them that
a UART delivers all bytes, and what the generators of the test programs believe. Their programs have the length that a
constant gives them, and what a generator expects is written in Python once more for each
instruction, so that a proof would go over all of it again; what the programs run on, the units and
the simulator, is proved to agree. The instructions that Lockstep leaves out, of
coprocessor 0, traps and the pair of `ll` and `sc`, have no simulator to agree with
in kernel mode; `test_control` and `test_data` run them.

## 5. Not modelled

`PROJECT.json` says for each component what is left out. Left out for good:

- printf and the C programs but for the kernel, `single_forwarder.sv` and `exception/exception.sv`,
  which nothing instantiates;
- mfc0_mtc0, which the bench has commented out of its targets, and sw_dbg, which writes
  nothing that is checked;
- what the bench prints, and the order in which `parameter_iter_pass` goes
  through its iterators;
- the C functions of the kernel beyond what they may do to a context: they print;
- metastability between the clocks of the UART: a synchroniser delays by its registers.

Left out so far: user mode (no test program enters it), Count and Compare as counters
(the timer is an interrupt at any instruction), several interrupt lines in Core
itself and a mask that changes in InterruptStorage, exceptions in delay slots of the kernel's
programs (the kernel gives up there), and UARTs that are enabled or set to another divider while they
run, or whose host sends and receives at once.

## 6. Plan

In order of importance; the first four are what this directory holds.

1. Decoder, Machine, Isa, Core, CoreLive, OperandUse; DivMul, MulDivUnit.
2. The data path, the test programs, the bench and the build, with BuildProofs.
3. Kernel; Uart against Channel; InterruptStorage.
4. Proofs: the pipeline's invariants and Core refines Isa (CoreProofs); the announced operands
   (OperandUseProofs); DivMul's loops and result (DivMulProofs); what the units compute
   (DatapathProofs); the build (BuildProofs); the kernel (KernelProofs); the safety of Uart
   (UartProofs).
5. `Cop0` (fixed and write masks, Count and Compare), then Core composed with it and with
   InterruptStorage; user mode and the coprocessor-unusable exception.
6. A refinement run of Core with a busy instruction memory on programs that keep
   clear of it, and the delay-slot hazard of a busy cycle as a property.
7. A UART that sends and receives at once, written by one host.
