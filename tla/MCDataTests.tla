----------------------------- MODULE MCDataTests -----------------------------
(***************************************************************************)
(* Instances of ArithTests, LogicTests and MemoryTests for TLC, each a     *)
(* suite of one run.  Words have twelve bits for the multiplier, whose     *)
(* results are of two words, and for the memory, a data segment of one or  *)
(* two words; and sixteen for the shifts and the bit fields.  Four         *)
(* registers are what sys needs, and eight give each register its own      *)
(* place in a pattern.                                                     *)
(***************************************************************************)
EXTENDS Integers

CONSTANT X

VARIABLES suite,                                \* the instance that runs
          cpu, sim, bench, test, at, then,      \* the variables of TestProgram
          piece, calls,
          prev, want, spare,                    \* of ArithTests
          idx, val, regs,                       \* of LogicTests
          datas, cell, offset, held             \* and of MemoryTests

arith  == <<prev, want, spare>>
logic  == <<idx, val, regs>>
memory == <<datas, cell, offset, held>>
vars   == <<suite, cpu, sim, bench, test, at, then, piece, calls, arith, logic, memory>>

\* Each operation once, on all that is drawn; what carries a value on; moves.
Once == INSTANCE ArithTests WITH
  W <- 12, NReg <- 4, DataWord <- {}, Edge <- 1, Draw <- {0, 1370, 2731}, MaxCalls <- 1,
  Tests <- {"mult", "multu", "mul", "div", "divu"}
Accumulate == INSTANCE ArithTests WITH
  W <- 12, NReg <- 4, DataWord <- {}, Edge <- 1, Draw <- {}, MaxCalls <- 2,
  Tests <- {"madd", "maddu", "msub", "msubu"}
Move == INSTANCE ArithTests WITH
  W <- 12, NReg <- 4, DataWord <- {}, Edge <- 1, Draw <- {1370}, MaxCalls <- 2,
  Tests <- {"mthi_mfhi", "mtlo_mflo"}

\* Patterns over all registers; each operation once; and chains of shifts.
Patterns == INSTANCE LogicTests WITH
  W <- 16, NReg <- 8, DataWord <- {}, Edge <- 1, Draw <- {23130}, MaxCalls <- 0,
  Tests <- {"lui_1", "lui_2", "ori_1", "ori_2", "sll_1", "sll_2", "xori_1", "andi_1",
            "and", "or", "xor", "nor"}
Operands == INSTANCE LogicTests WITH
  W <- 16, NReg <- 4, DataWord <- {}, Edge <- 1, Draw <- {42405}, MaxCalls <- 1,
  Tests <- {"addu", "subu", "srl", "rotr", "sra", "sllv", "srlv", "rotrv", "srav",
            "slt", "sltu", "slti", "sltiu", "clz", "clo", "seb", "seh", "wsbh",
            "movz", "movn", "ins", "ext"}
Mixed == INSTANCE LogicTests WITH
  W <- 16, NReg <- 4, DataWord <- {}, Edge <- 1, Draw <- {23130, 42405}, MaxCalls <- 2,
  Tests <- {"addiu", "andi_2", "xori_2", "or"}
Shift == INSTANCE LogicTests WITH
  W <- 16, NReg <- 4, DataWord <- {}, Edge <- 1, Draw <- {23130}, MaxCalls <- 3,
  Tests <- {"srl", "sra"}

\* Cells that differ, with either sign.
Pattern(words) == {[c \in 0 .. 4 * words - 1 |-> (1170 + 619 * c) % 2^12]}

Loads == INSTANCE MemoryTests WITH
  W <- 12, NReg <- 5, DataWord <- {32}, Edge <- 1, Draw <- {1370}, MaxCalls <- 1,
  Words <- 1, Contents <- Pattern(1), Tests <- {"lw", "lh", "lb"},
  regs <- held
Stores == INSTANCE MemoryTests WITH
  W <- 12, NReg <- 4, DataWord <- {32}, Edge <- 1, Draw <- {1370}, MaxCalls <- 1,
  Words <- 1, Contents <- Pattern(1), Tests <- {"lbu", "lhu", "sb", "sh", "sw"},
  regs <- held
Parts == INSTANCE MemoryTests WITH
  W <- 12, NReg <- 4, DataWord <- {32}, Edge <- 1, Draw <- {1370}, MaxCalls <- 2,
  Words <- 1, Contents <- Pattern(1), Tests <- {"lwl_swl", "lwr_swr"},
  regs <- held
Kernel == INSTANCE MemoryTests WITH
  W <- 12, NReg <- 4, DataWord <- {32, 33}, Edge <- 1, Draw <- {1370}, MaxCalls <- 2,
  Words <- 2, Contents <- Pattern(2), Tests <- {"ll_sc", "read_instruction"},
  regs <- held

NoArith  == prev = 0 /\ want = 0 /\ spare = 0
NoLogic  == idx = 0 /\ val = 0 /\ regs = <<0, 0>>
NoMemory == datas = <<>> /\ cell = 0 /\ offset = 0 /\ held = <<>>

Init ==
  \/ NoLogic /\ NoMemory /\ \/ suite = "once"       /\ Once!Init
                            \/ suite = "accumulate" /\ Accumulate!Init
                            \/ suite = "move"       /\ Move!Init
  \/ NoArith /\ NoMemory /\ \/ suite = "patterns"   /\ Patterns!Init
                            \/ suite = "operands"   /\ Operands!Init
                            \/ suite = "mixed"      /\ Mixed!Init
                            \/ suite = "shift"      /\ Shift!Init
  \/ NoArith /\ NoLogic  /\ \/ suite = "loads"      /\ Loads!Init
                            \/ suite = "stores"     /\ Stores!Init
                            \/ suite = "parts"      /\ Parts!Init
                            \/ suite = "kernel"     /\ Kernel!Init

Next ==
  /\ \/ UNCHANGED <<logic, memory>> /\ \/ suite = "once"       /\ Once!Next
                                       \/ suite = "accumulate" /\ Accumulate!Next
                                       \/ suite = "move"       /\ Move!Next
     \/ UNCHANGED <<arith, memory>> /\ \/ suite = "patterns"   /\ Patterns!Next
                                       \/ suite = "operands"   /\ Operands!Next
                                       \/ suite = "mixed"      /\ Mixed!Next
                                       \/ suite = "shift"      /\ Shift!Next
     \/ UNCHANGED <<arith, logic>>  /\ \/ suite = "loads"      /\ Loads!Next
                                       \/ suite = "stores"     /\ Stores!Next
                                       \/ suite = "parts"      /\ Parts!Next
                                       \/ suite = "kernel"     /\ Kernel!Next
  /\ UNCHANGED suite

Spec == Init /\ [][Next]_vars

----------------------------------------------------------------------------
\* The properties of the three modules, of whichever instance runs.

\* Every variable holds a value of its type.
TypeOK ==
  /\ suite = "once"       => Once!TypeOK
  /\ suite = "accumulate" => Accumulate!TypeOK
  /\ suite = "move"       => Move!TypeOK
  /\ suite = "patterns"   => Patterns!TypeOK
  /\ suite = "operands"   => Operands!TypeOK
  /\ suite = "mixed"      => Mixed!TypeOK
  /\ suite = "shift"      => Shift!TypeOK
  /\ suite = "loads"      => Loads!TypeOK
  /\ suite = "stores"     => Stores!TypeOK
  /\ suite = "parts"      => Parts!TypeOK
  /\ suite = "kernel"     => Kernel!TypeOK

\* No assertion that a generator has written fails on the processor.
NoFalseAlarm == Once!NoFalseAlarm

\* The processor and the simulator agree after every piece of every program, and
\* on the data of a program that has filled its cells; the simulator takes no part
\* in the programs that run in kernel mode.
CpuIsReference ==
  /\ suite # "kernel" => Once!CpuIsReference
  /\ suite = "stores" => Stores!MemoryTracked

\* What a generator carries from one callback to the next is what the processor
\* holds: prev_value of madd.py and its like hi and lo, the chain of srl.py and its
\* like a register.
ValuesTracked ==
  /\ suite = "accumulate" => Accumulate!AccumulatorTracked
  /\ suite \in {"operands", "shift"} => Shift!ChainTracked

=============================================================================
