--------------------------- MODULE MCControlTests ---------------------------
(***************************************************************************)
(* Instances of BranchTests and ExceptionTests for TLC, each a suite of    *)
(* one run: words of twelve bits, the fewest that address the debug        *)
(* memory, three or four marks, three words of data behind the counter,    *)
(* and as many registers as the programs of a suite name.                  *)
(***************************************************************************)
EXTENDS Integers

CONSTANT X

VARIABLES suite,                                \* the instance that runs
          cpu, sim, bench, test, at, then,      \* the variables of TestProgram
          piece, calls,
          link, drawn, visits,                  \* of BranchTests
          total, spoilt                         \* and of ExceptionTests

branch    == <<link, drawn, visits>>
exception == <<total, spoilt>>
vars == <<suite, cpu, sim, bench, test, at, then, piece, calls, branch, exception>>

\* Data memory: the counter at 16, and the words of the stack below 32; the data
\* segment from 32 on.
Stack(words) == {16} \cup (32 - words .. 31)

Links == INSTANCE BranchTests WITH
  W <- 12, NReg <- 5, DataWord <- Stack(3), Edge <- 1, Draw <- {}, MaxCalls <- 0, Marks <- 3,
  Tests <- {"beq", "bne", "j", "jal"}
Returns == INSTANCE BranchTests WITH
  W <- 12, NReg <- 7, DataWord <- Stack(3), Edge <- 1, Draw <- {}, MaxCalls <- 0, Marks <- 3,
  Tests <- {"bgezal", "bltzal"}
Saves == INSTANCE BranchTests WITH
  W <- 12, NReg <- 5, DataWord <- Stack(3), Edge <- 1, Draw <- {}, MaxCalls <- 0, Marks <- 3,
  Tests <- {"jr"}
Calls == INSTANCE BranchTests WITH
  W <- 12, NReg <- 4, DataWord <- Stack(3), Edge <- 1, Draw <- {}, MaxCalls <- 0, Marks <- 3,
  Tests <- {"jalr"}
Walks == INSTANCE BranchTests WITH
  W <- 12, NReg <- 4, DataWord <- Stack(0), Edge <- 1, Draw <- {5}, MaxCalls <- 0, Marks <- 4,
  Tests <- {"bgez", "bgtz", "blez", "bltz"}

Raising == INSTANCE ExceptionTests WITH
  W <- 12, NReg <- 5, DataWord <- 32 .. 34, Edge <- 1, Draw <- {1370}, MaxCalls <- 1,
  Counts <- 0 .. 7, Avoid <- {},
  Tests <- {"tge", "tgeu", "tlt", "tltu", "teq", "tne", "tgei", "tgeiu", "tlti", "tltiu",
            "teqi", "tnei", "ov_add", "ov_sub", "ov_addi", "reserved", "cop0_unusable",
            "unalign_load", "unalign_store", "unalign_pc", "di_ei"}
Repeated == INSTANCE ExceptionTests WITH
  W <- 12, NReg <- 5, DataWord <- 32 .. 34, Edge <- 1, Draw <- {1370}, MaxCalls <- 2,
  Counts <- {}, Avoid <- {}, Tests <- {"syscall", "break", "soft_interrupt"}
Timer == INSTANCE ExceptionTests WITH
  W <- 12, NReg <- 7, DataWord <- 32 .. 34, Edge <- 1, Draw <- {1370}, MaxCalls <- 1,
  Counts <- {}, Avoid <- {1, 5}, Tests <- {"di_ei"}

NoBranch    == link = <<>> /\ drawn = <<>> /\ visits = <<>>
NoException == total = 0 /\ spoilt = FALSE

Init ==
  \/ /\ NoException
     /\ \/ suite = "links" /\ Links!Init
        \/ suite = "returns" /\ Returns!Init
        \/ suite = "saves" /\ Saves!Init
        \/ suite = "calls" /\ Calls!Init
        \/ suite = "walks" /\ Walks!Init
  \/ /\ NoBranch
     /\ \/ suite = "raising"  /\ Raising!Init
        \/ suite = "repeated" /\ Repeated!Init
        \/ suite = "timer"    /\ Timer!Init

Next ==
  /\ \/ /\ \/ suite = "links" /\ Links!Next
           \/ suite = "returns" /\ Returns!Next
           \/ suite = "saves" /\ Saves!Next
           \/ suite = "calls" /\ Calls!Next
           \/ suite = "walks" /\ Walks!Next
        /\ UNCHANGED exception
     \/ /\ \/ suite = "raising"  /\ Raising!Next
           \/ suite = "repeated" /\ Repeated!Next
           \/ suite = "timer"    /\ Timer!Next
        /\ UNCHANGED branch
  /\ UNCHANGED suite

Spec == Init /\ [][Next]_vars

BranchSuite    == {"links", "returns", "saves", "calls", "walks"}
ExceptionSuite == {"raising", "repeated", "timer"}

----------------------------------------------------------------------------
\* The properties of the two modules, of whichever instance runs.

\* Every variable holds a value of its type.
TypeOK ==
  /\ suite = "links" => Links!TypeOK
  /\ suite = "returns" => Returns!TypeOK
  /\ suite = "saves" => Saves!TypeOK
  /\ suite = "calls" => Calls!TypeOK
  /\ suite = "walks" => Walks!TypeOK
  /\ suite = "raising"  => Raising!TypeOK
  /\ suite = "repeated" => Repeated!TypeOK
  /\ suite = "timer"    => Timer!TypeOK

\* An assertion fails only where its generator is wrong: bgtz.py:32 goes one too
\* far, unalign_store writes to the counter of its handler, and di_ei uses the
\* registers of its own.
AlarmsExplained ==
  /\ suite \in BranchSuite => Walks!AlarmsExplained
  /\ suite \in ExceptionSuite => Raising!AlarmsExplained

\* The processor and the simulator agree after every block of a program, on
\* where it goes on too.
CpuIsReference == suite \in BranchSuite => Walks!CpuIsReference

\* Every mark is reached, and none again and again.
MarksReached ==
  /\ suite = "links" => Links!MarksReached
  /\ suite = "returns" => Returns!MarksReached
  /\ suite = "saves" => Saves!MarksReached
  /\ suite = "calls" => Calls!MarksReached
  /\ suite = "walks" => Walks!MarksReached

\* Each frame of the stack holds the place its call returns to.
FramesIntact ==
  /\ suite = "returns" => Returns!FramesIntact
  /\ suite = "saves" => Saves!FramesIntact
  /\ suite = "calls" => Calls!FramesIntact

\* The handler has counted the exceptions that its generator has foreseen.
CountForeseen ==
  /\ suite \in {"raising", "repeated"} => Raising!CountForeseen
  /\ suite = "timer" => Timer!CountForeseen

\* Every exception returns to the program in normal mode.
HandlersReturn == suite \in ExceptionSuite => Raising!HandlersReturn

\* A program named for a branch has executed it when it ends (bne.py:25).
BranchExecuted == suite = "links" => Links!BranchExecuted

=============================================================================
