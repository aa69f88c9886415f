------------------------------ MODULE Lockstep ------------------------------
(***************************************************************************)
(* The processor and the simulator side by side: any instructions, one     *)
(* after the other, from any registers.                                    *)
(*                                                                         *)
(* A program of the tests is written by a generator and runs a piece at a  *)
(* time (TestProgram).  Here nobody writes the program, so that what the   *)
(* two agree on is shown of every program there could be.                  *)
(***************************************************************************)
EXTENDS Datapath, Reference

CONSTANTS Code,     \* the instructions a program may have
          Start,    \* what the registers may hold where it starts
          CpuMem,   \* the memory of the processor, and the memory of the
          SimMem,   \*   simulator: they differ where nobody has written
          Target,   \* the addresses that a program may go on at
          MaxSteps  \* bound on the instructions executed

\* What the simulator defines: no trap, system call or coprocessor instruction,
\* no link of loads to stores, and no branch that is likely.
SimOp ==
  D!ShiftSaOps \cup D!ShiftVarOps \cup D!AluOps \cup D!MulDivOps \cup D!MulAccOps
  \cup D!ByteShuffleOps \cup D!LogicImmOps \cup D!LoadOps \cup D!StoreOps \cup D!JumpOps
  \cup {"ADDI", "ADDIU", "SLT", "SLTU", "SLTI", "SLTIU", "LUI", "MOVZ", "MOVN", "CLZ", "CLO",
        "EXT", "INS", "MUL", "MFHI", "MFLO", "MTHI", "MTLO", "JR", "JALR", "BEQ", "BNE", "BLEZ",
        "BGTZ", "BLTZ", "BLTZAL", "BGEZ", "BGEZAL"}

\* The instructions that can be encoded.
Instr ==
  { i \in [op : SimOp, rd : Nat, rs : Reg, rt : Reg, sa : 0 .. W - 1, imm : Immed] :
      /\ i.op \notin {"EXT", "INS"} => i.rd \in Reg
      /\ i.op = "EXT" => i.sa + i.rd < W
      /\ i.op = "INS" => i.sa <= i.rd /\ i.rd < W
      /\ i.op = "LUI" => i.rs = 0
      /\ i.op \in {"BLEZ", "BGTZ"} => i.rt = 0 }

Registers == {r \in [Reg -> Word] : r[0] = 0}

ASSUME ProgramAssumption ==
  /\ Code \subseteq Instr /\ Start \subseteq Registers /\ Target \subseteq Word
  /\ CpuMem \in [MemWord -> Word] /\ SimMem \in [MemWord -> Word]
  /\ MaxSteps \in Nat

VARIABLES cpu,     \* the processor
          sim,     \* the simulator
          known,   \* the words of memory that are defined
          steps    \* how many instructions have been executed

machines == <<cpu, sim, known, steps>>

----------------------------------------------------------------------------
\* The exceptions of the architecture.

Ea(m, i) == Trunc(m.gpr[i.rs] + SignN(i.imm, H))

\* The sum or the difference of signed operands.
SignedResult(m, i) ==
  LET rs == Signed(m.gpr[i.rs])
  IN  CASE i.op = "ADD"  -> rs + Signed(m.gpr[i.rt])
        [] i.op = "SUB"  -> rs - Signed(m.gpr[i.rt])
        [] i.op = "ADDI" -> rs + SignN(i.imm, H)
        [] OTHER -> 0

Unaligned(m, i) ==
  \/ i.op \in {"LH", "LHU", "SH"} /\ Ea(m, i) % 2 # 0
  \/ i.op \in {"LW", "SW"} /\ Ea(m, i) % BPW # 0

Raises(m, i) ==
  CASE SignedResult(m, i) \notin -(2^(W - 1)) .. 2^(W - 1) - 1 -> "OV"
    [] Unaligned(m, i) /\ i.op \in D!LoadOps  -> "ADEL"
    [] Unaligned(m, i) /\ i.op \in D!StoreOps -> "ADES"
    [] OTHER -> "NONE"

\* The architecture says what i does: it does not divide by zero, and it reads
\* what has been written.
Defined(m, i) ==
  /\ i.op \in {"DIV", "DIVU"} => m.gpr[i.rt] # 0
  /\ i.op \in D!StoreOps => Ea(m, i) \div BPW \in MemWord
  /\ i.op \in D!LoadOps  => Ea(m, i) \div BPW \in known

----------------------------------------------------------------------------

AnyStart ==
  /\ \E regs \in Start : /\ cpu = [Reset(CpuMem) EXCEPT !.gpr = regs]
                         /\ sim = [Reset(SimMem) EXCEPT !.gpr = regs]
  /\ known = {w \in MemWord : CpuMem[w] = SimMem[w]}
  /\ steps = 0

\* The simulator executes i, or raises its exception.
Simulated(m, i, to, other) ==
  IF Raises(m, i) # "NONE" THEN [m EXCEPT !.trap = Raises(m, i)]
  ELSE [SimStep(m, i) EXCEPT !.pc = SimNextPc(m, i, to, other)]

\* The processor executes i.  The bench has read what it logs.
Executed(m, i, to, other) ==
  [CpuStep(m, i) EXCEPT !.log = <<>>,
                        !.pc = IF CpuStep(m, i).trap # "NONE" THEN @ ELSE NextPc(m, i, to, other)]

Execute(i, to, other) ==
  /\ Defined(sim, i)
  /\ cpu' = Executed(cpu, i, to, other)
  /\ sim' = Simulated(sim, i, to, other)
  /\ known' = IF i.op = "SW" /\ Raises(sim, i) = "NONE"
              THEN known \cup {Ea(sim, i) \div BPW} ELSE known

AnyStep ==
  /\ steps < MaxSteps /\ steps' = steps + 1
  /\ cpu.trap = "NONE" /\ sim.trap = "NONE"
  /\ \E i \in Code, to, other \in Target : Execute(i, to, other)

AnyProgram == AnyStart /\ [][AnyStep]_machines

----------------------------------------------------------------------------
\* Every variable holds a value of its type.
Machine ==
  [ gpr : Registers, hi : Word, lo : Word, llbit : BOOLEAN,
    cop0 : [{"Status", "Cause", "EPC", "LLAddr"} -> Word],
    mem : [MemWord -> Word], pc : Word, trap : {"NONE", "OV", "ADEL", "ADES"}, log : {<<>>} ]

TypeOK ==
  cpu \in Machine /\ sim \in Machine /\ known \subseteq MemWord /\ steps \in 0 .. MaxSteps

\* The registers, hi, lo, the program counter and the exception that is raised
\* are those of the architecture, and a store changes the same bytes: the words
\* of memory that are defined hold the same.
CpuIsReference ==
  /\ cpu.gpr = sim.gpr /\ cpu.hi = sim.hi /\ cpu.lo = sim.lo
  /\ cpu.pc = sim.pc /\ cpu.trap = sim.trap
  /\ \A w \in known : cpu.mem[w] = sim.mem[w]

=============================================================================
