--------------------------- MODULE MCInstructions ---------------------------
(***************************************************************************)
(* Instances of OperandUse and of Lockstep for TLC, each a suite of one    *)
(* run: what each instruction announces, and what it computes.             *)
(***************************************************************************)
EXTENDS OperandUse, Lockstep

VARIABLE suite     \* the instance that runs

\* OperandUse: the others are shown in announce_all.cfg.
LoadsAndAnnounced == Op \ Misannounced

\* Lockstep: every instruction it has, on numbers around the ends and the middle
\* of their range, and every two of them; and one word of data, at the address in
\* $3.  Results go to the register that holds an operand.
Numbers == {0, 1, 1370, 2^(W - 1) - 1, 2^(W - 1), M - 1}
Address == 130

MCDataWord == {Address \div BPW}
MCStart ==
  { [r \in Reg |-> CASE r = 0 -> 0 [] r = 1 -> a [] r = 3 -> Address [] OTHER -> b]
    : a, b \in Numbers }
MCTarget == {5, 6}
MCCpuMem == [w \in MemWord |-> IF w \in DataWord THEN 2730 ELSE M - 1]
MCSimMem == [w \in MemWord |-> IF w \in DataWord THEN 2730 ELSE 0]

ThreeRegisters ==
  ShiftVarOps \cup AluOps \cup ByteShuffleOps
  \cup {"SLT", "SLTU", "MOVZ", "MOVN", "MUL", "CLZ", "CLO", "MFHI", "MFLO"}
TwoOperands ==
  MulDivOps \cup MulAccOps
  \cup {"MTHI", "MTLO", "BEQ", "BNE", "BLTZ", "BGEZ", "BLTZAL", "BGEZAL", "J", "JAL"}
Immediates == LogicImmOps \cup {"ADDI", "ADDIU", "SLTI", "SLTIU"}
Fields     == {<<0, 0>>, <<3, 7>>, <<0, W - 1>>}

MCCode ==
  {RType(op, 2, 1, 2) : op \in ThreeRegisters} \cup {RType(op, 0, 1, 2) : op \in TwoOperands}
  \cup {RType("JALR", 1, 1, 0)} \cup {RType(op, 0, 1, 0) : op \in {"JR", "BLEZ", "BGTZ"}}
  \cup {Shift(op, 2, 1, sa) : op \in ShiftSaOps, sa \in {0, 5, W - 1}}
  \cup {IType(op, 2, 1, imm) : op \in Immediates, imm \in {1, 2^(H - 1), 2^H - 1}}
  \cup {IType("LUI", 1, 0, 45)}
  \cup {[RType(op, f[2], 1, 2) EXCEPT !.sa = f[1]] : op \in {"INS", "EXT"}, f \in Fields}
  \cup {IType(op, 2, 3, offset) : op \in LoadOps \cup StoreOps, offset \in -2 .. 1}

----------------------------------------------------------------------------

\* What does not run: a nop behind a bubble, and the machines after a reset.
NoStream ==
  /\ decode = [op |-> "SLL", rs |-> 0, rt |-> 0]
  /\ execute = [ctl |-> ClearControl, rt |-> 0]
NoProgram == cpu = Reset(MCSimMem) /\ sim = cpu /\ known = {} /\ steps = 0

MCInit ==
  \/ suite = "stream"   /\ Init     /\ NoProgram
  \/ suite = "lockstep" /\ AnyStart /\ NoStream

\* A program may end, the stream goes on.
MCNext ==
  /\ \/ suite = "stream"   /\ Next /\ UNCHANGED machines
     \/ suite = "lockstep" /\ (AnyStep \/ UNCHANGED machines) /\ UNCHANGED vars
  /\ UNCHANGED suite

MCSpec == MCInit /\ [][MCNext]_<<suite, vars, machines>>
=============================================================================
