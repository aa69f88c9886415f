------------------------------ MODULE Machine ------------------------------
(***************************************************************************)
(* What the instruction-set view (Isa) and the pipeline (Core) of the      *)
(* processor have in common: words, registers, instructions and the        *)
(* arithmetic on them.                                                     *)
(*                                                                         *)
(* The 32-bit machine is scaled down.  A word is a number modulo N.  The   *)
(* program counter counts instructions, so pc + 1 is the code's pc + 4.    *)
(* A data word is two bytes, so an odd address is an unaligned one.        *)
(***************************************************************************)
EXTENDS Integers, Decoder

CONSTANTS N,          \* number of words: 2^32 in the code
          NReg,       \* number of general registers: 32 in the code
          DataAddr,   \* the word-aligned addresses backed by data memory
          InitData,   \* what the data memory holds at power-up
          Programs,   \* the instruction memories to run
          Vector,     \* address of the general exception handler
          IntVector,  \* address of the interrupt handler (Cause.IV = 1)
          X           \* an undefined value, 'x in SystemVerilog

Word == 0 .. N - 1
Reg  == 0 .. NReg - 1
RA   == NReg - 1      \* the link register, $31

Cop0Reg == {"Status", "EPC", "ErrorEPC", "BadVAddr", "LLAddr"}

\* The instructions the data path of the model computes.  The others differ
\* only in the function the ALU or the load/store unit applies.
CoreOp == {"SLL", "ADD", "ADDU", "SUBU", "SLT", "ADDI", "ADDIU", "MOVZ", "MOVN",
           "MFHI", "MFLO", "MTHI", "MTLO", "MULT", "MADD", "MUL", "TEQ",
           "SYSCALL", "BREAK", "RESERVED", "J", "JAL", "JR", "JALR", "BEQ",
           "BNE", "BGEZAL", "LW", "SW", "LL", "SC", "MTC0", "MFC0", "EI", "DI",
           "ERET"}

Instr == [op : CoreOp, rs : Reg, rt : Reg, rd : Reg, imm : Word, c0 : Cop0Reg]

\* The all-zero encoding: SLL $0, $0, 0.
Nop == [op |-> "SLL", rs |-> 0, rt |-> 0, rd |-> 0, imm |-> 0, c0 |-> "Status"]

ExcCode == {"INT", "ADEL", "ADES", "SYS", "BP", "RI", "OV", "TR"}

ASSUME SizeAssumption ==
  /\ N \in Nat /\ N >= 16 /\ N % 16 = 0
  /\ NReg \in Nat /\ NReg >= 2
  /\ Vector \in Word /\ IntVector \in Word

ASSUME MemoryAssumption ==
  /\ DataAddr \subseteq {a \in Word : a % 2 = 0}
  /\ InitData \in [DataAddr -> Word]
  /\ \A p \in Programs : p \in [Word -> Instr]

ASSUME UndefinedAssumption == X \notin Word \cup Reg

Value == Word \cup {X}

----------------------------------------------------------------------------
\* Arithmetic.  A result with an undefined operand is undefined, and an order
\* with one does not hold.

Defined(a, b) == a \in Word /\ b \in Word

IfDefined(a, v) == IF a \in Word THEN v ELSE X

\* Mutant: the carry out of the word is kept.
PlusWithCarry(a, b) == IF Defined(a, b) THEN a + b ELSE X

Plus(a, b)  == IF Defined(a, b) THEN (a + b) % N ELSE X
Minus(a, b) == IF Defined(a, b) THEN (a - b) % N ELSE X

Negative(a) == a \in Word /\ a >= N \div 2
Signed(a)   == IF Negative(a) THEN a - N ELSE a

\* comparator and compare_flag_mux, for the comparisons the model uses.
\* Equality is case equality, which compares undefined values too.
Compare(flag, a, b) ==
  \/ flag = "EQ" /\ a = b
  \/ flag = "NE" /\ a # b
  \/ flag = "LT" /\ Defined(a, b) /\ Signed(a) < Signed(b)
  \/ flag = "GE" /\ Defined(a, b) /\ Signed(a) >= Signed(b)

Bit(b) == IF b THEN 1 ELSE 0

----------------------------------------------------------------------------
\* The Status register: IE, EXL, ERL and one interrupt mask bit.

IE(s)  == s % 2 = 1
EXL(s) == (s \div 2) % 2 = 1
ERL(s) == (s \div 4) % 2 = 1
IM(s)  == (s \div 8) % 2 = 1

SetIE(s)    == IF IE(s) THEN s ELSE s + 1
ClearIE(s)  == IF IE(s) THEN s - 1 ELSE s
SetEXL(s)   == IF EXL(s) THEN s ELSE s + 2
ClearEXL(s) == IF EXL(s) THEN s - 2 ELSE s
ClearERL(s) == IF ERL(s) THEN s - 4 ELSE s

\* What ERET leaves in Status, and where it returns to.
AfterEret(s)            == IF ERL(s) THEN ClearERL(s) ELSE ClearEXL(s)
ReturnAddress(s, ee, e) == IF ERL(s) THEN ee ELSE e

InterruptsEnabled(s) == IE(s) /\ ~EXL(s) /\ ~ERL(s) /\ IM(s)

ResetStatus == 4      \* only ERL

ExcVector(code) == IF code = "INT" THEN IntVector ELSE Vector

----------------------------------------------------------------------------
\* What reset leaves in the registers a program sees.

Cause == [code : ExcCode, bd : BOOLEAN]

ResetGpr   == [r \in Reg |-> 0]
ResetCop0  == [c \in Cop0Reg |-> IF c = "Status" THEN ResetStatus ELSE 0]
ResetCause == [code |-> "INT", bd |-> FALSE]

=============================================================================
