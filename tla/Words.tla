------------------------------- MODULE Words -------------------------------
(***************************************************************************)
(* Words, instructions and the state a program sees, as the processor's    *)
(* data path (Datapath), the simulator that checks it (Reference) and the  *)
(* generated test programs (AsmLib and the modules above it) share them.   *)
(*                                                                         *)
(* The 32-bit machine is scaled down: a word has W bits, a half word,      *)
(* which is also the size of an immediate, W/2 bits, and a byte W/4 bits.  *)
(***************************************************************************)
EXTENDS Integers, Sequences, SequencesExt

CONSTANTS W,          \* bits of a word, a multiple of 4 from 12 on: 32 in the code
          NReg,       \* number of general registers, at least 4: 32 in the code
          DataWord,   \* the words of data memory, by index, below DbgWord
          X           \* an undefined value, 'x in SystemVerilog: no word

H        == W \div 2          \* bits of a half word and of an immediate
BPW      == 4                \* bytes of a word
ByteBits == W \div BPW
M        == 2^W
Word     == 0 .. M - 1
Immed    == 0 .. 2^H - 1
Reg      == 0 .. NReg - 1
RA       == NReg - 1          \* $31

\* The debug memory is the quarter, or less, of the addresses that begins at
\* the immediate of all ones: 0xFFFF0000.
DbgAddr == M - 2^H
DbgWord == {DbgAddr \div BPW + k : k \in 0 .. 2}
MemWord == DataWord \cup DbgWord

ASSUME WordAssumption ==
  /\ W \in Nat /\ W >= 12 /\ W % BPW = 0
  /\ NReg \in Nat /\ NReg >= 4
  /\ DataWord \subseteq 0 .. DbgAddr \div BPW - 1
  /\ X \notin Word

----------------------------------------------------------------------------
\* Arithmetic on words.

Trunc(v) == v % M

\* The low l bits of v as a signed number.
SignN(v, l) == LET u == v % 2^l IN IF u >= 2^(l - 1) THEN u - 2^l ELSE u

Signed(v) == SignN(v, W)

\* A word as the set of its one bits, and back.
Bool(b) == IF b THEN 1 ELSE 0

BitsOf  == [v \in Word |-> {k \in 0 .. W - 1 : (v \div 2^k) % 2 = 1}]
Bits(v) == BitsOf[v]

FromBits(S) ==
  LET above[k \in 0 .. W] == IF k = W THEN 0 ELSE Bool(k \in S) + 2 * above[k + 1]
  IN  above[0]

----------------------------------------------------------------------------
\* Instructions, with the fields of their encoding.  The two fields of a bit
\* field instruction are rd (its width less one, or its last bit) and sa.

RType(op, rd, rs, rt)  == [op |-> op, rd |-> rd, rs |-> rs, rt |-> rt, sa |-> 0, imm |-> 0]
Shift(op, rd, rt, sa)  == [op |-> op, rd |-> rd, rs |-> 0, rt |-> rt, sa |-> sa, imm |-> 0]
IType(op, rt, rs, imm) == [op |-> op, rd |-> 0, rs |-> rs, rt |-> rt, sa |-> 0, imm |-> imm % 2^H]

\* What reset leaves.  pc counts instructions, trap is an exception that has been
\* raised and not handled, and log is what the debug memory has shown to the
\* test bench.  Of coprocessor 0 there are the low bits of some registers;
\* Status starts with ERL.
Reset(mem) ==
  [ gpr |-> [r \in Reg |-> 0], hi |-> 0, lo |-> 0, llbit |-> FALSE,
    cop0 |-> [Status |-> 4, Cause |-> 0, EPC |-> 0, LLAddr |-> 0],
    mem |-> mem, pc |-> 0, trap |-> "NONE", log |-> <<>> ]

SetReg(gpr, r, v) == IF r = 0 THEN gpr ELSE [gpr EXCEPT ![r] = v]

\* A word with the bytes in mask taken from another word.
Merge(old, new, mask) ==
  LET bits == UNION {k * ByteBits .. (k + 1) * ByteBits - 1 : k \in mask}
  IN  FromBits((Bits(old) \ bits) \cup (Bits(new) \cap bits))

=============================================================================
