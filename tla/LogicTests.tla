----------------------------- MODULE LogicTests -----------------------------
(***************************************************************************)
(* The test programs of the adder, the logic unit, the shifter and the     *)
(* units beside them: addu, subu, addiu, and, or, xor, nor, andi, ori,     *)
(* xori, lui, the shifts, slt(i)(u), clz, clo, seb, seh, wsbh, ins, ext,   *)
(* movn and movz.                                                          *)
(*                                                                         *)
(* The places of a generator are load (fill the registers), next (call the *)
(* callback), assert (check a chain of registers one by one), mix (random  *)
(* instructions only the simulator judges) and last.                       *)
(***************************************************************************)
EXTENDS TestProgram

VARIABLES idx,     \* the register a chain is at
          val,     \* what the generator believes it, or the next one, holds
          regs     \* the base and the argument register of a chain's asserts

vars  == <<program, idx, val, regs>>
chain == <<idx, val, regs>>

Straight   == {"lui_1", "lui_2", "ori_1", "ori_2", "sll_1", "sll_2", "xori_1", "andi_1"}
Sums       == {"addu", "subu"}
Immediates == {"addiu", "andi_2", "xori_2"}
Chains     == {"and", "or", "xor", "nor"}
ShiftChain == {"srl", "rotr", "sra"}
ShiftLoop  == {"sllv", "srlv", "rotrv", "srav"}
Compares   == {"slt", "sltu", "slti", "sltiu"}
Units      == {"clz", "clo", "seb", "seh", "wsbh"}
BitFields  == {"ins", "ext"}
Moves      == {"movz", "movn"}
Asserting  == Chains \cup ShiftChain \cup ShiftLoop \cup Compares \cup Units \cup Moves
LogicTest  == Asserting \cup Straight \cup Sums \cup Immediates \cup BitFields

OpOf == [ srl |-> "SRL", rotr |-> "ROTR", sra |-> "SRA", sllv |-> "SLLV", srlv |-> "SRLV",
          rotrv |-> "ROTRV", srav |-> "SRAV", slt |-> "SLT", sltu |-> "SLTU",
          slti |-> "SLTI", sltiu |-> "SLTIU", ins |-> "INS", ext |-> "EXT",
          movz |-> "MOVZ", movn |-> "MOVN" ]

Target == [equal |-> test \in Asserting, not_equal |-> FALSE, checked |-> TRUE]

Values == Bound(W) \cup Draw

\* Registers a .. b in order, as a piece of code for each.
Each(a, b, code) == FlattenSeq([k \in 1 .. b - a + 1 |-> code[a + k - 1]])

----------------------------------------------------------------------------
\* The straight-line programs: each register gets a constant of its own.

Rotated(base, x) == ((base * 2^x) % 2^H) + (base \div 2^(H - x))

LastReg == NReg - 1
Pattern(base, i) == Rotated(base, i % H)

lui_1 == Each(1, LastReg, [i \in Reg |-> <<IType("LUI", i, 0, Pattern(5, i))>>])
ori_1 == Each(1, LastReg, [i \in Reg |-> <<IType("ORI", i, IF i < H THEN i - 1 ELSE 0, Pattern(5, i))>>])
ori_2 == Each(1, LastReg, [i \in Reg |-> <<IType("ORI", i, 0, 2^(i % H))>>])
sll_1 ==
  <<IType("ORI", 1, 1, 1)>> \o Each(2, LastReg, [i \in Reg |-> <<Shift("SLL", i, 1, i)>>])
  \o <<Shift("SLL", 1, 1, 0), Shift("SLL", 1, 1, 1)>>
sll_2 ==
  <<IType("ORI", LastReg, LastReg, 2^(H - 4) + 1)>>
  \o Each(1, LastReg, [i \in Reg |-> <<Shift("SLL", i, LastReg, i)>>])
xori_1 == Each(1, LastReg, [i \in Reg |-> <<IType("XORI", i, i - 1, Pattern(3, i))>>])
andi_1 ==
  Each(0, LastReg, [i \in Reg |-> Li(i, M - 1)])
  \o Each(1, LastReg, [i \in Reg |-> <<IType("ANDI", i, i, Pattern(2^H - 6, i))>>])
lui_2(v) == Each(1, LastReg, [i \in Reg |-> <<IType("LUI", i, 0, v[i])>>])

Walks == [ lui_1 |-> lui_1, ori_1 |-> ori_1, ori_2 |-> ori_2, sll_1 |-> sll_1,
           sll_2 |-> sll_2, xori_1 |-> xori_1, andi_1 |-> andi_1 ]

Walk ==
  /\ at = "next"
  /\ \/ test \in DOMAIN Walks /\ Emit(Walks[test])
     \/ /\ test = "lui_2"
        /\ \E v \in [Reg -> {d % 2^H : d \in Draw}] : Emit(lui_2(v))
  /\ Goto("last") /\ UNCHANGED <<calls, chain>>

----------------------------------------------------------------------------
\* addu, subu: one operand of a sum gets a new value.
Sum(op, values) ==
  /\ CallAt("next")
  /\ \E r \in Registers(3, {}), v \in values :
       Emit(Li(r[3], v) \o <<RType(op, r[1], r[2], r[3])>>)
  /\ Goto("next") /\ UNCHANGED chain

addu == test = "addu" /\ Sum("ADDU", Draw)
subu == test = "subu" /\ Sum("SUBU", Values)

\* Every register gets a random word.
LoadAll ==
  /\ at = "load" /\ test \notin Chains
  /\ \E v \in [Reg -> Draw] : Emit(Each(0, NReg - 1, [i \in Reg |-> Li(i, v[i])]))
  /\ Goto(IF test \in BitFields THEN "next" ELSE "mix") /\ UNCHANGED <<calls, chain>>

Immeds == Bound(H) \cup {d % 2^H : d \in Draw}

Immediate(op) ==
  \E r \in Registers(2, {}), v \in Immeds : Emit(<<IType(op, r[1], r[2], v)>>)
Reload == \E r \in OneRegister({}), v \in Draw : Emit(Li(r, v))

addiu  == CallAt("mix") /\ test = "addiu" /\ Immediate("ADDIU") /\ Goto("mix") /\ UNCHANGED chain
xori_2 ==
  /\ CallAt("mix") /\ test = "xori_2"
  /\ Reload \/ Immediate("XORI")
  /\ Goto("mix") /\ UNCHANGED chain
andi_2 ==
  /\ CallAt("mix") /\ test = "andi_2"
  /\ \/ Reload \/ Immediate("ANDI")
     \/ \E r \in OneRegister({}), v \in Bound(H) : Emit(<<IType("ANDI", r, r, v)>>)
  /\ Goto("mix") /\ UNCHANGED chain

----------------------------------------------------------------------------
\* and, or, xor, nor: register i starts as a pattern with one or two special
\* bits, takes in register i - 1, and must then be a pattern again.

Inverted(v) == M - 1 - v

chain_and == [ op |-> "AND", start |-> [i \in Reg |-> M - 1 - 2^i],
               want |-> [i \in Reg |-> (((M - 2) * 2^i) % M) + 1],
               first |-> 3, last |-> NReg - 1 ]
chain_or  == [ op |-> "OR", start |-> [i \in Reg |-> 2^i],
               want |-> [i \in Reg |-> 2^(i + 1) - 2], first |-> 1, last |-> NReg - 3 ]
chain_xor == [ op |-> "XOR", start |-> [i \in Reg |-> (3 * 2^i) \div 2],
               want |-> [i \in Reg |-> 2^i + 1], first |-> 1, last |-> NReg - 3 ]

\* nor accumulates in Python what a register must hold.
chain_nor ==
  LET start == [i \in Reg |-> (3 * 2^i) \div 2]
      nor[i \in Reg] ==
        IF i <= 1 THEN start[i]
        ELSE Inverted(FromBits(Bits(start[i]) \cup Bits(nor[i - 1])))
  IN  [ op |-> "NOR", start |-> start, want |-> nor, first |-> 2, last |-> NReg - 3 ]

Chain == [and |-> chain_and, or |-> chain_or, xor |-> chain_xor, nor |-> chain_nor][test]

LoadChain ==
  /\ at = "load" /\ test \in Chains
  /\ Emit(Each(1, LastReg, [i \in Reg |-> Li(i, Chain.start[i])])
          \o Each(2, LastReg, [i \in Reg |-> <<RType(Chain.op, i, i, i - 1)>>]))
  /\ regs' \in CASE test = "and" -> {<<1, 2>>}
                 [] test = "or"  -> {<<NReg - 2, NReg - 1>>}
                 [] OTHER        -> Registers(2, {})
  /\ idx' = Chain.first /\ Goto("assert") /\ UNCHANGED <<calls, val>>

\* The registers the asserts themselves use cannot be asserted.
AssertChain ==
  /\ at = "assert" /\ idx <= Chain.last
  /\ Emit(IF idx \in ToSet(regs) THEN <<>> ELSE AssertEqual(idx, Chain.want[idx], regs))
  /\ idx' = idx + 1 /\ Goto("assert") /\ UNCHANGED <<calls, val, regs>>

ReloadChain ==
  /\ at = "assert" /\ idx > Chain.last
  /\ IF test = "and" THEN Emit(<<>>) /\ Goto("last")
     ELSE /\ \E v \in [Reg -> Draw] : Emit(Each(0, LastReg, [i \in Reg |-> Li(i, v[i])]))
          /\ Goto("mix")
  /\ idx' = 0 /\ regs' = <<0, 0>> /\ UNCHANGED <<calls, val>>

\* Random instructions: three operations of a pair of new values, or, after the
\* shifts, three sums and a shift.
AnyThree(op) == \E r \in Registers(3, {}) : Emit(<<RType(op, r[1], r[2], r[3])>>)

MixChain ==
  /\ CallAt("mix") /\ test \in Chains \ {"and"}
  /\ \/ \E r \in Registers(2, {}), v1, v2 \in Draw : Emit(Li(r[1], v1) \o Li(r[2], v2))
     \/ AnyThree(Chain.op)
  /\ Goto("mix") /\ UNCHANGED chain

MixShift ==
  /\ CallAt("mix") /\ test \in ShiftLoop
  /\ AnyThree("ADDU") \/ AnyThree(OpOf[test])
  /\ Goto("mix") /\ UNCHANGED chain

----------------------------------------------------------------------------
\* The shifts, on Python's unbounded integers.
logic_calculate(cmd, val1, val2) ==
  CASE cmd \in {"srl", "srlv"}   -> val1 \div 2^val2
    [] cmd \in {"rotr", "rotrv"} -> (val1 \div 2^val2) + (val1 % 2^val2) * 2^(W - val2)
    [] cmd \in {"sra", "srav"}   -> (SignN(val1, W) \div 2^val2) % M

\* srl, rotr, sra: each register is the one before it, shifted.  A value that
\* has become zero is replaced.
ShiftOne ==
  /\ CallAt("next") /\ test \in ShiftChain
  /\ LET i == IF idx = 0 THEN 1 ELSE idx
         v == IF idx = 0 THEN 2^(W - 1) ELSE val
         next_idx == IF i + 1 >= NReg THEN 1 ELSE i + 1
         before == IF idx = 0 THEN Li(i, v) ELSE <<>>
     IN  \E c \in 0 .. W - 1, s \in SysRegisters(EqualArgs(next_idx, 0)) :
           LET next_val == logic_calculate(test, v, c)
               code == before \o <<Shift(OpOf[test], next_idx, i, c)>>
                       \o AssertEqual(next_idx, next_val, s)
           IN  /\ idx' = next_idx
               /\ IF next_val = 0
                  THEN \E fresh \in Values \ {0} :
                         Emit(code \o Li(next_idx, fresh)) /\ val' = fresh
                  ELSE Emit(code) /\ val' = next_val
  /\ Goto("next") /\ UNCHANGED regs

\* sllv, srlv, rotrv, srav: shift one value by what each register holds.
\* $1 has the value and $i the amount, and the shift overwrites the amount.
ShiftVariable ==
  /\ CallAt("next") /\ test \in ShiftLoop \ {"sllv"}
  /\ \E shift_base, base_value \in Values, i \in Reg \ {0, 1} :
       \E s \in SysRegisters(EqualArgs(i, 0)) :
         Emit(Li(1, shift_base) \o Li(i, base_value + i)
              \o <<RType(OpOf[test], i, i, 1)>>
              \o AssertEqual(i, logic_calculate(test, shift_base, (base_value + i) % W), s))
  /\ Goto("next") \/ Goto("mix")
  /\ UNCHANGED chain

sllv ==
  /\ CallAt("next") /\ test = "sllv"
  /\ \E shift_base, base_value \in Values, i \in Reg \ {0, 1} :
       \E s \in SysRegisters(EqualArgs(i, 0)) :
         Emit(Li(1, shift_base) \o Li(i, base_value + i) \o <<RType("SLLV", i, i, 1)>>
              \o AssertEqual(i, Trunc(shift_base * 2^((base_value + i) % W)), s))
  /\ Goto("next") \/ Goto("mix")
  /\ UNCHANGED chain

----------------------------------------------------------------------------
\* slt, sltu: the operands and the result are three registers.
Compare ==
  /\ CallAt("next") /\ test \in {"slt", "sltu"}
  /\ \E r \in Registers(3, {}), v1, v2 \in Values :
       LET less == IF test = "slt" THEN SignN(v1, W) < SignN(v2, W) ELSE v1 < v2
       IN  \E s \in SysRegisters(EqualArgs(r[3], 0)) :
             Emit(Li(r[1], v1) \o Li(r[2], v2) \o <<RType(OpOf[test], r[3], r[1], r[2])>>
                  \o AssertEqual(r[3], Bool(less), s))
  /\ Goto("next") /\ UNCHANGED chain

\* Mutant: the immediate of sltiu is not sign-extended.
cmp_sltiuZeroExtended(reg_val, immed) == reg_val < immed % 2^H

cmp_slti(reg_val, immed)  == SignN(reg_val, W) < SignN(immed, H)
cmp_sltiu(reg_val, immed) == SignN(reg_val, W) % M < SignN(immed, H) % M

CompareImmediate ==
  /\ CallAt("next") /\ test \in {"slti", "sltiu"}
  /\ \E r \in Registers(2, {}), v \in Values, immed \in BoundSigned(H) :
       \E s \in SysRegisters(EqualArgs(r[2], 0)) :
         Emit(Li(r[1], v) \o <<IType(OpOf[test], r[2], r[1], immed)>>
              \o AssertEqual(r[2], Bool(IF test = "slti" THEN cmp_slti(v, immed)
                                         ELSE cmp_sltiu(v, immed)), s))
  /\ Goto("next") /\ UNCHANGED chain

\* The place of the first digit b in the binary form of v, W when it has none.
DigitIndex(v, b) ==
  LET places == {j \in 0 .. W - 1 : (v \div 2^(W - 1 - j)) % 2 = b}
  IN  IF places = {} THEN W ELSE Min(places)

\* seb, seh: copy the sign above, or clear.
Extended(v, bits) ==
  LET low == v % 2^bits
  IN  IF low >= 2^(bits - 1) THEN low + (M - 2^bits) ELSE low

\* The two masks of wsbh are the odd and the even bytes.
BytesSwapped(v) ==
  LET byte(k) == (v \div 2^(ByteBits * k)) % 2^ByteBits
  IN  byte(1) + byte(0) * 2^ByteBits + byte(3) * 2^(2 * ByteBits) + byte(2) * 2^(3 * ByteBits)

\* One register, with a value, into another.
Unary(op, operands, values, want) ==
  /\ CallAt("next")
  /\ \E o \in operands, v \in values :
       LET value == IF o.reg = 0 THEN 0 ELSE v
       IN  \E s \in SysRegisters(EqualArgs(o.rd, 0)) :
             Emit(Li(o.reg, value) \o <<RType(op, o.rd, o.rs, o.rt)>>
                  \o AssertEqual(o.rd, want[value], s))
  /\ Goto("next") /\ UNCHANGED chain

FromRs == {[reg |-> a, rd |-> d, rs |-> a, rt |-> 0] : a \in Reg, d \in OneRegister({})}
FromRt == UNION {{[reg |-> a, rd |-> d, rs |-> 0, rt |-> a] : d \in OneRegister({a})} : a \in Reg}

\* A leading one, or zero, at every place.
clz == /\ test = "clz"
       /\ Unary("CLZ", FromRs, Values \cup {2^(W - 1) \div 2^i : i \in 0 .. W},
                [v \in Word |-> DigitIndex(v, 1)])
clo == /\ test = "clo"
       /\ Unary("CLO", FromRs, Values \cup {(M - 2^i) % M : i \in 0 .. W},
                [v \in Word |-> DigitIndex(v, 0)])
seb_seh ==
  LET values == Bound(ByteBits) \cup Draw
  IN  \/ test = "seb" /\ Unary("SEB", FromRt, values, [v \in Word |-> Extended(v, ByteBits)])
      \/ test = "seh" /\ Unary("SEH", FromRt, values, [v \in Word |-> Extended(v, H)])
wsbh == test = "wsbh" /\ Unary("WSBH", FromRt, Values, [v \in Word |-> BytesSwapped(v)])

\* ins, ext: a field of one register, which a sum then spreads.
BitField ==
  /\ CallAt("next") /\ test \in BitFields
  /\ \E msb \in 0 .. W - 1, r \in Registers(2, {}) : \E lsb \in 0 .. msb :
       /\ Emit(<<[op |-> OpOf[test], rs |-> r[2], rt |-> r[1], imm |-> 0, sa |-> lsb,
                  rd |-> IF test = "ins" THEN msb ELSE msb - lsb]>>)
       /\ idx' = r[1]
  /\ Goto("add") /\ UNCHANGED <<val, regs>>

AddField ==
  /\ at = "add"
  /\ \E r \in Registers(2, {}) : Emit(<<RType("ADDU", r[1], idx, r[2])>>)
  /\ idx' = 0 /\ Goto("next") /\ UNCHANGED <<calls, val, regs>>

\* movz, movn: the destination may be the source and then the source changes.
MoveIf ==
  /\ CallAt("next") /\ test \in Moves
  /\ \E r \in Registers(2, {}), value, condition \in Values, rd_value \in Draw :
       \E rd \in OneRegister({r[2]}) :
         LET moves == (test = "movz") = (condition = 0)
             moved == IF rd = r[1] THEN rd_value ELSE value
         IN  \E s \in SysRegisters(EqualArgs(rd, 0)) :
               Emit(Li(r[1], value) \o Li(r[2], condition) \o Li(rd, rd_value)
                    \o <<RType(OpOf[test], rd, r[1], r[2])>>
                    \o AssertEqual(rd, IF moves THEN moved ELSE rd_value, s))
  /\ Goto("next") /\ UNCHANGED chain

----------------------------------------------------------------------------

Init ==
  /\ Start([t \in LogicTest |->
              IF t \in Chains \cup Immediates \cup BitFields THEN "load" ELSE "next"],
           Leftover, NoData)
  /\ idx = 0 /\ val = 0 /\ regs = <<0, 0>>

CheckAndEnd == Finish /\ UNCHANGED chain

Run == RunPiece(Target) /\ UNCHANGED chain

Next ==
  \/ Walk \/ addu \/ subu \/ LoadAll \/ addiu \/ xori_2 \/ andi_2
  \/ LoadChain \/ AssertChain \/ ReloadChain \/ MixChain
  \/ ShiftOne \/ ShiftVariable \/ sllv \/ MixShift \/ Compare \/ CompareImmediate
  \/ clz \/ clo \/ seb_seh \/ wsbh \/ BitField \/ AddField \/ MoveIf \/ CheckAndEnd \/ Run

Spec == Init /\ [][Next]_vars

----------------------------------------------------------------------------

TypeOK ==
  /\ ProgramOK /\ at \in {"run", "load", "next", "assert", "mix", "add", "last", "done"}
  /\ idx \in 0 .. NReg /\ val \in Word /\ Len(regs) = 2 /\ Range(regs) \subseteq Reg

\* Along srl, rotr and sra the generator's own copy of the register the chain
\* is at is what the processor has there, and it is never left at zero, from
\* where no shift would show anything.
ChainTracked ==
  at = "next" /\ test \in ShiftChain /\ idx # 0 => cpu.gpr[idx] = val /\ val # 0

=============================================================================
