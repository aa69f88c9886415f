----------------------------- MODULE ArithTests -----------------------------
(***************************************************************************)
(* The test programs of the multiplier, the divider and hi and lo: mult,   *)
(* multu, mul, div, divu, madd, maddu, msub, msubu, mthi_mfhi, mtlo_mflo.  *)
(*                                                                         *)
(* Each generator repeats a callback that loads two operands, executes the *)
(* instruction and asserts both halves of the result it computed itself.   *)
(* The accumulating ones carry the value of hi and lo in prev_value from   *)
(* one callback to the next.                                               *)
(***************************************************************************)
EXTENDS TestProgram

VARIABLES prev,    \* prev_value, of the accumulating tests
          want,    \* the result the callback expects, as an integer
          spare    \* the second register drawn to retrieve the result

vars == <<program, prev, want, spare>>

Accumulate == {"madd", "maddu", "msub", "msubu"}
Divide     == {"div", "divu"}
MoveHiLo   == {"mthi_mfhi", "mtlo_mflo"}
ArithTest  == {"mult", "multu", "mul"} \cup Accumulate \cup Divide \cup MoveHiLo

\* All of these targets ask for assert_equal and a register check.
Target == [equal |-> TRUE, not_equal |-> FALSE, checked |-> TRUE]

----------------------------------------------------------------------------
\* The results the generators compute, on Python's unbounded integers.

PyAbs(v) == IF v < 0 THEN -v ELSE v

\* div: C-style quotient and remainder of the signed operands, as hi and lo.
SignedDivision(v1, v2) ==
  LET s1 == SignN(v1, W)
      s2 == SignN(v2, W)
      quotient  == PyAbs(s1) \div PyAbs(s2)
      remainder == PyAbs(s1) % PyAbs(s2)
  IN  Trunc(IF s1 < 0 THEN -remainder ELSE remainder) * M
      + Trunc(IF (s1 < 0) # (s2 < 0) THEN -quotient ELSE quotient)

SignedProduct(a, b) == SignN(a, W) * SignN(b, W)

\* The value a callback returns to be prev_value.
Returned(t, value) == IF t \in {"maddu", "msubu"} THEN value % (M * M) ELSE value

\* Mutant: the first operand stays what it was drawn to be.
FirstOfAlways(r1, v1, r2, v2) == IF r1 = 0 THEN 0 ELSE v1

\* The operands drawn for a pair of registers.  $0 stays 0, and a register that
\* is both operands holds the second value.
FirstOf(r1, v1, r2, v2)  == IF r1 = r2 /\ r2 # 0 THEN v2 ELSE IF r1 = 0 THEN 0 ELSE v1
SecondOf(r2, v2)         == IF r2 = 0 THEN 0 ELSE v2

Values == Bound(W) \cup Draw

----------------------------------------------------------------------------

Init ==
  /\ Start([t \in ArithTest |-> "next"], Leftover, NoData)
  /\ prev = 0 /\ want = 0 /\ spare = 0

\* gen_assert_one up to the instruction, op, and the result it must have.
Operate(op, seconds, result) ==
  /\ CallAt("next")
  /\ \E r1, r2 \in Reg, v1 \in Values, v2 \in seconds :
       LET a == FirstOf(r1, v1, r2, v2)
           b == SecondOf(r2, v2)
       IN  /\ test \in Divide => b # 0      \* which is skipped
           /\ Emit(Li(r1, a) \o Li(r2, b) \o <<RType(op, 0, r1, r2)>>)
           /\ want' = result[a, b]
  /\ Goto("hi") /\ UNCHANGED <<prev, spare>>

mult  == test = "mult"  /\ Operate("MULT", Draw, [a, b \in Word |-> SignedProduct(a, b)])
multu == test = "multu" /\ Operate("MULTU", Draw, [a, b \in Word |-> a * b])
div   == test = "div"   /\ Operate("DIV", Draw, [a, b \in Word |-> SignedDivision(a, b)])
divu  == test = "divu"  /\ Operate("DIVU", Draw, [a, b \in Word |-> (a % b) * M + a \div b])

madd  == /\ test = "madd"
         /\ Operate("MADD", Values, [a, b \in Word |-> SignN(prev + SignedProduct(a, b), 2 * W)])
msub  == /\ test = "msub"
         /\ Operate("MSUB", Values, [a, b \in Word |-> SignN(prev - SignedProduct(a, b), 2 * W)])
maddu == test = "maddu" /\ Operate("MADDU", Values, [a, b \in Word |-> prev + a * b])
msubu == test = "msubu" /\ Operate("MSUBU", Values, [a, b \in Word |-> prev - a * b])

\* Retrieve hi into one register and lo into another, and assert each.
RetrieveHi ==
  /\ at = "hi"
  /\ \E r \in Registers(2, {}) :
       /\ \E regs \in SysRegisters(EqualArgs(r[1], 0)) :
            Emit(<<RType("MFHI", r[1], 0, 0)>>
                 \o AssertEqual(r[1], (want \div M) % M, regs))
       /\ spare' = r[2]
  /\ Goto("lo") /\ UNCHANGED <<calls, prev, want>>

RetrieveLo ==
  /\ at = "lo"
  /\ \E regs \in SysRegisters(EqualArgs(spare, 0)) :
       Emit(<<RType("MFLO", spare, 0, 0)>> \o AssertEqual(spare, want % M, regs))
  /\ prev' = IF test \in Accumulate THEN Returned(test, want) ELSE prev
  /\ Goto("next") /\ want' = 0 /\ spare' = 0 /\ UNCHANGED calls

\* mul has its result in a register.
mul ==
  /\ CallAt("next") /\ test = "mul"
  /\ \E r1, r2 \in Reg, v1, v2 \in Values, rd \in OneRegister({}) :
       LET a == FirstOf(r1, v1, r2, v2)
           b == SecondOf(r2, v2)
       IN  \E regs \in SysRegisters(EqualArgs(rd, 0)) :
             Emit(Li(r1, a) \o Li(r2, b) \o <<RType("MUL", rd, r1, r2)>>
                  \o AssertEqual(rd, SignedProduct(a, b) % M, regs))
  /\ Goto("next") /\ UNCHANGED <<prev, want, spare>>

MoveTo   == IF test = "mthi_mfhi" THEN "MTHI" ELSE "MTLO"
MoveFrom == IF test = "mthi_mfhi" THEN "MFHI" ELSE "MFLO"

\* Move a value to hi or lo, and back into a register.
MoveBothWays ==
  /\ CallAt("next") /\ test \in MoveHiLo
  /\ \E r \in Reg, v \in Values, back \in OneRegister({}) :
       \E regs \in SysRegisters(EqualArgs(back, 0)) :
         Emit(Li(r, v) \o <<RType(MoveTo, 0, r, 0), RType(MoveFrom, back, 0, 0)>>
              \o AssertEqual(back, IF r = 0 THEN 0 ELSE v, regs))
  /\ Goto("next") /\ UNCHANGED <<prev, want, spare>>

\* Then a random mix of loads, sums and moves, which only the simulator judges.
MoveAtRandom ==
  /\ test \in MoveHiLo /\ calls > 0
  /\ CallAt("next") \/ CallAt("mix")
  /\ \/ \E r \in OneRegister({}), v \in Draw : Emit(Li(r, v))
     \/ \E r \in Registers(3, {}) : Emit(<<RType("ADDU", r[1], r[2], r[3])>>)
     \/ \E r \in OneRegister({}) : Emit(<<RType(MoveTo, 0, r, 0)>>)
     \/ \E r \in OneRegister({}) : Emit(<<RType(MoveFrom, r, 0, 0)>>)
  /\ Goto("mix") /\ UNCHANGED <<prev, want, spare>>

CheckAndEnd == Finish /\ UNCHANGED <<prev, want, spare>>

Run == RunPiece(Target) /\ UNCHANGED <<prev, want, spare>>

Next ==
  \/ mult \/ multu \/ mul \/ div \/ divu
  \/ madd \/ maddu \/ msub \/ msubu
  \/ RetrieveHi \/ RetrieveLo
  \/ MoveBothWays \/ MoveAtRandom \/ CheckAndEnd \/ Run

Spec == Init /\ [][Next]_vars

----------------------------------------------------------------------------

TypeOK ==
  /\ ProgramOK /\ at \in {"run", "next", "hi", "lo", "mix", "done"} /\ spare \in Reg
  /\ prev \in -(M * M) .. M * M /\ want \in -(M * M) .. 2 * M * M

\* Between two callbacks of an accumulating test the prev_value that the
\* generator carries along is hi and lo of the processor, although the one is
\* signed or not as the callback chose and the other is two registers.
AccumulatorTracked ==
  at = "next" /\ test \in Accumulate => prev % (M * M) = cpu.hi * M + cpu.lo

=============================================================================
