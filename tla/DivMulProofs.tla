---------------------------- MODULE DivMulProofs ----------------------------
(***************************************************************************)
(* The type invariant of DivMul, the invariant of its loops, and that      *)
(* DivMul implements MulDivUnit: whatever the width of a word, what the    *)
(* unit holds out is the product, the sum, the difference or the quotient  *)
(* and the remainder of the request that is in the execute stage.          *)
(***************************************************************************)
EXTENDS DivMul, BinaryLemmas

\* Half of the range of a word.
Half == 2^(W-1)

\* The states of the loops, and those that lead to them.
LoopStates == {"MUL", "DIV"}
AbsStates  == {"MAKE_ABS_A", "MAKE_ABS_B"}

----------------------------------------------------------------------------
\* Words.

\* A word has a positive number of bits.
LEMMA WidthType == W \in Nat /\ W >= 1
  BY WidthAssumption

\* Half of the words have their first bit set.
LEMMA WordSize == Half \in Nat \ {0} /\ M = 2 * Half
<1>1. W - 1 \in Nat /\ (W - 1) + 1 = W
  BY WidthType
<1>2. Half \in Nat \ {0}
  BY <1>1, PowerOfTwo DEF Half
<1>3. 2^((W - 1) + 1) = 2 * Half
  BY <1>1, NextPower DEF Half
<1>. QED  BY <1>1, <1>2, <1>3, Zenon DEF M

\* Words are natural numbers.
LEMMA WordType == 0 \in Word /\ Word \subseteq Nat
  BY WordSize DEF Word

\* A sum is cut to a word, and has a carry when it does not fit one.
LEMMA CutType == \A s \in Nat : s % M \in Word
<1> TAKE s \in Nat
<1>1. M \in Nat \ {0}
  BY WordSize
<1>2. PICK q \in Nat, r \in 0 .. M-1 : s = M * q + r /\ s \div M = q /\ s % M = r
  BY <1>1, Division, Zenon
<1>. QED  BY <1>2 DEF Word

\* What cutting a sum of two words to a word leaves.
LEMMA CutOnce == \A s \in 0 .. 2 * M - 1 : s % M = IF s >= M THEN s - M ELSE s
<1> TAKE s \in 0 .. 2 * M - 1
<1>1. M \in Nat \ {0} /\ s \in Nat
  BY WordSize
<1>2. CASE s >= M
  <2> DEFINE r == s - M
  <2>1. r \in 0 .. M-1 /\ 1 \in Int /\ s = M * 1 + r
    BY <1>1, <1>2
  <2>2. s % M = r
    <3> HIDE DEF r
    <3>. QED  BY <1>1, <2>1, Quotient
  <2>. QED  BY <1>2, <2>2
<1>3. CASE ~(s >= M)
  <2>1. s \in 0 .. M-1 /\ 0 \in Int /\ s = M * 0 + s
    BY <1>1, <1>3
  <2>2. s % M = s
    BY <1>1, <2>1, Quotient
  <2>. QED  BY <1>3, <2>2
<1>. QED  BY <1>2, <1>3

\* The complement of a word is a word.
LEMMA NotType == \A x \in Word : Not(x) \in Word
  BY WordSize DEF Not, Word

\* A word that is shifted left is even, and has room for a bit.
LEMMA ShiftLeftType ==
  \A x \in Word : (2 * x) % M = 2 * (x % Half) /\ (2 * x) % M \in 0 .. M - 2
<1> TAKE x \in Word
<1>1. x \in Nat /\ 2 * x \in Nat /\ M \in Nat \ {0} /\ Half \in Nat \ {0} /\ M = 2 * Half
  BY WordSize, WordType
<1>2. PICK q \in Nat, r \in 0 .. Half-1 : x = Half * q + r /\ x \div Half = q /\ x % Half = r
  BY <1>1, Division, Zenon
<1>3. 2 * x = M * q + 2 * r /\ 2 * r \in 0 .. M - 1 /\ 2 * r \in 0 .. M - 2 /\ q \in Int
  BY <1>1, <1>2
<1>4. (2 * x) % M = 2 * r
  <2> DEFINE y == 2 * x
             t == 2 * r
  <2>1. y \in Nat /\ t \in 0 .. M - 1 /\ y = M * q + t /\ q \in Int
    BY <1>1, <1>3
  <2>2. y % M = t
    <3> HIDE DEF y, t
    <3>. QED  BY <1>1, <2>1, Quotient
  <2>. QED  BY <2>2
<1>. QED  BY <1>2, <1>3, <1>4

----------------------------------------------------------------------------
\* The operands.

\* The operands and what the unit takes them for are words.
LEMMA OperandType ==
  ASSUME TypeOK
  PROVE  req.a \in Word /\ req.b \in Word /\ req.hi \in Word /\ req.lo \in Word
         /\ AbsA \in Word /\ AbsB \in Word
  BY DEF TypeOK, Request, AbsA, AbsB

\* One bit of the first operand is used in a tick.
LEMMA IterType ==
  ASSUME TypeOK
  PROVE  AIter \in {0, 1}
<1> DEFINE i == IF mul THEN tick ELSE W - 1 - tick
           p == 2^i
           x == AbsA
           q == x \div p
<1>1. i \in Nat
  BY WidthType DEF TypeOK
<1>2. p \in Nat \ {0}
  <2> HIDE DEF i
  <2>. QED  BY <1>1, PowerOfTwo
<1>3. x \in Nat
  BY OperandType, WordType
<1>4. q \in Nat
  <2> HIDE DEF p, x
  <2>. QED  BY <1>2, <1>3, Division
<1>5. q % 2 \in {0, 1}
  <2> HIDE DEF q
  <2>. QED  BY <1>4
<1>6. AIter = q % 2
  BY DEF AIter, BitOf
<1>. QED  BY <1>5, <1>6

----------------------------------------------------------------------------
\* The adder.

\* What the adder adds is never negative.
LEMMA SumType ==
  ASSUME TypeOK, state \notin {"WAIT", "STORAGE"}
  PROVE  Sum \in Nat
<1>1. /\ thi \in Nat /\ tlo \in Nat /\ req.hi \in Nat /\ req.lo \in Nat /\ AbsB \in Word
      /\ AbsB \in Nat /\ AIter \in Nat
      /\ \A x \in {thi, tlo, req.a, req.b, AbsB} : Not(x) \in Nat
  <2>1. \A x \in {thi, tlo, req.a, req.b, AbsB} : x \in Word
    BY OperandType DEF TypeOK
  <2>2. \A x \in {thi, tlo, req.a, req.b, AbsB} : Not(x) \in Word
    BY <2>1, NotType
  <2>3. AIter \in {0, 1}
    BY IterType
  <2>4. req.hi \in Word /\ req.lo \in Word
    BY OperandType
  <2>5. AIter \in Nat
    BY <2>3
  <2>6. \A x \in {thi, tlo, req.a, req.b, AbsB} : Not(x) \in Nat
    BY <2>2, WordType, Zenon
  <2>7. thi \in Word /\ tlo \in Word /\ AbsB \in Word
    BY <2>1
  <2>. QED  BY <2>4, <2>5, <2>6, <2>7, WordType, Zenon
<1>2. Bit(carry) \in Nat
  BY DEF Bit
<1>3. CASE state = "MUL"
  <2>1. Sum = thi + AIter * AbsB
    BY <1>3 DEF Sum
  <2>. QED  BY <1>1, <2>1
<1>4. CASE state = "DIV"
  <2>1. Sum = ((2 * thi) % M) + AIter + Not(AbsB) + 1
    BY <1>4 DEF Sum
  <2>2. (2 * thi) % M \in Nat
    BY ShiftLeftType, WordSize DEF TypeOK
  <2>. QED  BY <1>1, <2>1, <2>2
<1>5. CASE state \notin {"MUL", "DIV"}
  BY <1>1, <1>2, <1>5 DEF Sum, TypeOK, State
<1>. QED  BY <1>3, <1>4, <1>5

\* A bit of the first operand times the second, added to the accumulator.
LEMMA ProductSum ==
  ASSUME TypeOK, state = "MUL"
  PROVE  Sum = thi + AIter * AbsB /\ Sum \in 0 .. 2 * M - 2
<1>1. thi \in 0 .. M - 1 /\ AbsB \in 0 .. M - 1 /\ AIter \in {0, 1} /\ M \in Nat
  BY OperandType, IterType, WordSize DEF TypeOK, Word
<1>2. Sum = thi + AIter * AbsB
  BY DEF Sum
<1>. QED  BY <1>1, <1>2

\* The accumulators are shifted right through the carry.
LEMMA ShiftRight ==
  ASSUME NEW s \in 0 .. 2 * M - 1
  PROVE  /\ Bit(s >= M) * (M \div 2) + ((s % M) \div 2) = s \div 2
         /\ (s % M) % 2 = s % 2
         /\ s \div 2 \in Word
<1>1. Half \in Nat \ {0} /\ M = 2 * Half /\ M \div 2 = Half
  BY WordSize
<1>2. s % M = IF s >= M THEN s - M ELSE s
  BY CutOnce
<1>3. CASE s >= M
  <2>1. s % M = s - 2 * Half
    BY <1>1, <1>2, <1>3
  <2>2. (s - 2 * Half) \div 2 = (s \div 2) - Half /\ (s - 2 * Half) % 2 = s % 2
    BY <1>1
  <2>3. s \div 2 \in Word
    BY <1>1 DEF Word
  <2>. QED  BY <1>1, <1>3, <2>1, <2>2, <2>3 DEF Bit
<1>4. CASE ~(s >= M)
  <2>1. s \div 2 \in Word
    BY <1>1, <1>4 DEF Word
  <2>. QED  BY <1>1, <1>2, <1>4, <2>1 DEF Bit
<1>. QED  BY <1>3, <1>4

----------------------------------------------------------------------------
\* Types.

\* The registers of the data path, whatever the state machine does.
LEMMA DataType ==
  ASSUME TypeOK, DataPath
  PROVE  /\ thi' \in Word /\ tlo' \in Word /\ a_neg' \in Word /\ b_neg' \in Word
         /\ tick' \in 0 .. W - 1 /\ carry' \in BOOLEAN
<1>1. state \notin {"WAIT", "STORAGE"} => alu_out \in Word
  BY SumType, CutType DEF alu_out
<1>2. cout \in BOOLEAN
  BY DEF cout
<1>3. tick' \in 0 .. W - 1
  BY WidthAssumption DEF DataPath, Tick, TypeOK
<1>4. carry' \in BOOLEAN
  BY <1>2 DEF DataPath, Carry
<1>5. a_neg' \in Word /\ b_neg' \in Word
  BY <1>1 DEF DataPath, Negated, TypeOK
<1>6. thi' \in Word
  <2>1. CASE state = "MUL"
    <3>1. thi' = Bit(Sum >= M) * (M \div 2) + ((Sum % M) \div 2)
      BY <2>1 DEF DataPath, High, alu_out, cout
    <3>2. Sum \in 0 .. 2 * M - 1
      BY <2>1, ProductSum, WordSize
    <3>. QED  BY <3>1, <3>2, ShiftRight
  <2>2. CASE state = "DIV"
    <3>1. ((2 * thi) % M) + AIter \in Word
      <4>1. (2 * thi) % M \in 0 .. M - 2
        BY ShiftLeftType DEF TypeOK
      <4>2. AIter \in {0, 1} /\ M \in Nat
        BY IterType, WordSize
      <4>. QED  BY <4>1, <4>2 DEF Word
    <3>. QED  BY <1>1, <2>2, <3>1 DEF DataPath, High
  <2>3. CASE state \notin {"MUL", "DIV"}
    BY <1>1, <2>3, WordType DEF DataPath, High, TypeOK
  <2>. QED  BY <2>1, <2>2, <2>3
<1>7. tlo' \in Word
  <2>1. CASE state = "MUL"
    <3> DEFINE b == alu_out % 2
               l == tlo \div 2
               h == M \div 2
    <3>1. alu_out \in Nat /\ Half \in Nat \ {0} /\ M = 2 * Half /\ tlo \in 0 .. M - 1
      BY <1>1, <2>1, WordType, WordSize DEF TypeOK, Word
    <3>2. b \in {0, 1} /\ l \in 0 .. Half - 1 /\ h = Half
      <4> HIDE DEF alu_out
      <4>. QED  BY <3>1
    <3>3. tlo' = b * h + l
      BY <2>1 DEF DataPath, Low
    <3> HIDE DEF b, l, h
    <3>4. b * h + l \in 0 .. M - 1
      BY <3>1, <3>2
    <3>. QED  BY <3>3, <3>4 DEF Word
  <2>2. CASE state = "DIV"
    <3>1. tlo' = ((2 * tlo) % M) + Bit(cout)
      BY <2>2 DEF DataPath, Low
    <3>2. (2 * tlo) % M \in 0 .. M - 2 /\ Bit(cout) \in {0, 1} /\ M \in Nat
      BY <1>2, ShiftLeftType, WordSize DEF TypeOK, Bit
    <3>. QED  BY <3>1, <3>2 DEF Word
  <2>3. CASE state \notin {"MUL", "DIV"}
    BY <1>1, <2>3, JunkAssumption DEF DataPath, Low, TypeOK
  <2>. QED  BY <2>1, <2>2, <2>3
<1>. QED  BY <1>3, <1>4, <1>5, <1>6, <1>7

\* Whatever request comes next is a request.
LEMMA RequestType == NoRequest \in Request /\ Following \subseteq Request
  BY RequestAssumption, WordType DEF NoRequest, Request

\* The state machine stays among its states.
LEMMA NextStateType ==
  ASSUME TypeOK, NEW stall \in BOOLEAN
  PROVE  next_state(stall) \in State
<1> USE DEF State
<1>1. Released(stall) \in State /\ Accumulate \in State /\ Compute \in State
  BY DEF Released, Accumulate, Compute
<1>. QED  BY <1>1 DEF next_state, TypeOK

\* The first state.
LEMMA InitType == Init => TypeOK
  BY WidthType, RequestAssumption, JunkAssumption DEF Init, TypeOK, State

\* A step, of the clock or of a nullified stage.
LEMMA StepType == TypeOK /\ [Next]_vars => TypeOK'
<1> SUFFICES ASSUME TypeOK, [Next]_vars
             PROVE  TypeOK'
  OBVIOUS
<1>1. ASSUME NEW busy \in BOOLEAN, Clock(busy)
      PROVE  TypeOK'
  <2>1. state' \in State
    BY <1>1, NextStateType DEF Clock, waiting_result
  <2>2. req' \in Request
    BY <1>1, RequestType DEF Clock, TypeOK
  <2>3. DataPath
    BY <1>1 DEF Clock
  <2>. QED  BY <2>1, <2>2, <2>3, DataType DEF TypeOK
<1>2. ASSUME Clear
      PROVE  TypeOK'
  BY <1>2, RequestType, DataType DEF Clear, TypeOK, State
<1>3. CASE UNCHANGED vars
  BY <1>3 DEF vars, data, TypeOK
<1>. QED  BY <1>1, <1>2, <1>3 DEF Next, ClockEdge

\* Every register stays in the width of a word (div_mul.sv:37-46).
THEOREM TypeCorrect == Spec => []TypeOK
  BY InitType, StepType, PTL DEF Spec

----------------------------------------------------------------------------
\* The loops.

\* The state machine is in the loop of the operation of the request.
Route ==
  /\ state = "MUL" => mul
  /\ state = "DIV" => div
  /\ state \in AbsStates => mul \/ div

\* The bits that are done and those that are left make a word.
Bits == state \in LoopStates => 2^tick * 2^(W - tick) = M

\* The inductive invariant.
LoopIInv == TypeOK /\ Route /\ Bits /\ LoopInvariant

\* An operation is not both.
LEMMA OperationType == mul => ~div
  BY DEF mul, div, MulOps, DivOps

\* Operands have a sign only in a multiplication and in a division.
LEMMA NegativeIsOperation == (NegativeA \/ NegativeB) => (mul \/ div)
  BY DEF NegativeA, NegativeB, using_sign, mul, div, MulOps, DivOps

\* While it computes, the unit keeps the request.
LEMMA Kept ==
  ASSUME TypeOK, Route, NEW busy \in BOOLEAN, Clock(busy), state' \in LoopStates \cup AbsStates
  PROVE  req' = req /\ (mul \/ div) /\ state \in {"WAIT"} \cup LoopStates \cup AbsStates
<1>1. state' = next_state(waiting_result \/ busy)
  BY DEF Clock
<1>2. state \in {"WAIT"} \cup LoopStates \cup AbsStates
  BY <1>1 DEF next_state, Released, Accumulate, LoopStates, AbsStates, TypeOK, State
<1>3. state = "WAIT" => mul \/ div
  BY <1>1, NegativeIsOperation DEF next_state, LoopStates, AbsStates
<1>4. mul \/ div
  BY <1>2, <1>3 DEF Route, LoopStates, AbsStates
<1>5. waiting_result
  BY <1>2, <1>4 DEF waiting_result, LoopStates, AbsStates
<1>. QED  BY <1>2, <1>4, <1>5 DEF Clock

\* Every way into a loop belongs to the operation.
LEMMA RouteStep ==
  ASSUME TypeOK, Route, NEW busy \in BOOLEAN, Clock(busy)
  PROVE  Route'
<1> SUFFICES ASSUME state' \in LoopStates \cup AbsStates
             PROVE  Route'
  BY DEF Route, LoopStates, AbsStates
<1>1. req' = req /\ (mul \/ div) /\ state \in {"WAIT"} \cup LoopStates \cup AbsStates
  BY Kept
<1>2. mul' = mul /\ div' = div
  BY <1>1 DEF mul, div
<1>3. state' = next_state(waiting_result \/ busy)
  BY DEF Clock
<1>4. (state' = "MUL" => mul) /\ (state' = "DIV" => div)
  BY <1>1, <1>3, OperationType DEF next_state, Compute, Accumulate, Route, LoopStates, AbsStates
<1>. QED  BY <1>1, <1>2, <1>4 DEF Route

\* A loop begins with empty accumulators, and goes on to its next tick.
LEMMA LoopStep ==
  ASSUME TypeOK, Route, NEW busy \in BOOLEAN, Clock(busy), state' \in LoopStates
  PROVE  \/ /\ state \in {"WAIT"} \cup AbsStates
            /\ tick' = 0 /\ thi' = 0
         \/ /\ state' = state /\ tick < W - 1 /\ tick' = tick + 1
            /\ AbsA' = AbsA /\ AbsB' = AbsB
<1>1. req' = req /\ (mul \/ div) /\ state \in {"WAIT"} \cup LoopStates \cup AbsStates
  BY Kept
<1>2. state' = next_state(waiting_result \/ busy) /\ DataPath
  BY DEF Clock
<1>3. CASE state \in {"WAIT"} \cup AbsStates
  <2>1. tick' = 0 /\ thi' = 0
    BY <1>2, <1>3 DEF DataPath, Tick, High, TickStates, AbsStates
  <2>. QED  BY <1>3, <2>1
<1>4. CASE state \in LoopStates
  <2>1. ~LastTick /\ state' = state
    BY <1>2, <1>4 DEF next_state, Accumulate, LoopStates
  <2>2. tick \in 0 .. W - 1 /\ tick < W - 1 /\ W \in Nat
    BY <2>1, WidthType DEF LastTick, TypeOK
  <2>3. tick' = (tick + 1) % W
    BY <1>2, <1>4 DEF DataPath, Tick, TickStates, LoopStates
  <2>4. (tick + 1) % W = tick + 1
    <3> DEFINE n == tick + 1
    <3>1. n \in Nat /\ W \in Nat \ {0} /\ 0 \in Int /\ n \in 0 .. W - 1 /\ n = W * 0 + n
      BY <2>2
    <3>2. n % W = n
      <4> HIDE DEF n
      <4>. QED  BY ONLY <3>1, Quotient
    <3>. QED  BY <3>2
  <2>5. a_neg' = a_neg /\ b_neg' = b_neg
    BY <1>2, <1>4 DEF DataPath, Negated, LoopStates
  <2>6. AbsA' = AbsA /\ AbsB' = AbsB
    BY <1>1, <2>5 DEF AbsA, AbsB, NegativeA, NegativeB, using_sign
  <2>. QED  BY <2>1, <2>2, <2>3, <2>4, <2>6
<1>. QED  BY <1>1, <1>3, <1>4

\* The powers of two at a tick of a loop.
LEMMA TickPowers ==
  ASSUME NEW t \in 0 .. W - 1, 2^t * 2^(W - t) = M
  PROVE  \E P, Q \in Nat \ {0} :
           /\ P = 2^t /\ Q = 2^(W - 1 - t) /\ 2^(t + 1) = 2 * P
           /\ 2^(W - t) = 2 * Q /\ 2^(W - (t + 1)) = Q
           /\ M = 2 * P * Q /\ M \div 2 = P * Q
<1> DEFINE P == 2^t
           Q == 2^(W - 1 - t)
<1>1. t \in Nat /\ W - 1 - t \in Nat /\ (W - 1 - t) + 1 = W - t /\ W - (t + 1) = W - 1 - t
  BY WidthType
<1>2. P \in Nat \ {0} /\ Q \in Nat \ {0}
  BY <1>1, PowerOfTwo
<1>3. 2^(t + 1) = 2 * P
  BY <1>1, NextPower
<1>4. 2^(W - t) = 2 * Q
  <2>1. 2^((W - 1 - t) + 1) = 2 * Q
    BY <1>1, NextPower
  <2>. QED  BY ONLY <1>1, <2>1, Zenon
<1>5. 2^(W - (t + 1)) = Q
  BY <1>1
<1>6. P * (2 * Q) = M
  BY <1>4
<1> HIDE DEF P, Q
<1>7. M = 2 * P * Q /\ M \div 2 = P * Q
  <2>1. M = 2 * (P * Q) /\ P * Q \in Nat /\ M = 2 * P * Q
    BY ONLY <1>2, <1>6
  <2>2. M \div 2 = P * Q
    <3> DEFINE n == P * Q
    <3>1. n \in Nat /\ M = 2 * n
      BY <2>1
    <3> HIDE DEF n
    <3>2. M \div 2 = n
      BY ONLY <3>1
    <3>. QED  BY <3>2 DEF n
  <2>. QED  BY <2>1, <2>2
<1>. QED  BY <1>2, <1>3, <1>4, <1>5, <1>7, Zenon DEF P, Q

\* A tick of a multiplication, the last one too.
LEMMA MultiplyTick ==
  ASSUME LoopIInv, DataPath, state = "MUL"
  PROVE  (thi' * 2^(tick + 1)) + (tlo' \div 2^(W - (tick + 1)))
         = (AbsA % 2^(tick + 1)) * AbsB
<1>1. PICK P, Q \in Nat \ {0} :
        /\ P = 2^tick /\ Q = 2^(W - 1 - tick) /\ 2^(tick + 1) = 2 * P
        /\ 2^(W - tick) = 2 * Q /\ 2^(W - (tick + 1)) = Q
        /\ M = 2 * P * Q /\ M \div 2 = P * Q
  BY TickPowers DEF LoopIInv, Bits, LoopStates, TypeOK
<1>2. AbsA \in Nat /\ AbsB \in Nat /\ thi \in Nat /\ tlo \in Nat
  <2>1. AbsA \in Word /\ AbsB \in Word /\ thi \in Word /\ tlo \in Word
    BY OperandType DEF LoopIInv, TypeOK
  <2>. QED  BY ONLY <2>1, WordType, Zenon
<1>3. Sum = thi + AIter * AbsB /\ Sum \in 0 .. 2 * M - 2 /\ M \in Nat /\ Sum \in Nat
  BY ProductSum, WordSize DEF LoopIInv
<1>4. AIter = (AbsA \div P) % 2
  BY <1>1 DEF AIter, BitOf, LoopIInv, Route
<1>5. thi * P + (tlo \div (2 * Q)) = (AbsA % P) * AbsB
  BY <1>1 DEF LoopIInv, LoopInvariant
<1>6. Sum \in 0 .. 2 * M - 1
  BY <1>3
<1>7. thi' = Sum \div 2
  <2>1. thi' = (Bit(Sum >= M) * (M \div 2)) + ((Sum % M) \div 2)
    BY DEF DataPath, High, alu_out, cout
  <2>. QED  BY <1>6, <2>1, ShiftRight, Zenon
<1>8. tlo' = ((Sum % 2) * (P * Q)) + (tlo \div 2)
  <2>1. tlo' = (((Sum % M) % 2) * (M \div 2)) + (tlo \div 2)
    BY DEF DataPath, Low, alu_out
  <2>2. (Sum % M) % 2 = Sum % 2
    BY <1>6, ShiftRight, Zenon
  <2>. QED  BY ONLY <1>1, <2>1, <2>2, Zenon
<1>9. (Sum \div 2) * (2 * P) + (((Sum % 2) * (P * Q) + (tlo \div 2)) \div Q)
               = (AbsA % (2 * P)) * AbsB
  <2>1. Sum = thi + ((AbsA \div P) % 2) * AbsB
    BY ONLY <1>3, <1>4, Zenon
  <2>2. /\ thi * P + (tlo \div (2 * Q)) = (AbsA % P) * AbsB
        /\ Sum = thi + ((AbsA \div P) % 2) * AbsB
        => (Sum \div 2) * (2 * P) + (((Sum % 2) * (P * Q) + (tlo \div 2)) \div Q)
               = (AbsA % (2 * P)) * AbsB
    <3>1. \A a, b, hi, lo, s \in Nat :
            /\ hi * P + (lo \div (2 * Q)) = (a % P) * b
            /\ s = hi + ((a \div P) % 2) * b
            => (s \div 2) * (2 * P) + (((s % 2) * (P * Q) + (lo \div 2)) \div Q)
               = (a % (2 * P)) * b
      BY ONLY P \in Nat \ {0}, Q \in Nat \ {0}, MultiplyStep, ZenonT(60)
    <3>2. AbsA \in Nat /\ AbsB \in Nat /\ thi \in Nat /\ tlo \in Nat /\ Sum \in Nat
      BY ONLY <1>2, <1>3, Zenon
    <3>3. \A hi, lo, s \in Nat :
            /\ hi * P + (lo \div (2 * Q)) = (AbsA % P) * AbsB
            /\ s = hi + ((AbsA \div P) % 2) * AbsB
            => (s \div 2) * (2 * P) + (((s % 2) * (P * Q) + (lo \div 2)) \div Q)
               = (AbsA % (2 * P)) * AbsB
      BY ONLY <3>1, <3>2, Zenon
    <3>4. \A s \in Nat :
            /\ thi * P + (tlo \div (2 * Q)) = (AbsA % P) * AbsB
            /\ s = thi + ((AbsA \div P) % 2) * AbsB
            => (s \div 2) * (2 * P) + (((s % 2) * (P * Q) + (tlo \div 2)) \div Q)
               = (AbsA % (2 * P)) * AbsB
      BY ONLY <3>2, <3>3, Zenon
    <3>. QED  BY ONLY <3>2, <3>4, Zenon
  <2>. QED  BY ONLY <1>5, <2>1, <2>2, Zenon
<1>. QED  BY ONLY <1>1, <1>7, <1>8, <1>9, Zenon

\* A tick of a division, the last one too.
LEMMA DivideTick ==
  ASSUME LoopIInv, DataPath, state = "DIV", AbsB # 0
  PROVE  /\ AbsA \div 2^(W - (tick + 1)) = ((tlo' % 2^(tick + 1)) * AbsB) + thi'
         /\ thi' < AbsB
<1>1. PICK P, Q \in Nat \ {0} :
        /\ P = 2^tick /\ Q = 2^(W - 1 - tick) /\ 2^(tick + 1) = 2 * P
        /\ 2^(W - tick) = 2 * Q /\ 2^(W - (tick + 1)) = Q
        /\ M = 2 * P * Q /\ M \div 2 = P * Q
  BY TickPowers DEF LoopIInv, Bits, LoopStates, TypeOK
<1>2. /\ AbsA \in Nat /\ AbsB \in Nat /\ thi \in Nat /\ tlo \in Nat
      /\ AbsA < M /\ AbsB \in 1 .. M - 1 /\ M \in Nat \ {0}
  <2>1. AbsA \in Word /\ AbsB \in Word /\ thi \in Word /\ tlo \in Word
    BY OperandType DEF LoopIInv, TypeOK
  <2>. QED  BY <2>1, WordSize DEF Word
<1>3. AIter = (AbsA \div Q) % 2
  <2>1. ~mul
    BY OperationType DEF LoopIInv, Route
  <2>. QED  BY <1>1, <2>1 DEF AIter, BitOf
<1>4. AbsA \div (2 * Q) = ((tlo % P) * AbsB) + thi /\ thi < AbsB
  BY <1>1 DEF LoopIInv, LoopInvariant
<1> DEFINE r == ((2 * thi) % M) + AIter
           c == Bit(cout)
<1>5. r \in Nat /\ r <= M - 1
  <2>1. (2 * thi) % M \in 0 .. M - 2
    BY ShiftLeftType DEF LoopIInv, TypeOK
  <2>2. AIter \in {0, 1}
    BY IterType DEF LoopIInv
  <2>. QED  BY <1>2, <2>1, <2>2
<1>6. Sum = r + (M - 1 - AbsB) + 1
  BY DEF Sum, Not
<1>7. thi' = IF cout THEN alu_out ELSE r
  BY DEF DataPath, High
<1>8. tlo' = ((2 * tlo) % M) + c
  BY DEF DataPath, Low
<1> HIDE DEF r
<1>9. (cout <=> r >= AbsB) /\ (cout => alu_out = r - AbsB)
  <2>1. Sum = r + M - AbsB /\ Sum \in 0 .. 2 * M - 1
    BY <1>2, <1>5, <1>6
  <2>2. Sum % M = IF Sum >= M THEN Sum - M ELSE Sum
    BY <2>1, CutOnce
  <2>. QED  BY <1>2, <1>5, <2>1, <2>2 DEF cout, alu_out
<1>10. c \in 0 .. 1 /\ (c = 1 <=> r >= AbsB)
  BY <1>9 DEF Bit
<1>11. thi' = IF c = 1 THEN r - AbsB ELSE r
  BY <1>7, <1>9 DEF Bit
<1> HIDE DEF c
<1>12. r = ((2 * thi) % (2 * P * Q)) + ((AbsA \div Q) % 2)
  BY ONLY <1>1, <1>3, Zenon DEF r
<1>13. AbsA < 2 * P * Q
  BY ONLY <1>1, <1>2, Zenon
<1>14. LET rest == IF c = 1 THEN r - AbsB ELSE r
       IN  /\ AbsA \div Q = ((((2 * tlo) % (2 * P * Q)) + c) % (2 * P)) * AbsB + rest
           /\ rest < AbsB
  <2>1. \A a, b, hi, lo, t \in Nat : \A k \in 0 .. 1 :
          /\ a < 2 * P * Q /\ hi < b
          /\ a \div (2 * Q) = (lo % P) * b + hi
          /\ t = ((2 * hi) % (2 * P * Q)) + ((a \div Q) % 2)
          /\ k = 1 <=> t >= b
          => LET rest == IF k = 1 THEN t - b ELSE t
             IN  /\ a \div Q = ((((2 * lo) % (2 * P * Q)) + k) % (2 * P)) * b + rest
                 /\ rest < b
    BY ONLY P \in Nat \ {0}, Q \in Nat \ {0}, DivideStep, ZenonT(60)
  <2>2. AbsA \in Nat /\ AbsB \in Nat /\ thi \in Nat /\ tlo \in Nat /\ r \in Nat /\ c \in 0 .. 1
    BY ONLY <1>2, <1>5, <1>10, Zenon
  <2>3. \A hi, lo, t \in Nat : \A k \in 0 .. 1 :
          /\ AbsA < 2 * P * Q /\ hi < AbsB
          /\ AbsA \div (2 * Q) = (lo % P) * AbsB + hi
          /\ t = ((2 * hi) % (2 * P * Q)) + ((AbsA \div Q) % 2)
          /\ k = 1 <=> t >= AbsB
          => LET rest == IF k = 1 THEN t - AbsB ELSE t
             IN  /\ AbsA \div Q = ((((2 * lo) % (2 * P * Q)) + k) % (2 * P)) * AbsB + rest
                 /\ rest < AbsB
    BY ONLY <2>1, <2>2, Zenon
  <2>4. \A t \in Nat : \A k \in 0 .. 1 :
          /\ AbsA < 2 * P * Q /\ thi < AbsB
          /\ AbsA \div (2 * Q) = (tlo % P) * AbsB + thi
          /\ t = ((2 * thi) % (2 * P * Q)) + ((AbsA \div Q) % 2)
          /\ k = 1 <=> t >= AbsB
          => LET rest == IF k = 1 THEN t - AbsB ELSE t
             IN  /\ AbsA \div Q = ((((2 * tlo) % (2 * P * Q)) + k) % (2 * P)) * AbsB + rest
                 /\ rest < AbsB
    BY ONLY <2>2, <2>3, Zenon
  <2>. QED  BY ONLY <1>4, <1>10, <1>12, <1>13, <2>2, <2>4, Zenon
<1>15. tlo' = ((2 * tlo) % (2 * P * Q)) + c
  BY ONLY <1>1, <1>8, Zenon
<1>16. /\ AbsA \div Q = ((((2 * tlo) % (2 * P * Q)) + c) % (2 * P)) * AbsB + thi'
       /\ thi' < AbsB
  BY ONLY <1>11, <1>14, Zenon
<1>. QED  BY ONLY <1>1, <1>15, <1>16, Zenon

\* At the first tick nothing has been done.
LEMMA FirstTick ==
  ASSUME TypeOK', tick' = 0, thi' = 0
  PROVE  /\ 2^tick' * 2^(W - tick') = M
         /\ (thi' * 2^tick') + (tlo' \div 2^(W - tick')) = (AbsA' % 2^tick') * AbsB'
         /\ AbsB' # 0 => /\ AbsA' \div 2^(W - tick') = ((tlo' % 2^tick') * AbsB') + thi'
                         /\ thi' < AbsB'
<1>1. M \in Nat \ {0} /\ AbsA' \in 0 .. M - 1 /\ AbsB' \in 0 .. M - 1 /\ tlo' \in 0 .. M - 1
  BY WordSize DEF TypeOK, Request, AbsA, AbsB, Word
<1>2. 2^tick' = 1 /\ 2^(W - tick') = M
  BY PowerOfZero, WidthType DEF M
<1>3. \A x \in 0 .. M - 1 : x \div M = 0 /\ x % 1 = 0
  <2> TAKE x \in 0 .. M - 1
  <2>1. x \in Nat /\ 0 \in Int /\ x = M * 0 + x
    BY <1>1
  <2>2. x \div M = 0
    BY ONLY <1>1, <2>1, x \in 0 .. M - 1, Quotient
  <2>3. x % 1 = 0
    BY <2>1
  <2>. QED  BY <2>2, <2>3
<1>4. AbsA' \div M = 0 /\ tlo' \div M = 0 /\ AbsA' % 1 = 0 /\ tlo' % 1 = 0
  BY <1>1, <1>3, Zenon
<1> DEFINE a == AbsA'
           b == AbsB'
<1>5. a \in Nat /\ b \in Nat
  BY <1>1
<1> HIDE DEF a, b
<1>6. 0 * 1 + 0 = 0 * b /\ 0 = 0 * b + 0 /\ 1 * M = M /\ (b # 0 => 0 < b)
  BY <1>1, <1>5
<1>7. (thi' * 2^tick') + (tlo' \div 2^(W - tick')) = (AbsA' % 2^tick') * AbsB'
  BY <1>2, <1>4, <1>6, Zenon DEF b
<1>8. AbsA' \div 2^(W - tick') = ((tlo' % 2^tick') * AbsB') + thi'
  BY <1>2, <1>4, <1>6, Zenon DEF b
<1>. QED  BY <1>2, <1>6, <1>7, <1>8, Zenon DEF b

\* A clock edge.
LEMMA LoopClock ==
  ASSUME LoopIInv, NEW busy \in BOOLEAN, Clock(busy), TypeOK'
  PROVE  LoopIInv'
<1>1. TypeOK /\ Route /\ DataPath
  BY DEF LoopIInv, Clock
<1>2. Route'
  BY <1>1, RouteStep
<1>3. CASE state' \notin LoopStates
  BY <1>2, <1>3 DEF LoopIInv, Bits, LoopInvariant, LoopStates
<1>4. CASE state' \in LoopStates /\ tick' = 0 /\ thi' = 0
  BY <1>2, <1>4, FirstTick DEF LoopIInv, Bits, LoopInvariant
<1>5. CASE /\ state' \in LoopStates /\ state' = state /\ tick < W - 1 /\ tick' = tick + 1
           /\ AbsA' = AbsA /\ AbsB' = AbsB
  <2>1. 2^tick' * 2^(W - tick') = M
    <3>1. PICK P, Q \in Nat \ {0} :
            /\ P = 2^tick /\ Q = 2^(W - 1 - tick) /\ 2^(tick + 1) = 2 * P
            /\ 2^(W - tick) = 2 * Q /\ 2^(W - (tick + 1)) = Q
            /\ M = 2 * P * Q /\ M \div 2 = P * Q
      BY <1>5, TickPowers DEF LoopIInv, Bits, TypeOK
    <3>2. 2^tick' = 2 * P /\ 2^(W - tick') = Q
      BY ONLY <1>5, <3>1, Zenon
    <3>. QED  BY ONLY <3>1, <3>2, Zenon
  <2>2. Bits'
    BY <2>1 DEF Bits
  <2>3. state' = "MUL" =>
          (thi' * 2^tick') + (tlo' \div 2^(W - tick')) = (AbsA' % 2^tick') * AbsB'
    <3>1. state = "MUL" =>
            (thi' * 2^(tick + 1)) + (tlo' \div 2^(W - (tick + 1)))
            = (AbsA % 2^(tick + 1)) * AbsB
      BY <1>1, MultiplyTick, Zenon
    <3>. QED  BY ONLY <1>5, <3>1, Zenon
  <2>4. state' = "DIV" /\ AbsB' # 0 =>
          /\ AbsA' \div 2^(W - tick') = ((tlo' % 2^tick') * AbsB') + thi'
          /\ thi' < AbsB'
    <3>1. state = "DIV" /\ AbsB # 0 =>
            /\ AbsA \div 2^(W - (tick + 1)) = ((tlo' % 2^(tick + 1)) * AbsB) + thi'
            /\ thi' < AbsB
      BY <1>1, DivideTick, Zenon
    <3>. QED  BY ONLY <1>5, <3>1, Zenon
  <2>5. LoopInvariant'
    BY <2>3, <2>4 DEF LoopInvariant
  <2>. QED  BY <1>2, <2>2, <2>5 DEF LoopIInv
<1>. QED  BY <1>1, <1>3, <1>4, <1>5, LoopStep, Zenon

\* Any step: clearing the unit leaves the loop.
LEMMA LoopStepInv == LoopIInv /\ [Next]_vars => LoopIInv'
<1> SUFFICES ASSUME LoopIInv, [Next]_vars
             PROVE  LoopIInv'
  OBVIOUS
<1>1. TypeOK'
  BY StepType DEF LoopIInv
<1>2. ASSUME NEW busy \in BOOLEAN, Clock(busy)
      PROVE  LoopIInv'
  BY <1>1, <1>2, LoopClock
<1>3. CASE Clear
  BY <1>1, <1>3 DEF Clear, LoopIInv, Route, Bits, LoopInvariant, LoopStates, AbsStates
<1>4. CASE UNCHANGED vars
  <2>1. /\ UNCHANGED <<state, req, thi, tlo, a_neg, b_neg, tick>>
        /\ AbsA' = AbsA /\ AbsB' = AbsB /\ mul' = mul /\ div' = div
    BY <1>4 DEF vars, data, AbsA, AbsB, NegativeA, NegativeB, using_sign, mul, div
  <2>2. Route' /\ Bits' /\ LoopInvariant'
    BY <2>1, Zenon DEF LoopIInv, Route, Bits, LoopInvariant
  <2>. QED  BY <1>1, <2>2 DEF LoopIInv
<1>. QED  BY <1>2, <1>3, <1>4 DEF Next, ClockEdge

\* In every tick of a loop the accumulators hold the product of the bits that
\* are done, or the quotient and the remainder of theirs (div_mul.sv:358-366).
THEOREM LoopCorrect == Spec => []LoopInvariant
<1>1. Init => LoopIInv
  <2>1. Init => TypeOK
    BY InitType
  <2>2. Init => Route /\ Bits /\ LoopInvariant
    BY DEF Init, Route, Bits, LoopInvariant, LoopStates, AbsStates
  <2>. QED  BY <2>1, <2>2 DEF LoopIInv
<1>2. LoopIInv => LoopInvariant
  BY DEF LoopIInv
<1>. QED  BY <1>1, <1>2, LoopStepInv, PTL DEF Spec

----------------------------------------------------------------------------
\* The result: DivMul implements MulDivUnit.

\* The operands as the numbers they stand for, and what is wanted of them.
X == Unit!Operand(req, req.a)
Y == Unit!Operand(req, req.b)
Old == req.hi * M + req.lo
Wanted == IF add THEN Old + X * Y ELSE IF sub THEN Old - X * Y ELSE X * Y

\* The accumulators as one number.
Pair == thi * M + tlo

\* The numbers are the same in a pair of words.
Same(m, n) == \E k \in Int : m = n + k * (M * M)

PreviousAdd == {"PREVIOUS_ADD_TLO", "PREVIOUS_ADD_THI"}
PreviousSub == {"PREVIOUS_SUB_TLO", "PREVIOUS_SUB_THI"}
NegProduct  == {"NEG_PRODUCT_TLO", "NEG_PRODUCT_THI"}

\* An operand whose magnitude is used has been negated.
Prepared ==
  /\ state = "MAKE_ABS_A" => NegativeA
  /\ NegativeA /\ state \notin {"WAIT", "MAKE_ABS_A"} => a_neg = M - req.a
  /\ NegativeB /\ state \notin {"WAIT", "MAKE_ABS_A", "MAKE_ABS_B"} => b_neg = M - req.b

\* The state machine goes on as the operation and the signs ask for.
Way ==
  /\ state \in NegProduct => mul /\ DifferentSigns
  /\ state = "NEG_QUOTIENT_TLO" => div /\ DifferentSigns
  /\ state = "NEG_REMAINDER_THI" => div /\ NegativeA
  /\ state \in PreviousAdd => mul /\ add
  /\ state \in PreviousSub => mul /\ sub
  /\ state = "STORAGE" => mul \/ div

\* What the accumulators hold after a multiplication, on the way to its result.
ProductSoFar ==
  /\ state = "NEG_PRODUCT_TLO" => Pair = -(X * Y)
  /\ state = "NEG_PRODUCT_THI" => Same((Not(thi) + Bit(carry)) * M + tlo, X * Y)
  /\ state \in {"PREVIOUS_ADD_TLO", "PREVIOUS_SUB_TLO"} => Same(Pair, X * Y)
  /\ state = "PREVIOUS_ADD_THI" =>
       Same((req.hi + thi + Bit(carry)) * M + tlo, Old + X * Y)
  /\ state = "PREVIOUS_SUB_THI" =>
       Same((req.hi + Not(thi) + Bit(carry)) * M + tlo, Old - X * Y)
  /\ state = "STORAGE" /\ mul => Same(Pair, Wanted)

\* And after a division.
QuotientSoFar ==
  AbsB # 0 =>
  /\ state = "NEG_QUOTIENT_TLO" => tlo = AbsA \div AbsB /\ thi = AbsA % AbsB
  /\ state = "NEG_REMAINDER_THI" => tlo = Unit!Quotient(X, Y) % M /\ thi = AbsA % AbsB
  /\ state = "STORAGE" /\ div =>
       tlo = Unit!Quotient(X, Y) % M /\ thi = Unit!Remainder(X, Y) % M

ResultIInv == LoopIInv /\ Prepared /\ Way /\ ProductSoFar /\ QuotientSoFar

----------------------------------------------------------------------------
\* Signs.

\* A word that is complemented and incremented is its negation.
LEMMA NegatedWord ==
  \A x \in Word : /\ Not(x) + 1 = M - x /\ Not(x) + 1 \in 1 .. M
                  /\ x # 0 => (Not(x) + 1) % M = M - x
<1> TAKE x \in Word
<1>1. M \in Nat \ {0} /\ x \in 0 .. M - 1
  BY WordSize DEF Word
<1>2. Not(x) + 1 = M - x /\ M - x \in 1 .. M
  BY <1>1 DEF Not
<1>3. x # 0 => (M - x) % M = M - x
  BY <1>1, <1>2, CutOnce
<1>. QED  BY ONLY <1>2, <1>3, Zenon

\* A negative operand is a word with its first bit set, less the range.
LEMMA Signs ==
  ASSUME TypeOK
  PROVE  /\ X = (IF NegativeA THEN req.a - M ELSE req.a)
         /\ Y = (IF NegativeB THEN req.b - M ELSE req.b)
         /\ NegativeA => req.a # 0
         /\ NegativeB => req.b # 0
         /\ DifferentSigns <=> (NegativeA <=> ~NegativeB)
<1>1. Half \in Nat \ {0} /\ M = 2 * Half /\ M \div 2 = Half
  BY WordSize
<1>2. \A x : Unit!Negative(x) <=> Top(x)
  BY DEF Unit!Negative, Unit!M, Top, M
<1>3. using_sign <=> req.op \in {"MULT", "MADD", "MSUB", "DIV"}
  BY DEF using_sign
<1>4. X = (IF NegativeA THEN req.a - M ELSE req.a) /\ Y = (IF NegativeB THEN req.b - M ELSE req.b)
  BY <1>2, <1>3 DEF X, Y, Unit!Operand, Unit!AsSigned, Unit!M, M, NegativeA, NegativeB
<1>5. (NegativeA => req.a # 0) /\ (NegativeB => req.b # 0)
  BY <1>1 DEF NegativeA, NegativeB, Top
<1>6. DifferentSigns <=> (NegativeA <=> ~NegativeB)
  BY DEF DifferentSigns, NegativeA, NegativeB, Top
<1>. QED  BY <1>4, <1>5, <1>6

\* Once an operand is prepared, its magnitude is used.
LEMMA Magnitudes ==
  ASSUME TypeOK, NegativeA => a_neg = M - req.a, NegativeB => b_neg = M - req.b
  PROVE  /\ AbsA = (IF NegativeA THEN -X ELSE X)
         /\ AbsB = (IF NegativeB THEN -Y ELSE Y)
         /\ X \in Int /\ Y \in Int
         /\ AbsA \in Nat /\ AbsB \in Nat
         /\ AbsA = Unit!Magnitude(X) /\ AbsB = Unit!Magnitude(Y)
         /\ NegativeA <=> X < 0
         /\ NegativeB <=> Y < 0
<1>1. /\ M \in Nat \ {0} /\ req.a \in 0 .. M - 1 /\ req.b \in 0 .. M - 1
  BY WordSize, OperandType DEF Word
<1>2. /\ X = (IF NegativeA THEN req.a - M ELSE req.a)
      /\ Y = (IF NegativeB THEN req.b - M ELSE req.b)
  BY Signs
<1>. QED  BY <1>1, <1>2 DEF AbsA, AbsB, Unit!Magnitude

\* The magnitudes multiply to the product, but for its sign.
LEMMA ProductOfMagnitudes ==
  ASSUME TypeOK, NegativeA => a_neg = M - req.a, NegativeB => b_neg = M - req.b
  PROVE  /\ AbsA * AbsB = (IF DifferentSigns THEN -(X * Y) ELSE X * Y)
         /\ X * Y \in Int
<1>1. /\ AbsA = (IF NegativeA THEN -X ELSE X) /\ AbsB = (IF NegativeB THEN -Y ELSE Y)
      /\ X \in Int /\ Y \in Int
  BY Magnitudes
<1>2. DifferentSigns <=> (NegativeA <=> ~NegativeB)
  BY Signs
<1>3. \A x, y \in Int :
        (-x) * y = -(x * y) /\ x * (-y) = -(x * y) /\ (-x) * (-y) = x * y /\ x * y \in Int
  OBVIOUS
<1>4. /\ (-X) * Y = -(X * Y) /\ X * (-Y) = -(X * Y) /\ (-X) * (-Y) = X * Y
      /\ X * Y \in Int
  BY ONLY <1>1, <1>3, Zenon
<1>5. CASE NegativeA /\ NegativeB
  BY ONLY <1>1, <1>2, <1>4, <1>5, Zenon
<1>6. CASE NegativeA /\ ~NegativeB
  BY ONLY <1>1, <1>2, <1>4, <1>6, Zenon
<1>7. CASE ~NegativeA /\ NegativeB
  BY ONLY <1>1, <1>2, <1>4, <1>7, Zenon
<1>8. CASE ~NegativeA /\ ~NegativeB
  BY ONLY <1>1, <1>2, <1>4, <1>8, Zenon
<1>. QED  BY ONLY <1>5, <1>6, <1>7, <1>8

----------------------------------------------------------------------------
\* The control.

\* Only a unit that waits takes another request.
LEMMA HeldRequest ==
  ASSUME TypeOK, Way, NEW busy \in BOOLEAN, Clock(busy), state' # "WAIT"
  PROVE  /\ req' = req /\ (state \in {"WAIT", "STORAGE"} => mul \/ div)
         /\ mul' = mul /\ div' = div /\ add' = add /\ sub' = sub
         /\ NegativeA' = NegativeA /\ NegativeB' = NegativeB
         /\ DifferentSigns' = DifferentSigns
         /\ X' = X /\ Y' = Y /\ Old' = Old
<1> DEFINE stall == waiting_result \/ busy
<1>1. state' = next_state(stall) /\ (stall => req' = req)
  BY DEF Clock
<1>2. req' = req /\ (state \in {"WAIT", "STORAGE"} => mul \/ div)
  <2>1. CASE state = "WAIT"
    <3>1. mul \/ div
      BY <1>1, <2>1, NegativeIsOperation DEF next_state
    <3>. QED  BY <1>1, <2>1, <3>1 DEF waiting_result
  <2>2. CASE state = "STORAGE"
    <3>1. stall
      <4> HIDE DEF stall
      <4>. QED  BY <1>1, <2>2 DEF next_state, Released
    <3>. QED  BY <1>1, <2>2, <3>1 DEF Way
  <2>3. CASE state \notin {"WAIT", "STORAGE"}
    BY <1>1, <2>3 DEF waiting_result
  <2>. QED  BY <2>1, <2>2, <2>3
<1>. QED
  BY <1>2 DEF mul, div, add, sub, NegativeA, NegativeB, DifferentSigns, using_sign, X, Y, Old

\* The states that negate an operand leave its magnitude.
LEMMA PreparedStep ==
  ASSUME ResultIInv, NEW busy \in BOOLEAN, Clock(busy)
  PROVE  Prepared'
<1> SUFFICES ASSUME state' # "WAIT"  PROVE Prepared'
  BY DEF Prepared
<1>1. TypeOK /\ Way /\ Prepared /\ DataPath /\ state' = next_state(waiting_result \/ busy)
  BY DEF ResultIInv, LoopIInv, Clock
<1>2. req' = req /\ NegativeA' = NegativeA /\ NegativeB' = NegativeB
  BY <1>1, HeldRequest
<1>3. state' = "MAKE_ABS_A" => NegativeA
  BY <1>1 DEF next_state, Compute, Accumulate, Released, TypeOK, State
<1>4. ASSUME NegativeA, state' # "MAKE_ABS_A"
      PROVE  a_neg' = M - req.a
  <2>1. state # "WAIT"
    BY <1>1, <1>4 DEF next_state
  <2>2. CASE state = "MAKE_ABS_A"
    <3>1. a_neg' = (Not(req.a) + 1) % M
      BY <1>1, <2>2 DEF DataPath, Negated, alu_out, Sum
    <3>. QED  BY <1>1, <1>4, <3>1, NegatedWord, Signs, OperandType
  <2>3. CASE state # "MAKE_ABS_A"
    BY <1>1, <1>4, <2>1, <2>3 DEF DataPath, Negated, Prepared
  <2>. QED  BY <2>2, <2>3
<1>5. ASSUME NegativeB, state' \notin {"MAKE_ABS_A", "MAKE_ABS_B"}
      PROVE  b_neg' = M - req.b
  <2>1. state # "WAIT"
    BY <1>1, <1>5 DEF next_state
  <2>2. state # "MAKE_ABS_A"
    BY <1>1, <1>5 DEF next_state, NegativeB
  <2>3. CASE state = "MAKE_ABS_B"
    <3>1. b_neg' = (Not(req.b) + 1) % M
      BY <1>1, <2>3 DEF DataPath, Negated, alu_out, Sum
    <3>. QED  BY <1>1, <1>5, <3>1, NegatedWord, Signs, OperandType
  <2>4. CASE state # "MAKE_ABS_B"
    BY <1>1, <1>5, <2>1, <2>2, <2>4 DEF DataPath, Negated, Prepared
  <2>. QED  BY <2>3, <2>4
<1>. QED  BY <1>2, <1>3, <1>4, <1>5 DEF Prepared

\* The next state is one that the operation and the signs of the operands ask for.
LEMMA WayStep ==
  ASSUME ResultIInv, NEW busy \in BOOLEAN, Clock(busy)
  PROVE  Way'
<1> SUFFICES ASSUME state' # "WAIT"  PROVE Way'
  BY DEF Way, NegProduct, PreviousAdd, PreviousSub
<1>1. TypeOK /\ Way /\ Route /\ state' = next_state(waiting_result \/ busy)
  BY DEF ResultIInv, LoopIInv, Clock
<1>2. /\ mul' = mul /\ div' = div /\ add' = add /\ sub' = sub
      /\ NegativeA' = NegativeA /\ DifferentSigns' = DifferentSigns
      /\ state \in {"WAIT", "STORAGE"} => mul \/ div
  BY <1>1, HeldRequest
<1> USE DEF NegProduct, PreviousAdd, PreviousSub
<1>3. state' \in NegProduct => mul /\ DifferentSigns
  BY <1>1 DEF next_state, Compute, Accumulate, Released, TypeOK, State, Way, Route
<1>4. state' = "NEG_QUOTIENT_TLO" => div /\ DifferentSigns
  BY <1>1 DEF next_state, Compute, Accumulate, Released, TypeOK, State, Way, Route
<1>5. state' = "NEG_REMAINDER_THI" => div /\ NegativeA
  <2>1. DifferentSigns /\ Top(req.a) => NegativeA
    BY DEF DifferentSigns, NegativeA
  <2>. QED
    BY <1>1, <2>1 DEF next_state, Compute, Accumulate, Released, TypeOK, State, Way, Route
<1>6. (state' \in PreviousAdd => mul /\ add) /\ (state' \in PreviousSub => mul /\ sub)
  BY <1>1 DEF next_state, Compute, Accumulate, Released, TypeOK, State, Way, Route
<1>7. state' = "STORAGE" => mul \/ div
  BY <1>1, <1>2 DEF next_state, Compute, Accumulate, Released, TypeOK, State, Way, Route
<1>. QED  BY <1>2, <1>3, <1>4, <1>5, <1>6, <1>7 DEF Way

----------------------------------------------------------------------------
\* The corrections after a multiplication.

\* A sum of words is cut to a word and a carry.
LEMMA CarryOut ==
  \A s \in 0 .. 2 * M - 1 :
    (s % M) + Bit(s >= M) * M = s /\ s % M \in 0 .. M - 1 /\ Bit(s >= M) \in 0 .. 1
<1> TAKE s \in 0 .. 2 * M - 1
<1>1. M \in Nat \ {0}
  BY WordSize
<1>2. s % M = IF s >= M THEN s - M ELSE s
  BY CutOnce
<1>. QED  BY <1>1, <1>2 DEF Bit

\* Numbers that are the same stay so when either is moved by the range of a
\* pair, or both by the same number.
LEMMA SameAs ==
  ASSUME NEW m \in Int, NEW n \in Int, NEW j \in Int, Same(m, n)
  PROVE  /\ Same(m + j * (M * M), n)
         /\ \A c \in Int : Same(c + m, c + n) /\ Same(c - m, c - n)
<1>1. PICK k \in Int : m = n + k * (M * M)
  BY DEF Same
<1> DEFINE r == M * M
<1>2. r \in Nat
  BY WordSize
<1>3. m = n + k * r
  BY <1>1
<1> HIDE DEF r
<1>4. m + j * r = n + (k + j) * r /\ k + j \in Int
  BY <1>2, <1>3
<1>5. ASSUME NEW c \in Int
      PROVE  c + m = (c + n) + k * r /\ c - m = (c - n) + (-k) * r /\ -k \in Int
  BY <1>2, <1>3
<1>. QED  BY <1>4, <1>5 DEF Same, r

\* What the high word is cut by is a multiple of the range of a pair.
LEMMA HighCut ==
  ASSUME NEW s \in 0 .. 2 * M - 1, NEW l \in 0 .. M - 1, NEW n \in Int,
         Same(s * M + l, n)
  PROVE  Same((s % M) * M + l, n)
<1>1. M \in Nat \ {0}
  BY WordSize
<1> DEFINE h == s % M
           c == Bit(s >= M)
<1>2. h + c * M = s /\ h \in 0 .. M - 1 /\ c \in 0 .. 1
  BY CarryOut
<1> HIDE DEF h, c
<1> DEFINE m == s * M + l
           j == -c
<1>3. m \in Int /\ j \in Int
  BY <1>1, <1>2
<1>4. h * M + l = m + j * (M * M)
  <2>1. (h + c * M) * M = h * M + c * (M * M)
    BY ONLY <1>1, <1>2
  <2>2. c * (M * M) \in Int /\ h * M \in Int
    BY ONLY <1>1, <1>2
  <2>3. j * (M * M) = -(c * (M * M))
    BY ONLY <1>1, <1>2
  <2> DEFINE cm == c * (M * M)
             hm == h * M
  <2>4. s * M = hm + cm /\ cm \in Int /\ hm \in Int /\ j * (M * M) = -cm
    BY <1>2, <2>1, <2>2, <2>3
  <2> HIDE DEF cm, hm, j
  <2>5. hm + l = s * M + l + j * (M * M)
    BY ONLY <2>4, l \in 0 .. M - 1, <1>1
  <2>. QED  BY <2>5 DEF hm
<1> HIDE DEF m, j
<1>5. Same(m + j * (M * M), n)
  <2>1. Same(m, n)
    BY DEF m
  <2>. QED  BY ONLY <1>3, <2>1, n \in Int, SameAs
<1>. QED  BY <1>4, <1>5, Zenon DEF h

\* The last tick divides by one.
LEMMA DividedByOne == \A n \in Nat : n \div 1 = n
<1> TAKE n \in Nat
<1>1. 1 \in Nat \ {0} /\ n \in Int /\ 0 \in 0 .. 1-1 /\ n = 1 * n + 0
  OBVIOUS
<1>. QED  BY ONLY n \in Nat, <1>1, Quotient

\* The loop ends with the product of the magnitudes.
LEMMA LastProduct ==
  ASSUME LoopIInv, DataPath, state = "MUL", LastTick
  PROVE  Pair' = AbsA * AbsB
<1>1. tick + 1 = W /\ W - (tick + 1) = 0
  BY WidthType DEF LastTick
<1>2. 2^(tick + 1) = M /\ 2^(W - (tick + 1)) = 1
  BY <1>1, PowerOfZero DEF M
<1>3. (thi' * 2^(tick + 1)) + (tlo' \div 2^(W - (tick + 1))) = (AbsA % 2^(tick + 1)) * AbsB
  BY MultiplyTick
<1>4. AbsA % M = AbsA
  <2>1. AbsA \in 0 .. 2 * M - 1 /\ AbsA < M
    BY OperandType, WordSize DEF LoopIInv, Word
  <2>2. AbsA % M = IF AbsA >= M THEN AbsA - M ELSE AbsA
    BY ONLY <2>1, CutOnce, Zenon
  <2>3. ~(AbsA >= M)
    BY ONLY <2>1, WordSize
  <2>. QED  BY ONLY <2>2, <2>3
<1>5. tlo' \div 1 = tlo'
  <2>1. tlo' \in Nat
    BY DataType, WordType DEF LoopIInv
  <2>. QED  BY ONLY <2>1, DividedByOne, Zenon
<1>6. (thi' * M) + tlo' = AbsA * AbsB
  BY ONLY <1>2, <1>3, <1>4, <1>5, Zenon
<1>. QED  BY <1>6 DEF Pair

\* The types that the sums below need.
LEMMA PairTypes ==
  ASSUME TypeOK
  PROVE  /\ M \in Nat \ {0} /\ thi \in 0 .. M - 1 /\ tlo \in 0 .. M - 1
         /\ req.hi \in 0 .. M - 1 /\ req.lo \in 0 .. M - 1 /\ X * Y \in Int
         /\ Not(tlo) + 1 = M - tlo /\ Not(thi) = M - 1 - thi
         /\ Bit(carry) \in 0 .. 1
<1>1. /\ M \in Nat \ {0} /\ thi \in 0 .. M - 1 /\ tlo \in 0 .. M - 1
      /\ req.hi \in 0 .. M - 1 /\ req.lo \in 0 .. M - 1
      /\ req.a \in 0 .. M - 1 /\ req.b \in 0 .. M - 1
  BY WordSize, OperandType DEF Word, TypeOK
<1>2. X \in Int /\ Y \in Int
  BY <1>1, Signs
<1>3. X * Y \in Int
  BY <1>2
<1>. QED  BY <1>1, <1>3 DEF Not, Bit

\* Negating the low word, and then the high one with the carry.
LEMMA NegateLow ==
  ASSUME ResultIInv, DataPath, state = "NEG_PRODUCT_TLO"
  PROVE  Same((Not(thi') + Bit(carry')) * M + tlo', X * Y)
<1>1. /\ M \in Nat \ {0} /\ thi \in 0 .. M - 1 /\ tlo \in 0 .. M - 1
      /\ X * Y \in Int /\ Not(tlo) + 1 = M - tlo /\ Not(thi) = M - 1 - thi
  BY PairTypes DEF ResultIInv, LoopIInv
<1>2. thi' = thi /\ tlo' = Sum % M /\ carry' = (Sum >= M) /\ Sum = M - tlo
  BY <1>1 DEF DataPath, High, Low, Carry, alu_out, cout, Sum
<1>3. Pair = -(X * Y)
  BY DEF ResultIInv, ProductSoFar
<1> DEFINE c == Bit(Sum >= M)
           l == Sum % M
<1>4. l + c * M = M - tlo /\ l \in 0 .. M - 1 /\ c \in 0 .. 1
  <2>1. Sum \in 0 .. 2 * M - 1
    BY <1>1, <1>2
  <2>. QED  BY <1>2, <2>1, CarryOut
<1> HIDE DEF c, l
<1>5. (M - 1 - thi + c) * M + l = -Pair + 1 * (M * M)
  <2>1. (M - 1 - thi + c) * M = M * M - M - thi * M + c * M
    BY ONLY <1>1, <1>4
  <2>. QED  BY ONLY <1>1, <1>4, <2>1 DEF Pair
<1>6. (M - 1 - thi + c) * M + l = X * Y + 1 * (M * M)
  BY <1>1, <1>3, <1>5
<1>7. Same((M - 1 - thi + c) * M + l, X * Y)
  BY <1>6 DEF Same
<1>. QED  BY <1>1, <1>2, <1>7 DEF c, l, Not

\* With the carry, the high word completes the negation.
LEMMA NegateHigh ==
  ASSUME ResultIInv, DataPath, state = "NEG_PRODUCT_THI"
  PROVE  Same(Pair', X * Y)
<1>1. /\ M \in Nat \ {0} /\ thi \in 0 .. M - 1 /\ tlo \in 0 .. M - 1
      /\ X * Y \in Int /\ Not(thi) = M - 1 - thi /\ Bit(carry) \in 0 .. 1
  BY PairTypes DEF ResultIInv, LoopIInv
<1>2. thi' = Sum % M /\ tlo' = tlo /\ Sum = Not(thi) + Bit(carry)
  BY DEF DataPath, High, Low, alu_out, Sum
<1>3. Sum \in 0 .. 2 * M - 1
  BY <1>1, <1>2
<1>4. Same(Sum * M + tlo, X * Y)
  BY <1>2 DEF ResultIInv, ProductSoFar
<1>. QED  BY <1>1, <1>2, <1>3, <1>4, HighCut DEF Pair

\* The old pair and the new one, added and subtracted word by word.
LEMMA AddPairs ==
  ASSUME TypeOK, NEW c \in 0 .. 1, NEW l \in 0 .. M - 1, l + c * M = req.lo + tlo
  PROVE  (req.hi + thi + c) * M + l = Old + Pair
<1>1. /\ M \in Int /\ req.hi \in Int /\ req.lo \in Int /\ thi \in Int /\ tlo \in Int
      /\ c \in Int /\ l \in Int
  BY PairTypes
<1>2. (req.hi + thi + c) * M = req.hi * M + thi * M + c * M
  BY ONLY <1>1
<1> DEFINE p1 == req.hi * M
           p2 == thi * M
           p3 == c * M
<1>3. p1 \in Int /\ p2 \in Int /\ p3 \in Int
  BY <1>1
<1>4. (p1 + p2 + p3) + l = (p1 + req.lo) + (p2 + tlo)
  <2>1. l + p3 = req.lo + tlo
    OBVIOUS
  <2> HIDE DEF p1, p2, p3
  <2>. QED  BY ONLY <1>1, <1>3, <2>1
<1>. QED  BY ONLY <1>2, <1>4, Zenon DEF Old, Pair

\* Subtracting borrows from the range of a pair.
LEMMA SubtractPairs ==
  ASSUME TypeOK, NEW c \in 0 .. 1, NEW l \in 0 .. M - 1, l + c * M = req.lo + (M - tlo)
  PROVE  (req.hi + (M - 1 - thi) + c) * M + l = (Old - Pair) + 1 * (M * M)
<1>1. /\ M \in Int /\ req.hi \in Int /\ req.lo \in Int /\ thi \in Int /\ tlo \in Int
      /\ c \in Int /\ l \in Int
  BY PairTypes
<1>2. (req.hi + (M - 1 - thi) + c) * M = req.hi * M + M * M - M - thi * M + c * M
  BY ONLY <1>1
<1> DEFINE p1 == req.hi * M
           p2 == thi * M
           p3 == c * M
           p4 == M * M
<1>3. p1 \in Int /\ p2 \in Int /\ p3 \in Int /\ p4 \in Int
  BY <1>1
<1>4. (p1 + p4 - M - p2 + p3) + l = ((p1 + req.lo) - (p2 + tlo)) + 1 * p4
  <2>1. l + p3 = req.lo + (M - tlo)
    OBVIOUS
  <2> HIDE DEF p1, p2, p3, p4
  <2>. QED  BY ONLY <1>1, <1>3, <2>1
<1>. QED  BY ONLY <1>2, <1>4, Zenon DEF Old, Pair

\* Adding to what was in hi and lo, or subtracting from it: the low word.
LEMMA AccumulateLow ==
  ASSUME ResultIInv, DataPath
  PROVE  /\ state = "PREVIOUS_ADD_TLO" =>
              Same((req.hi + thi' + Bit(carry')) * M + tlo', Old + X * Y)
         /\ state = "PREVIOUS_SUB_TLO" =>
              Same((req.hi + Not(thi') + Bit(carry')) * M + tlo', Old - X * Y)
<1>1. /\ M \in Nat \ {0} /\ thi \in 0 .. M - 1 /\ tlo \in 0 .. M - 1
      /\ req.hi \in 0 .. M - 1 /\ req.lo \in 0 .. M - 1
      /\ X * Y \in Int /\ Not(tlo) + 1 = M - tlo /\ Not(thi) = M - 1 - thi
  BY PairTypes DEF ResultIInv, LoopIInv
<1>2. Pair \in Int /\ Old \in Int
  BY <1>1 DEF Pair, Old
<1> DEFINE c == Bit(Sum >= M)
           l == Sum % M
<1>3. ASSUME state \in {"PREVIOUS_ADD_TLO", "PREVIOUS_SUB_TLO"}
      PROVE  thi' = thi /\ tlo' = l /\ Bit(carry') = c /\ Same(Pair, X * Y)
  BY <1>3 DEF DataPath, High, Low, Carry, alu_out, cout, ResultIInv, ProductSoFar
<1>4. CASE state = "PREVIOUS_ADD_TLO"
  <2>1. Sum = req.lo + tlo /\ Sum \in 0 .. 2 * M - 1
    BY <1>1, <1>4 DEF Sum
  <2>2. l + c * M = req.lo + tlo /\ l \in 0 .. M - 1 /\ c \in 0 .. 1
    BY <2>1, CarryOut
  <2>3. (req.hi + thi + c) * M + l = Old + Pair
    <3> HIDE DEF c, l
    <3>. QED  BY <2>2, AddPairs DEF ResultIInv, LoopIInv
  <2>4. Same(Old + Pair, Old + X * Y)
    BY <1>1, <1>2, <1>3, <1>4, SameAs
  <2>. QED  BY <1>3, <1>4, <2>3, <2>4
<1>5. CASE state = "PREVIOUS_SUB_TLO"
  <2>1. Sum = req.lo + (M - tlo) /\ Sum \in 0 .. 2 * M - 1
    BY <1>1, <1>5 DEF Sum, Not
  <2>2. l + c * M = req.lo + (M - tlo) /\ l \in 0 .. M - 1 /\ c \in 0 .. 1
    BY <2>1, CarryOut
  <2>3. (req.hi + (M - 1 - thi) + c) * M + l = (Old - Pair) + 1 * (M * M)
    <3> HIDE DEF c, l
    <3>. QED  BY <2>2, SubtractPairs DEF ResultIInv, LoopIInv
  <2>4. Same(Old - Pair, Old - X * Y)
    BY <1>1, <1>2, <1>3, <1>5, SameAs
  <2>5. Same((Old - Pair) + 1 * (M * M), Old - X * Y)
    <3> DEFINE m == Old - Pair
               n == Old - X * Y
    <3>1. m \in Int /\ n \in Int /\ 1 \in Int /\ Same(m, n)
      BY <1>1, <1>2, <2>4
    <3>2. Same(m + 1 * (M * M), n)
      <4> HIDE DEF m, n
      <4>. QED  BY ONLY <3>1, SameAs
    <3>. QED  BY <3>2
  <2>. QED  BY <1>1, <1>3, <1>5, <2>3, <2>5 DEF Not
<1>. QED  BY <1>4, <1>5

\* The high word.
LEMMA AccumulateHigh ==
  ASSUME ResultIInv, DataPath
  PROVE  /\ state = "PREVIOUS_ADD_THI" => Same(Pair', Old + X * Y)
         /\ state = "PREVIOUS_SUB_THI" => Same(Pair', Old - X * Y)
<1>1. /\ M \in Nat \ {0} /\ thi \in 0 .. M - 1 /\ tlo \in 0 .. M - 1
      /\ req.hi \in 0 .. M - 1 /\ req.lo \in 0 .. M - 1
      /\ X * Y \in Int /\ Not(thi) = M - 1 - thi /\ Bit(carry) \in 0 .. 1
  BY PairTypes DEF ResultIInv, LoopIInv
<1>2. Old + X * Y \in Int /\ Old - X * Y \in Int
  BY <1>1 DEF Old
<1>3. CASE state = "PREVIOUS_ADD_THI"
  <2>1. thi' = Sum % M /\ tlo' = tlo /\ Sum = req.hi + thi + Bit(carry)
    BY <1>3 DEF DataPath, High, Low, alu_out, Sum
  <2>2. Sum \in 0 .. 2 * M - 1
    BY <1>1, <2>1
  <2>3. Same(Sum * M + tlo, Old + X * Y)
    BY <1>3, <2>1 DEF ResultIInv, ProductSoFar
  <2>. QED  BY <1>1, <1>2, <1>3, <2>1, <2>2, <2>3, HighCut DEF Pair
<1>4. CASE state = "PREVIOUS_SUB_THI"
  <2>1. thi' = Sum % M /\ tlo' = tlo /\ Sum = req.hi + Not(thi) + Bit(carry)
    BY <1>4 DEF DataPath, High, Low, alu_out, Sum
  <2>2. Sum \in 0 .. 2 * M - 1
    BY <1>1, <2>1
  <2>3. Same(Sum * M + tlo, Old - X * Y)
    BY <1>4, <2>1 DEF ResultIInv, ProductSoFar
  <2>. QED  BY <1>1, <1>2, <1>4, <2>1, <2>2, <2>3, HighCut DEF Pair
<1>. QED  BY <1>3, <1>4

\* The product, with the sign it has.
LEMMA LoopProduct ==
  ASSUME ResultIInv, DataPath, state = "MUL", LastTick
  PROVE  Pair' = IF DifferentSigns THEN -(X * Y) ELSE X * Y
<1>1. Pair' = AbsA * AbsB
  BY LastProduct DEF ResultIInv
<1>2. AbsA * AbsB = IF DifferentSigns THEN -(X * Y) ELSE X * Y
  BY ProductOfMagnitudes DEF ResultIInv, LoopIInv, Prepared
<1>. QED  BY ONLY <1>1, <1>2, Zenon

\* A multiplication keeps its product on every way to the result.
LEMMA ProductStep ==
  ASSUME ResultIInv, NEW busy \in BOOLEAN, Clock(busy)
  PROVE  ProductSoFar'
<1> SUFFICES ASSUME state' # "WAIT"  PROVE ProductSoFar'
  BY DEF ProductSoFar
<1>1. /\ TypeOK /\ Way /\ Route /\ DataPath /\ ProductSoFar
      /\ state' = next_state(waiting_result \/ busy)
  BY DEF ResultIInv, LoopIInv, Clock
<1>2. req' = req /\ X' = X /\ Y' = Y /\ Old' = Old /\ Wanted' = Wanted /\ mul' = mul
  BY <1>1, HeldRequest DEF Wanted
<1>3. state' = "NEG_PRODUCT_TLO" => Pair' = -(X * Y)
  <2>1. state' = "NEG_PRODUCT_TLO" => state = "MUL" /\ LastTick /\ DifferentSigns
    BY <1>1 DEF next_state, Compute, Accumulate, Released, TypeOK, State
  <2>. QED  BY <1>1, <2>1, LoopProduct
<1>4. state' = "NEG_PRODUCT_THI" => Same((Not(thi') + Bit(carry')) * M + tlo', X * Y)
  <2>1. state' = "NEG_PRODUCT_THI" => state = "NEG_PRODUCT_TLO"
    BY <1>1 DEF next_state, Compute, Accumulate, Released, TypeOK, State
  <2>. QED  BY <1>1, <2>1, NegateLow
<1>5. /\ state = "MUL" /\ state' \notin {"MUL", "NEG_PRODUCT_TLO"} => Same(Pair', X * Y)
      /\ state = "NEG_PRODUCT_THI" => Same(Pair', X * Y)
  <2>1. state = "MUL" /\ state' \notin {"MUL", "NEG_PRODUCT_TLO"} => LastTick /\ ~DifferentSigns
    BY <1>1 DEF next_state
  <2>2. ASSUME Pair' = X * Y
        PROVE  Same(Pair', X * Y)
    <3>1. X * Y = X * Y + 0 * (M * M)
      BY PairTypes, <1>1
    <3>. QED  BY <2>2, <3>1 DEF Same
  <2>. QED  BY <1>1, <2>1, <2>2, LoopProduct, NegateHigh
<1>6. state' \in {"PREVIOUS_ADD_TLO", "PREVIOUS_SUB_TLO"} => Same(Pair', X * Y)
  <2>1. state' \in {"PREVIOUS_ADD_TLO", "PREVIOUS_SUB_TLO"} => state \in {"MUL", "NEG_PRODUCT_THI"}
    BY <1>1 DEF next_state, Compute, Accumulate, Released, TypeOK, State
  <2>. QED  BY <1>5, <2>1
<1>7. /\ state' = "PREVIOUS_ADD_THI" =>
           Same((req.hi + thi' + Bit(carry')) * M + tlo', Old + X * Y)
      /\ state' = "PREVIOUS_SUB_THI" =>
           Same((req.hi + Not(thi') + Bit(carry')) * M + tlo', Old - X * Y)
  <2>1. /\ state' = "PREVIOUS_ADD_THI" => state = "PREVIOUS_ADD_TLO"
        /\ state' = "PREVIOUS_SUB_THI" => state = "PREVIOUS_SUB_TLO"
    BY <1>1 DEF next_state, Compute, Accumulate, Released, TypeOK, State
  <2>. QED  BY <1>1, <2>1, AccumulateLow
<1>8. state' = "STORAGE" /\ mul => Same(Pair', Wanted)
  <2> SUFFICES ASSUME state' = "STORAGE", mul  PROVE Same(Pair', Wanted)
    OBVIOUS
  <2>1. ~(add /\ sub) /\ ~div
    BY OperationType DEF add, sub
  <2>2. state \in {"STORAGE", "MUL", "NEG_PRODUCT_THI", "PREVIOUS_ADD_THI", "PREVIOUS_SUB_THI"}
    BY <1>1, <2>1 DEF next_state, Compute, Accumulate, Released, TypeOK, State, Way, Route
  <2>3. CASE state = "STORAGE"
    <3>1. Pair' = Pair
      BY <1>1, <2>3 DEF DataPath, High, Low, Pair
    <3>. QED  BY <1>1, <2>3, <3>1 DEF ProductSoFar
  <2>4. CASE state \in {"MUL", "NEG_PRODUCT_THI"}
    <3>1. ~add /\ ~sub
      BY <1>1, <2>4 DEF next_state, Accumulate
    <3>. QED  BY <1>5, <2>4, <3>1 DEF Wanted
  <2>5. CASE state = "PREVIOUS_ADD_THI"
    <3>1. add
      BY <1>1, <2>5 DEF Way, PreviousAdd
    <3>. QED  BY <1>1, <2>5, <3>1, AccumulateHigh DEF Wanted
  <2>6. CASE state = "PREVIOUS_SUB_THI"
    <3>1. sub /\ ~add
      BY <1>1, <2>1, <2>6 DEF Way, PreviousSub
    <3>. QED  BY <1>1, <2>6, <3>1, AccumulateHigh DEF Wanted
  <2>. QED  BY <2>2, <2>3, <2>4, <2>5, <2>6
<1>. QED  BY <1>2, <1>3, <1>4, <1>6, <1>7, <1>8 DEF ProductSoFar

----------------------------------------------------------------------------
\* The corrections after a division.

\* The quotient and the remainder of the magnitudes.
AbsQ == AbsA \div AbsB
AbsR == AbsA % AbsB

\* They are words.
LEMMA MagnitudesDivided ==
  ASSUME TypeOK, AbsB # 0
  PROVE  /\ AbsQ \in 0 .. M - 1 /\ AbsR \in 0 .. M - 1 /\ AbsA = AbsB * AbsQ + AbsR
         /\ M \in Nat \ {0} /\ AbsB \in Nat /\ AbsA \in Nat
<1>1. /\ M \in Nat \ {0} /\ AbsA \in 0 .. M - 1 /\ AbsB \in 0 .. M - 1
      /\ AbsB \in Nat \ {0} /\ AbsA \in Nat
  BY WordSize, OperandType DEF Word
<1>2. PICK q \in Nat, r \in 0 .. AbsB - 1 :
        AbsA = AbsB * q + r /\ AbsA \div AbsB = q /\ AbsA % AbsB = r
  BY ONLY <1>1, Division, Zenon
<1>3. q <= AbsB * q
  BY ONLY <1>1, q \in Nat
<1>4. q \in 0 .. M - 1 /\ r \in 0 .. M - 1
  <2> DEFINE p == AbsB * q
  <2>1. p \in Nat
    BY <1>1
  <2> HIDE DEF p
  <2>2. AbsA = p + r /\ q <= p
    BY ONLY <1>2, <1>3 DEF p
  <2>. QED  BY ONLY <1>1, <2>1, <2>2, q \in Nat, r \in 0 .. AbsB - 1
<1>. QED  BY ONLY <1>1, <1>2, <1>4, Zenon DEF AbsQ, AbsR

\* The signs of the quotient and of the remainder.
LEMMA SignedDivision ==
  ASSUME TypeOK, NegativeA => a_neg = M - req.a, NegativeB => b_neg = M - req.b, AbsB # 0
  PROVE  /\ Unit!Quotient(X, Y) = IF DifferentSigns THEN -AbsQ ELSE AbsQ
         /\ Unit!Remainder(X, Y) = IF NegativeA THEN -AbsR ELSE AbsR
<1>1. /\ AbsA = (IF NegativeA THEN -X ELSE X) /\ AbsB = (IF NegativeB THEN -Y ELSE Y)
      /\ X \in Int /\ Y \in Int
      /\ AbsA = Unit!Magnitude(X) /\ AbsB = Unit!Magnitude(Y)
      /\ NegativeA <=> X < 0
      /\ NegativeB <=> Y < 0
  BY Magnitudes
<1>2. DifferentSigns <=> (NegativeA <=> ~NegativeB)
  BY Signs
<1>3. (X < 0) = (Y < 0) <=> ~DifferentSigns
  BY <1>1, <1>2
<1>4. Unit!Quotient(X, Y) = IF DifferentSigns THEN -AbsQ ELSE AbsQ
  <2>1. Unit!Quotient(X, Y) = IF (X < 0) = (Y < 0) THEN AbsQ ELSE -AbsQ
    BY ONLY <1>1, Zenon DEF Unit!Quotient, AbsQ
  <2>. QED  BY ONLY <1>3, <2>1, Zenon
<1>5. AbsQ \in Int /\ AbsR \in Int /\ AbsA = AbsB * AbsQ + AbsR
  BY MagnitudesDivided
<1>6. \A y, q \in Int : (-y) * (-q) = y * q /\ (-y) * q = -(y * q) /\ y * (-q) = -(y * q)
                      /\ y * q \in Int
  OBVIOUS
<1>7. Unit!Remainder(X, Y) = X - Y * Unit!Quotient(X, Y)
  BY DEF Unit!Remainder
<1>8. /\ (-Y) * AbsQ = -(Y * AbsQ) /\ Y * (-AbsQ) = -(Y * AbsQ)
      /\ Y * AbsQ \in Int
  BY ONLY <1>1, <1>5, <1>6, Zenon
<1> DEFINE p == Y * AbsQ
           n == AbsB * AbsQ
<1>9. n = IF NegativeB THEN -p ELSE p
  BY ONLY <1>1, <1>8, Zenon
<1>10. Y * Unit!Quotient(X, Y) = IF DifferentSigns THEN -p ELSE p
  BY ONLY <1>4, <1>8, Zenon
<1>11. p \in Int /\ AbsA = n + AbsR
  BY ONLY <1>5, <1>8
<1> HIDE DEF p, n
<1>12. Unit!Remainder(X, Y) = IF NegativeA THEN -AbsR ELSE AbsR
  BY ONLY <1>1, <1>2, <1>5, <1>7, <1>9, <1>10, <1>11
<1>. QED  BY <1>4, <1>12

\* A word, and a negated one, as what is left of the number by the range.
LEMMA CutNegated ==
  \A z \in 0 .. M - 1 : z % M = z /\ (Not(z) + 1) % M = (-z) % M
<1> TAKE z \in 0 .. M - 1
<1>1. M \in Nat \ {0} /\ z \in Nat /\ 0 \in Int /\ z = M * 0 + z
  BY WordSize
<1>2. z % M = z
  BY ONLY <1>1, z \in 0 .. M - 1, Quotient
<1>3. Not(z) + 1 = M - z
  BY <1>1 DEF Not
<1>4. CASE z = 0
  <2>1. M - z \in Int /\ 1 \in Int /\ 0 \in 0 .. M - 1 /\ M - z = M * 1 + 0
    BY ONLY <1>1, <1>4
  <2>2. (M - z) % M = 0
    <3> DEFINE n == M - z
    <3> HIDE DEF n
    <3>1. n \in Int /\ n = M * 1 + 0
      BY ONLY <2>1 DEF n
    <3>2. n % M = 0
      BY ONLY <1>1, <2>1, <3>1, IntQuotient
    <3>. QED  BY ONLY <3>2 DEF n
  <2>3. (-z) % M = 0
    <3> DEFINE n == -z
    <3>1. n \in Int /\ n = M * 0 + 0
      BY <1>1, <1>4
    <3> HIDE DEF n
    <3>2. n % M = 0
      BY ONLY <1>1, <2>1, <3>1, IntQuotient
    <3>. QED  BY ONLY <3>2 DEF n
  <2>. QED  BY ONLY <1>2, <1>3, <2>2, <2>3, Zenon
<1>5. CASE z # 0
  <2> DEFINE r == M - z
             n == -z
  <2>1. r \in 0 .. M - 1 /\ r \in Int /\ n \in Int /\ -1 \in Int /\ 0 \in Int
        /\ n = M * (-1) + r /\ r = M * 0 + r
    BY <1>1, <1>5
  <2> HIDE DEF r, n
  <2>2. n % M = r /\ r % M = r
    BY ONLY <1>1, <2>1, IntQuotient
  <2>. QED  BY ONLY <1>2, <1>3, <2>2 DEF r, n
<1>. QED  BY <1>4, <1>5

\* The loop ends with the quotient and the remainder of the magnitudes.
LEMMA LoopQuotient ==
  ASSUME ResultIInv, DataPath, state = "DIV", LastTick, AbsB # 0
  PROVE  tlo' = AbsQ /\ thi' = AbsR
<1>1. TypeOK /\ LoopIInv
  BY DEF ResultIInv, LoopIInv
<1>2. tick + 1 = W /\ W - (tick + 1) = 0
  BY WidthType DEF LastTick
<1>3. 2^(tick + 1) = M /\ 2^(W - (tick + 1)) = 1
  BY <1>2, PowerOfZero DEF M
<1>4. /\ AbsA \div 2^(W - (tick + 1)) = ((tlo' % 2^(tick + 1)) * AbsB) + thi'
      /\ thi' < AbsB
  BY <1>1, DivideTick
<1>5. AbsA \div 1 = ((tlo' % M) * AbsB) + thi' /\ thi' < AbsB
  BY ONLY <1>3, <1>4, Zenon
<1>6. tlo' \in 0 .. M - 1 /\ thi' \in 0 .. M - 1 /\ M \in Nat \ {0}
  BY <1>1, DataType, WordSize DEF Word
<1>7. AbsA \in Nat /\ AbsB \in Nat \ {0}
  BY <1>1, MagnitudesDivided
<1>8. AbsA \div 1 = AbsA
  BY ONLY <1>7, DividedByOne, Zenon
<1>9. tlo' % M = tlo'
  BY ONLY <1>6, CutNegated, Zenon
<1>10. AbsA = (tlo' * AbsB) + thi' /\ thi' < AbsB
  BY ONLY <1>5, <1>8, <1>9, Zenon
<1>11. AbsA = AbsB * tlo' + thi' /\ thi' \in 0 .. AbsB - 1 /\ tlo' \in Int
  BY ONLY <1>6, <1>7, <1>10
<1>. QED  BY ONLY <1>7, <1>11, Quotient DEF AbsQ, AbsR

\* A division keeps its quotient and remainder, and gives each its sign.
LEMMA QuotientStep ==
  ASSUME ResultIInv, NEW busy \in BOOLEAN, Clock(busy)
  PROVE  QuotientSoFar'
<1> DEFINE q == Unit!Quotient(X, Y)
           r == Unit!Remainder(X, Y)
<1> SUFFICES ASSUME state' \in {"NEG_QUOTIENT_TLO", "NEG_REMAINDER_THI", "STORAGE"},
                    AbsB' # 0, state' = "STORAGE" => div'
             PROVE  QuotientSoFar'
  BY DEF QuotientSoFar
<1>1. /\ TypeOK /\ Way /\ Route /\ Prepared /\ DataPath /\ QuotientSoFar
      /\ state' = next_state(waiting_result \/ busy)
  BY DEF ResultIInv, LoopIInv, Clock
<1>2. /\ req' = req /\ X' = X /\ Y' = Y /\ div' = div
      /\ NegativeA' = NegativeA /\ NegativeB' = NegativeB
  BY <1>1, HeldRequest
<1>3. state \in {"DIV", "NEG_QUOTIENT_TLO", "NEG_REMAINDER_THI", "STORAGE"}
  BY <1>1, <1>2, OperationType
     DEF next_state, Compute, Accumulate, Released, TypeOK, State, Way, Route, NegProduct,
         PreviousAdd, PreviousSub
<1>4. AbsA' = AbsA /\ AbsB' = AbsB
  <2>1. a_neg' = a_neg /\ b_neg' = b_neg
    BY <1>1, <1>3 DEF DataPath, Negated
  <2>. QED  BY <1>2, <2>1 DEF AbsA, AbsB
<1>5. AbsB # 0
  BY <1>4
<1>6. /\ q = (IF DifferentSigns THEN -AbsQ ELSE AbsQ)
      /\ r = (IF NegativeA THEN -AbsR ELSE AbsR)
  BY <1>1, <1>3, <1>5, SignedDivision DEF Prepared
<1>7. /\ AbsQ % M = AbsQ /\ (Not(AbsQ) + 1) % M = (-AbsQ) % M
      /\ AbsR % M = AbsR /\ (Not(AbsR) + 1) % M = (-AbsR) % M
  BY <1>1, <1>5, MagnitudesDivided, CutNegated, Zenon
<1> HIDE DEF q, r
<1> SUFFICES /\ state' = "NEG_QUOTIENT_TLO" => tlo' = AbsQ /\ thi' = AbsR
             /\ state' = "NEG_REMAINDER_THI" => tlo' = q % M /\ thi' = AbsR
             /\ state' = "STORAGE" => tlo' = q % M /\ thi' = r % M
  BY <1>2, <1>4 DEF QuotientSoFar, AbsQ, AbsR, q, r
<1>8. CASE state = "DIV"
  <2>1. LastTick
    BY <1>1, <1>8 DEF next_state
  <2>2. tlo' = AbsQ /\ thi' = AbsR
    BY <1>1, <1>5, <1>8, <2>1, LoopQuotient
  <2>3. /\ state' # "NEG_QUOTIENT_TLO" => ~DifferentSigns
        /\ state' = "STORAGE" => ~NegativeA
    BY <1>1, <1>8, <2>1 DEF next_state
  <2>. QED  BY ONLY <1>6, <1>7, <2>2, <2>3, Zenon
<1>9. CASE state = "NEG_QUOTIENT_TLO"
  <2>1. tlo' = (Not(tlo) + 1) % M /\ thi' = thi
    BY <1>1, <1>9 DEF DataPath, High, Low, alu_out, Sum
  <2>2. tlo = AbsQ /\ thi = AbsR
    BY <1>1, <1>5, <1>9 DEF QuotientSoFar, AbsQ, AbsR
  <2>3. DifferentSigns
    BY <1>1, <1>9 DEF Way
  <2>4. /\ state' # "NEG_QUOTIENT_TLO"
        /\ state' = "STORAGE" => ~NegativeA
    BY <1>1, <1>9 DEF next_state, NegativeA
  <2>. QED  BY ONLY <1>6, <1>7, <2>1, <2>2, <2>3, <2>4, Zenon
<1>10. CASE state = "NEG_REMAINDER_THI"
  <2>1. thi' = (Not(thi) + 1) % M /\ tlo' = tlo
    BY <1>1, <1>10 DEF DataPath, High, Low, alu_out, Sum
  <2>2. tlo = q % M /\ thi = AbsR
    BY <1>1, <1>5, <1>10 DEF QuotientSoFar, AbsR, q
  <2>3. NegativeA
    BY <1>1, <1>10 DEF Way
  <2>4. state' = "STORAGE"
    BY <1>1, <1>10 DEF next_state
  <2>. QED  BY ONLY <1>6, <1>7, <2>1, <2>2, <2>3, <2>4, Zenon
<1>11. CASE state = "STORAGE"
  <2>1. thi' = thi /\ tlo' = tlo /\ state' = "STORAGE" /\ div
    BY <1>1, <1>2, <1>11 DEF DataPath, High, Low, next_state, Released
  <2>2. tlo = q % M /\ thi = r % M
    BY <1>1, <1>5, <1>11, <2>1 DEF QuotientSoFar, q, r
  <2>. QED  BY ONLY <2>1, <2>2, Zenon
<1>. QED  BY <1>3, <1>8, <1>9, <1>10, <1>11

----------------------------------------------------------------------------
\* The whole invariant.

\* It holds when the unit starts: nothing has been computed.
LEMMA ResultInit == Init => ResultIInv
<1> SUFFICES ASSUME Init
             PROVE  ResultIInv
  OBVIOUS
<1>1. state = "WAIT"
  BY DEF Init
<1>2. LoopIInv
  BY <1>1, InitType DEF LoopIInv, Route, Bits, LoopInvariant, LoopStates, AbsStates
<1>3. Prepared /\ Way
  BY <1>1 DEF Prepared, Way, NegProduct, PreviousAdd, PreviousSub
<1>4. ProductSoFar /\ QuotientSoFar
  BY <1>1 DEF ProductSoFar, QuotientSoFar
<1>. QED  BY <1>2, <1>3, <1>4 DEF ResultIInv

\* And every step preserves it: clearing the unit abandons what it has computed.
LEMMA ResultStep == ResultIInv /\ [Next]_vars => ResultIInv'
<1> SUFFICES ASSUME ResultIInv, [Next]_vars
             PROVE  ResultIInv'
  OBVIOUS
<1>1. LoopIInv'
  BY LoopStepInv DEF ResultIInv
<1>2. ASSUME NEW busy \in BOOLEAN, Clock(busy)
      PROVE  ResultIInv'
  BY <1>1, <1>2, PreparedStep, WayStep, ProductStep, QuotientStep DEF ResultIInv
<1>3. CASE Clear
  <2>1. state' = "WAIT"
    BY <1>3 DEF Clear
  <2>2. Prepared' /\ Way'
    BY <2>1 DEF Prepared, Way, NegProduct, PreviousAdd, PreviousSub
  <2>3. ProductSoFar' /\ QuotientSoFar'
    BY <2>1 DEF ProductSoFar, QuotientSoFar
  <2>. QED  BY <1>1, <2>2, <2>3 DEF ResultIInv
<1>4. CASE UNCHANGED vars
  <2>1. /\ state' = state /\ req' = req /\ thi' = thi /\ tlo' = tlo /\ carry' = carry
        /\ a_neg' = a_neg /\ b_neg' = b_neg
    BY <1>4 DEF vars, data
  <2>2. /\ mul' = mul /\ div' = div /\ add' = add /\ sub' = sub
        /\ NegativeA' = NegativeA /\ NegativeB' = NegativeB
        /\ DifferentSigns' = DifferentSigns /\ X' = X /\ Y' = Y /\ Old' = Old
    BY <2>1 DEF mul, div, add, sub, NegativeA, NegativeB, DifferentSigns, using_sign, X, Y, Old
  <2>3. AbsA' = AbsA /\ AbsB' = AbsB /\ Pair' = Pair /\ Wanted' = Wanted
    BY <2>1, <2>2 DEF AbsA, AbsB, Pair, Wanted
  <2>4. Prepared' /\ Way'
    BY <2>1, <2>2 DEF ResultIInv, Prepared, Way
  <2>5. ProductSoFar /\ QuotientSoFar
    BY DEF ResultIInv
  <2>6. ProductSoFar' /\ QuotientSoFar'
    BY ONLY <2>1, <2>2, <2>3, <2>5 DEF ProductSoFar, QuotientSoFar
  <2>. QED  BY <1>1, <2>4, <2>6 DEF ResultIInv
<1>. QED  BY <1>2, <1>3, <1>4 DEF Next, ClockEdge

----------------------------------------------------------------------------
\* The result.

\* What the unit holds out is a result of the request.
Held == state = "STORAGE" => <<thi, tlo>> \in Unit!Results(req)

\* The invariant gives the result, word for word, whatever the operation.
LEMMA ResultHeld == ResultIInv => Held
<1> SUFFICES ASSUME ResultIInv, state = "STORAGE"
             PROVE  <<thi, tlo>> \in Unit!Results(req)
  BY DEF Held
<1>1. TypeOK /\ (mul \/ div) /\ Unit!M = M
  BY DEF ResultIInv, LoopIInv, Way, Unit!M, M
<1>2. /\ M \in Nat \ {0} /\ thi \in 0 .. M - 1 /\ tlo \in 0 .. M - 1
      /\ X * Y \in Int /\ Old \in Int
  BY <1>1, PairTypes DEF Old
<1>3. CASE mul
  <2>1. PICK k \in Int : thi * M + tlo = Wanted + k * (M * M)
    BY <1>3 DEF ResultIInv, ProductSoFar, Same, Pair
  <2>2. Wanted \in Int
    BY <1>2 DEF Wanted
  <2>3. thi = (Wanted \div M) % M /\ tlo = Wanted % M
    <3>1. \A m \in Nat \ {0} : \A h, l \in 0 .. m - 1 : \A n, j \in Int :
            h * m + l = n + j * (m * m) => (n \div m) % m = h /\ n % m = l
      BY PairOfWords
    <3>2. \A h, l \in 0 .. M - 1 : \A n, j \in Int :
            h * M + l = n + j * (M * M) => (n \div M) % M = h /\ n % M = l
      BY ONLY <1>2, <3>1, Zenon
    <3>3. \A n, j \in Int :
            thi * M + tlo = n + j * (M * M) => (n \div M) % M = thi /\ n % M = tlo
      BY ONLY <1>2, <3>2, Zenon
    <3>. QED  BY ONLY <2>1, <2>2, <3>3, k \in Int, Zenon
  <2>4. <<thi, tlo>> = Unit!Words(Wanted)
    BY ONLY <1>1, <2>3, Zenon DEF Unit!Words
  <2>5. Unit!Results(req) = {Unit!Words(Wanted)}
    <3>1. req.op \in {"MULT", "MULTU"} => Wanted = X * Y
      BY DEF Wanted, add, sub
    <3>2. req.op \in {"MADD", "MADDU"} => Wanted = Old + X * Y
      BY DEF Wanted, add
    <3>3. req.op \in {"MSUB", "MSUBU"} => Wanted = Old - X * Y
      BY DEF Wanted, add, sub
    <3> HIDE DEF Wanted
    <3>4. req.op \in {"MULT", "MULTU", "MADD", "MADDU", "MSUB", "MSUBU"}
      BY <1>3 DEF mul, MulOps
    <3> DEFINE o == Unit!Operand(req, req.a)
               p == Unit!Operand(req, req.b)
               acc == req.hi * Unit!M + req.lo
               w1 == Unit!Words(o * p)
               w2 == Unit!Words(acc + o * p)
               w3 == Unit!Words(acc - o * p)
               w4 == IF p = 0 THEN Unit!Word \X Unit!Word
                     ELSE {<<Unit!Remainder(o, p) % Unit!M, Unit!Quotient(o, p) % Unit!M>>}
    <3>5. Unit!Results(req) =
            CASE req.op \in {"MULT", "MULTU"} -> {w1}
              [] req.op \in {"MADD", "MADDU"} -> {w2}
              [] req.op \in {"MSUB", "MSUBU"} -> {w3}
              [] req.op \in Unit!DivOps -> w4
              [] OTHER -> {}
      BY Zenon DEF Unit!Results
    <3>6. w1 = Unit!Words(X * Y) /\ w2 = Unit!Words(Old + X * Y) /\ w3 = Unit!Words(Old - X * Y)
      BY <1>1, Zenon DEF X, Y, Old
    <3> HIDE DEF w1, w2, w3, w4
    <3>7. /\ req.op \in {"MULT", "MULTU"} => Unit!Results(req) = {w1}
          /\ req.op \in {"MADD", "MADDU"} => Unit!Results(req) = {w2}
          /\ req.op \in {"MSUB", "MSUBU"} => Unit!Results(req) = {w3}
      BY ONLY <3>5 DEF Unit!DivOps
    <3>. QED  BY ONLY <3>1, <3>2, <3>3, <3>4, <3>7, <3>6
  <2>. QED  BY <2>4, <2>5
<1>4. CASE div
  <2>1. req.op \in {"DIV", "DIVU"}
    BY <1>4 DEF div, DivOps
  <2>2. Unit!Results(req) = IF Y = 0 THEN Unit!Word \X Unit!Word
                            ELSE {<<Unit!Remainder(X, Y) % M, Unit!Quotient(X, Y) % M>>}
    BY <1>1, <2>1 DEF Unit!Results, Unit!DivOps, X, Y
  <2>3. CASE Y = 0
    BY <1>1, <1>2, <2>2, <2>3 DEF Unit!Word
  <2>4. CASE Y # 0
    <3>1. AbsB # 0
      BY <1>1, <2>4, Magnitudes DEF ResultIInv, Prepared
    <3>2. tlo = Unit!Quotient(X, Y) % M /\ thi = Unit!Remainder(X, Y) % M
      BY <1>4, <3>1 DEF ResultIInv, QuotientSoFar
    <3>. QED  BY <2>2, <2>4, <3>2
  <2>. QED  BY <2>3, <2>4
<1>. QED  BY <1>1, <1>3, <1>4

\* Every step is a step of the abstract unit, or one that it does not see.
LEMMA UnitStep == ResultIInv /\ Held' /\ [Next]_vars => [Unit!Next]_Unit!vars
<1> SUFFICES ASSUME ResultIInv, Held', [Next]_vars
             PROVE  [Unit!Next]_Unit!vars
  OBVIOUS
<1> DEFINE md  == IF state \in {"WAIT", "STORAGE"} THEN state ELSE "RUN"
           out == IF state = "STORAGE" THEN <<thi, tlo>> ELSE <<>>
<1>1. ASSUME NEW busy \in BOOLEAN, Clock(busy)
      PROVE  [Unit!Next]_Unit!vars
  <2> DEFINE stall == waiting_result \/ busy
  <2>1. /\ state' = next_state(stall) /\ (stall => req' = req) /\ (~stall => req' \in Following)
        /\ DataPath /\ TypeOK /\ Way
    BY <1>1 DEF Clock, ResultIInv, LoopIInv
  <2>2. CASE state = "WAIT"
    <3>1. CASE mul \/ div
      <4>1. stall /\ state' \notin {"WAIT", "STORAGE"}
        BY <2>1, <2>2, <3>1 DEF waiting_result, next_state, Compute
      <4>2. req.op # "NCARE"
        BY <3>1 DEF mul, div, MulOps, DivOps
      <4>. QED  BY <2>1, <2>2, <4>1, <4>2 DEF Unit!Next, Unit!Start
    <3>2. CASE ~(mul \/ div)
      <4>1. state' = "WAIT"
        BY <2>1, <2>2, <3>2, NegativeIsOperation DEF next_state
      <4>2. req.op = "NCARE"
        BY <2>1, <3>2 DEF TypeOK, Request, mul, div
      <4>. QED  BY <2>1, <2>2, <4>1, <4>2 DEF Unit!Next, Unit!Idle, Unit!vars
    <3>. QED  BY <3>1, <3>2
  <2>3. CASE state = "STORAGE"
    <3>1. CASE stall
      <4>1. state' = "STORAGE" /\ thi' = thi /\ tlo' = tlo /\ req' = req
        BY <2>1, <2>3, <3>1 DEF next_state, Released, DataPath, High, Low
      <4>. QED  BY <2>3, <4>1 DEF Unit!vars
    <3>2. CASE ~stall
      <4>1. state' = "WAIT"
        BY <2>1, <2>3, <3>2 DEF next_state, Released
      <4>. QED  BY <2>1, <2>3, <3>2, <4>1 DEF Unit!Next, Unit!Release, Unit!NoResult
    <3>. QED  BY <3>1, <3>2
  <2>4. CASE state \notin {"WAIT", "STORAGE"}
    <3>1. stall /\ state' # "WAIT"
      BY <2>1, <2>4 DEF waiting_result, next_state, Compute, Accumulate, TypeOK, State
    <3>2. req' = req
      BY <2>1, <3>1
    <3>3. CASE state' = "STORAGE"
      <4>1. <<thi', tlo'>> \in Unit!Results(req')
        BY <3>3 DEF Held
      <4>. QED  BY <2>4, <3>2, <3>3, <4>1 DEF Unit!Next, Unit!Finish
    <3>4. CASE state' # "STORAGE"
      BY <2>4, <3>1, <3>2, <3>4 DEF Unit!vars
    <3>. QED  BY <3>3, <3>4
  <2>. QED  BY <2>2, <2>3, <2>4
<1>2. CASE Clear
  BY <1>2 DEF Clear, Unit!Next, Unit!Clear, Unit!NoResult, NoRequest, Unit!NoRequest
<1>3. CASE UNCHANGED vars
  BY <1>3 DEF vars, data, Unit!vars
<1>. QED  BY <1>1, <1>2, <1>3 DEF Next, ClockEdge

\* The unit behaves as the execute stage assumes: it takes a request, computes
\* for a while and holds out the product, the sum, the difference, or the
\* quotient and the remainder, until the stage moves on (div_mul.sv:9-13).
THEOREM ResultCorrect == Spec => ImplementsUnit
<1>1. Init => Unit!Init
  BY DEF Init, Unit!Init, Unit!NoResult
<1>. QED
  BY <1>1, ResultInit, ResultStep, ResultHeld, UnitStep, PTL DEF Spec, ImplementsUnit, Unit!Spec

=============================================================================
