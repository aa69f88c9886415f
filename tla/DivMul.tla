------------------------------- MODULE DivMul -------------------------------
(***************************************************************************)
(* The bit-serial multiplier and divider (src/alu/div_mul) behind its      *)
(* wrapper in the execute stage (multiply_div_wrapper).                    *)
(*                                                                         *)
(* One step is one clock edge.  The sign of the operands, the operation    *)
(* and whether it accumulates select a path through the states; one adder  *)
(* serves them all.                                                        *)
(***************************************************************************)
EXTENDS Integers

CONSTANTS W,          \* bits of a word, a power of two: 32 in the code
          Requests,   \* the requests a run begins with
          Following,  \* the requests that may come after
          Junk        \* what an undefined register may hold

M    == 2^W
Word == 0 .. M - 1

MulOps == {"MULT", "MULTU", "MADD", "MADDU", "MSUB", "MSUBU"}
DivOps == {"DIV", "DIVU"}

Request ==
  [ op : MulOps \cup DivOps \cup {"NCARE"},
    a : Word, b : Word, hi : Word, lo : Word ]

NoRequest == [op |-> "NCARE", a |-> 0, b |-> 0, hi |-> 0, lo |-> 0]

ASSUME WidthAssumption == W \in {2, 4, 8, 16, 32}
ASSUME RequestAssumption == Requests \subseteq Request /\ Following \subseteq Request
ASSUME JunkAssumption == Junk \subseteq Word

VARIABLES
  state,         \* current_state
  req,           \* the operation and the operands in the execute stage
  thi, tlo,      \* the accumulators
  a_neg, b_neg,  \* the operands negated
  tick,          \* tick_count
  carry          \* cout_reg

data == <<thi, tlo, a_neg, b_neg, tick, carry>>
vars == <<state, req, data>>

----------------------------------------------------------------------------
\* The control signals of the wrapper.

mul        == req.op \in MulOps
div        == req.op \in DivOps
add        == req.op \in {"MADD", "MADDU"}
sub        == req.op \in {"MSUB", "MSUBU"}
using_sign == req.op \in {"MULT", "DIV", "MADD", "MSUB"}

Top(x) == x >= M \div 2            \* the most significant bit
BitOf(x, i) == (x \div 2^i) % 2

NegativeA == using_sign /\ Top(req.a)
NegativeB == using_sign /\ Top(req.b)

AbsA == IF NegativeA THEN a_neg ELSE req.a
AbsB == IF NegativeB THEN b_neg ELSE req.b

\* The bit of the first operand of this tick: multiplication begins with the
\* last bit, division with the first.
AIter == BitOf(AbsA, IF mul THEN tick ELSE W - 1 - tick)

----------------------------------------------------------------------------
\* The adder.

Not(x) == M - 1 - x
Bit(b) == IF b THEN 1 ELSE 0

\* srcA + srcB + cin, with its carry, in the states that use it.
Sum ==
  CASE state = "MAKE_ABS_A" -> Not(req.a) + 1
    [] state = "MAKE_ABS_B" -> Not(req.b) + 1
    [] state = "MUL"        -> thi + AIter * AbsB
    [] state = "DIV"        -> ((2 * thi) % M) + AIter + Not(AbsB) + 1
    [] state \in {"NEG_QUOTIENT_TLO", "NEG_PRODUCT_TLO"} -> Not(tlo) + 1
    [] state = "NEG_REMAINDER_THI" -> Not(thi) + 1
    [] state = "NEG_PRODUCT_THI"   -> Not(thi) + Bit(carry)
    [] state = "PREVIOUS_SUB_TLO"  -> req.lo + Not(tlo) + 1
    [] state = "PREVIOUS_SUB_THI"  -> req.hi + Not(thi) + Bit(carry)
    [] state = "PREVIOUS_ADD_TLO"  -> req.lo + tlo
    [] state = "PREVIOUS_ADD_THI"  -> req.hi + thi + Bit(carry)

alu_out == Sum % M
cout    == Sum >= M

----------------------------------------------------------------------------
\* The state machine.

\* After the loop of a multiplication, with the sign of the product settled.
Accumulate == CASE add -> "PREVIOUS_ADD_TLO" [] sub -> "PREVIOUS_SUB_TLO"
                [] OTHER -> "STORAGE"

Compute == IF mul THEN "MUL" ELSE "DIV"

LastTick == tick = W - 1

DifferentSigns == using_sign /\ (Top(req.a) # Top(req.b))

\* Mutant: a held result is dropped.
ReleasedUnasked(stall) == "WAIT"

\* The result stays until the execute stage moves on.
Released(stall) == IF stall THEN "STORAGE" ELSE "WAIT"

next_state(stall) ==
  CASE state = "WAIT" ->
         IF NegativeA THEN "MAKE_ABS_A" ELSE IF NegativeB THEN "MAKE_ABS_B"
         ELSE IF mul \/ div THEN Compute ELSE "WAIT"
    [] state = "MAKE_ABS_A" -> IF Top(req.b) THEN "MAKE_ABS_B" ELSE Compute
    [] state = "MAKE_ABS_B" -> Compute
    [] state = "DIV" ->
         IF ~LastTick THEN "DIV"
         ELSE IF DifferentSigns THEN "NEG_QUOTIENT_TLO"
         ELSE IF NegativeA THEN "NEG_REMAINDER_THI" ELSE "STORAGE"
    [] state = "MUL" ->
         IF ~LastTick THEN "MUL"
         ELSE IF DifferentSigns THEN "NEG_PRODUCT_TLO" ELSE Accumulate
    [] state = "NEG_PRODUCT_TLO"  -> "NEG_PRODUCT_THI"
    [] state = "NEG_PRODUCT_THI"  -> Accumulate
    [] state = "NEG_QUOTIENT_TLO" -> IF Top(req.a) THEN "NEG_REMAINDER_THI" ELSE "STORAGE"
    [] state = "PREVIOUS_SUB_TLO" -> "PREVIOUS_SUB_THI"
    [] state = "PREVIOUS_ADD_TLO" -> "PREVIOUS_ADD_THI"
    [] state \in {"NEG_REMAINDER_THI", "PREVIOUS_SUB_THI", "PREVIOUS_ADD_THI"} -> "STORAGE"
    [] state = "STORAGE" -> Released(stall)

\* The request waits for its result.
waiting_result == state \notin {"WAIT", "STORAGE"} \/ (state = "WAIT" /\ (mul \/ div))

----------------------------------------------------------------------------
\* The registers of the data path.

TickStates == {"MUL", "DIV"}

\* Mutant: the counter stands still.
TickStuck == IF state \in TickStates THEN tick' = tick
             ELSE IF state \in {"WAIT", "MAKE_ABS_A", "MAKE_ABS_B"} THEN tick' = 0
             ELSE tick' \in {0, W - 1}

\* It wraps at the width of a word; where the code does not care it is
\* undefined.
Tick == IF state \in TickStates THEN tick' = (tick + 1) % W
        ELSE IF state \in {"WAIT", "MAKE_ABS_A", "MAKE_ABS_B"} THEN tick' = 0
        ELSE tick' \in {0, W - 1}

\* Mutant: the carry out of the partial product is lost.
HighWithoutCarry ==
  thi' = CASE state \in {"WAIT", "MAKE_ABS_A", "MAKE_ABS_B"} -> 0
           [] state = "MUL" -> alu_out \div 2
           [] state = "DIV" -> IF cout THEN alu_out ELSE ((2 * thi) % M) + AIter
           [] state \in {"NEG_REMAINDER_THI", "NEG_PRODUCT_THI",
                         "PREVIOUS_SUB_THI", "PREVIOUS_ADD_THI"} -> alu_out
           [] OTHER -> thi

High ==
  thi' = CASE state \in {"WAIT", "MAKE_ABS_A", "MAKE_ABS_B"} -> 0
           [] state = "MUL" -> (Bit(cout) * (M \div 2)) + (alu_out \div 2)
           [] state = "DIV" -> IF cout THEN alu_out ELSE ((2 * thi) % M) + AIter
           [] state \in {"NEG_REMAINDER_THI", "NEG_PRODUCT_THI",
                         "PREVIOUS_SUB_THI", "PREVIOUS_ADD_THI"} -> alu_out
           [] OTHER -> thi

\* Mutant: the quotient is shifted without losing its first bit.
LowUnbounded ==
  IF state \in {"WAIT", "MAKE_ABS_A", "MAKE_ABS_B"} THEN tlo' \in Junk
  ELSE tlo' = CASE state = "MUL" -> ((alu_out % 2) * (M \div 2)) + (tlo \div 2)
                [] state = "DIV" -> 2 * tlo + Bit(cout)
                [] state \in {"NEG_QUOTIENT_TLO", "NEG_PRODUCT_TLO",
                              "PREVIOUS_SUB_TLO", "PREVIOUS_ADD_TLO"} -> alu_out
                [] OTHER -> tlo

Low ==
  IF state \in {"WAIT", "MAKE_ABS_A", "MAKE_ABS_B"} THEN tlo' \in Junk
  ELSE tlo' = CASE state = "MUL" -> ((alu_out % 2) * (M \div 2)) + (tlo \div 2)
                [] state = "DIV" -> ((2 * tlo) % M) + Bit(cout)
                [] state \in {"NEG_QUOTIENT_TLO", "NEG_PRODUCT_TLO",
                              "PREVIOUS_SUB_TLO", "PREVIOUS_ADD_TLO"} -> alu_out
                [] OTHER -> tlo

Negated ==
  /\ a_neg' = IF state = "MAKE_ABS_A" THEN alu_out ELSE a_neg
  /\ b_neg' = IF state = "MAKE_ABS_B" THEN alu_out ELSE b_neg

Carry == IF state \in {"WAIT", "STORAGE"} THEN carry' \in BOOLEAN ELSE carry' = cout

DataPath == Tick /\ High /\ Low /\ Negated /\ Carry

----------------------------------------------------------------------------
\* The registers have no reset.
Init ==
  /\ state = "WAIT" /\ req \in Requests
  /\ thi \in Junk /\ tlo \in Junk /\ a_neg \in Junk /\ b_neg \in Junk
  /\ tick \in {0, W - 1} /\ carry \in BOOLEAN

\* A clock edge.  busy says that something else stalls the execute stage.
Clock(busy) ==
  LET stall == waiting_result \/ busy
  IN  /\ state' = next_state(stall)
      /\ IF stall THEN UNCHANGED req ELSE req' \in Following
      /\ DataPath

\* The execute stage is nullified, or reset: the data path goes on.
Clear == state' = "WAIT" /\ req' = NoRequest /\ DataPath

ClockEdge == \E busy \in BOOLEAN : Clock(busy)

Next == ClockEdge \/ Clear

Spec == Init /\ [][Next]_vars

\* The clock never stops.  No fairness is asked of Clear: a unit that stands
\* still is not rescued by it.
LiveSpec == Spec /\ WF_vars(ClockEdge)

----------------------------------------------------------------------------
\* Properties.

State ==
  {"WAIT", "MAKE_ABS_A", "MAKE_ABS_B", "MUL", "DIV", "NEG_PRODUCT_TLO",
   "NEG_PRODUCT_THI", "NEG_QUOTIENT_TLO", "NEG_REMAINDER_THI",
   "PREVIOUS_SUB_TLO", "PREVIOUS_SUB_THI", "PREVIOUS_ADD_TLO",
   "PREVIOUS_ADD_THI", "STORAGE"}

\* Every register stays in the width of a word, and the counter in that of the
\* word's bits (div_mul.sv:37-46).
TypeOK ==
  /\ state \in State /\ req \in Request
  /\ thi \in Word /\ tlo \in Word /\ a_neg \in Word /\ b_neg \in Word
  /\ tick \in 0 .. W - 1 /\ carry \in BOOLEAN

\* After tick bits of the first operand, the accumulators hold its product with
\* the second, in a register pair that has been shifted right that often; or
\* the remainder and the quotient of the bits divided so far
\* (div_mul.sv:358-366).
LoopInvariant ==
  /\ state = "MUL" =>
       (thi * 2^tick) + (tlo \div 2^(W - tick)) = (AbsA % 2^tick) * AbsB
  /\ state = "DIV" /\ AbsB # 0 =>
       /\ AbsA \div 2^(W - tick) = ((tlo % 2^tick) * AbsB) + thi
       /\ thi < AbsB

\* A request that is not cleared gets its result, however its operands are
\* signed (div_mul.sv:219-318).
ResultArrives == (mul \/ div) ~> (state = "STORAGE" \/ req = NoRequest)

\* The unit behaves as the execute stage assumes: it waits, computes for a
\* while, and holds out the result of the request it was given until the stage
\* moves on; what an earlier or a cleared request has left in its registers
\* does not matter (div_mul.sv:9-13).
Unit == INSTANCE MulDivUnit WITH
  md  <- IF state \in {"WAIT", "STORAGE"} THEN state ELSE "RUN",
  out <- IF state = "STORAGE" THEN <<thi, tlo>> ELSE <<>>
ImplementsUnit == Unit!Spec

=============================================================================
