----------------------------- MODULE MulDivUnit -----------------------------
(***************************************************************************)
(* What the multiplier and divider promises to the execute stage: it keeps *)
(* a request waiting for a while, then holds out its result until the      *)
(* stage moves on.  A cleared request has no result.                       *)
(*                                                                         *)
(* This is the unit that Core assumes, with the values it computes.        *)
(***************************************************************************)
EXTENDS Integers

CONSTANTS W,          \* bits of a word: 32 in the code
          Requests,   \* the requests a run begins with
          Following   \* the requests that may come after

M    == 2^W
Word == 0 .. M - 1

MulOps == {"MULT", "MULTU", "MADD", "MADDU", "MSUB", "MSUBU"}
DivOps == {"DIV", "DIVU"}
MulDivOp == MulOps \cup DivOps \cup {"NCARE"}

Request == [op : MulDivOp, a : Word, b : Word, hi : Word, lo : Word]

\* The execute stage holds a bubble, or an instruction of another kind.
NoRequest == [op |-> "NCARE", a |-> 0, b |-> 0, hi |-> 0, lo |-> 0]

VARIABLES md,    \* WAIT, RUN or STORAGE
          req,   \* the request in the execute stage
          out    \* the result <<hi, lo>>, when there is one

vars == <<md, req, out>>

NoResult == <<>>

----------------------------------------------------------------------------
\* What the instructions compute.

Negative(x) == x >= M \div 2
AsSigned(x) == IF Negative(x) THEN x - M ELSE x
Magnitude(x) == IF x < 0 THEN -x ELSE x

\* An operand of r as the number it stands for.
Operand(r, x) == IF r.op \in {"MULT", "MADD", "MSUB", "DIV"} THEN AsSigned(x) ELSE x

\* Division rounds to zero, and the remainder has the sign of the dividend.
Quotient(x, y) ==
  LET q == Magnitude(x) \div Magnitude(y)
  IN  IF (x < 0) = (y < 0) THEN q ELSE -q
Remainder(x, y) == x - y * Quotient(x, y)

Words(n) == <<(n \div M) % M, n % M>>

\* The results r may have: any, when it divides by zero.
Results(r) ==
  LET x == Operand(r, r.a)
      y == Operand(r, r.b)
      acc == r.hi * M + r.lo
  IN  CASE r.op \in {"MULT", "MULTU"} -> {Words(x * y)}
        [] r.op \in {"MADD", "MADDU"} -> {Words(acc + x * y)}
        [] r.op \in {"MSUB", "MSUBU"} -> {Words(acc - x * y)}
        [] r.op \in DivOps ->
             IF y = 0 THEN Word \X Word
             ELSE {<<Remainder(x, y) % M, Quotient(x, y) % M>>}
        [] OTHER -> {}

----------------------------------------------------------------------------

Init == md = "WAIT" /\ req \in Requests /\ out = NoResult

\* Another instruction enters the execute stage: nothing is asked of the unit.
Idle ==
  /\ md = "WAIT" /\ req.op = "NCARE"
  /\ req' \in Following /\ UNCHANGED <<md, out>>

Start ==
  /\ md = "WAIT" /\ req.op # "NCARE"
  /\ md' = "RUN" /\ UNCHANGED <<req, out>>

Finish ==
  /\ md = "RUN"
  /\ md' = "STORAGE" /\ out' \in Results(req) /\ UNCHANGED req

\* The stage moves on and takes the result with it.
Release ==
  /\ md = "STORAGE"
  /\ md' = "WAIT" /\ out' = NoResult /\ req' \in Following

Clear == md' = "WAIT" /\ req' = NoRequest /\ out' = NoResult

Next == Idle \/ Start \/ Finish \/ Release \/ Clear

Spec == Init /\ [][Next]_vars

=============================================================================
