------------------------------ MODULE MCDivMul ------------------------------
(***************************************************************************)
(* Instances of DivMul for TLC.                                            *)
(***************************************************************************)
EXTENDS DivMul

Op(op, a, b, hi, lo) == [op |-> op, a |-> a, b |-> b, hi |-> hi, lo |-> lo]

\* Every operation on every pair of operands, with an accumulator whose sum or
\* difference with a product often carries out of the low word.
AllRequests ==
  [op : MulOps \cup DivOps, a : Word, b : Word, hi : {M - 2}, lo : {M \div 2 + 1}]

\* Requests that take the longest paths, to come after any other.
SomeRequests ==
  { NoRequest, Op("DIV", M - 3, 2, 0, 0), Op("MSUB", M \div 2, M - 1, 3, 1),
    Op("MADD", M \div 2 + 1, 3, M - 1, M - 1), Op("DIVU", M - 1, M \div 2 + 1, 0, 0) }

=============================================================================
