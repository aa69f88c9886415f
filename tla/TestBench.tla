----------------------------- MODULE TestBench -----------------------------
(***************************************************************************)
(* The test bench (testbench/top_test.sv): it watches the debug memory,    *)
(* carries out the function the program has stored there, and at the end   *)
(* asks whether the program used the checks it was said to use.            *)
(***************************************************************************)
EXTENDS Words

GP == NReg - 4     \* $28
SP == NReg - 3     \* $29

\* What new_test keeps of a running program.  errors stands for $error; the
\* bench then stops.
FreshBench ==
  [equal |-> FALSE, not_equal |-> FALSE, checked |-> FALSE,
   exit |-> FALSE, errors |-> {}]

\* check_regfile: the register file against the one the simulator dumped.
RegfileDiffers(rf, dump, ignore_gp_sp) ==
  \E r \in Reg : ~(ignore_gp_sp /\ r \in {GP, SP}) /\ rf[r] # dump[r]

Failing(b, test, error) == IF test THEN b.errors \cup {error} ELSE b.errors

\* do_one_cycle, when the program has just stored a function s.funct.
React(b, s, dump) ==
  CASE s.funct = 0 -> [b EXCEPT !.exit = TRUE]
    [] s.funct = 1 ->
         [b EXCEPT !.equal = TRUE,
                   !.errors = Failing(b, s.arg0 # s.arg1, "assert equal failed")]
    [] s.funct = 2 ->
         [b EXCEPT !.not_equal = TRUE,
                   !.errors = Failing(b, s.arg0 = s.arg1, "assert not equal failed")]
    [] s.funct \in {3, 4} -> b
    [] s.funct = 2^H ->
         [b EXCEPT !.checked = TRUE,
                   !.errors = Failing(b, RegfileDiffers(s.gpr, dump, s.arg0 = 2^H),
                                      "register file check failed")]
    [] OTHER -> [b EXCEPT !.errors = @ \cup {"unsupport check"}]

\* The end of new_test: the checks a target asks for must have been hit.
EndOfTest(b, target) ==
  [b EXCEPT !.errors = @
     \cup (IF target.equal /\ ~b.equal THEN {"assert equal not hit"} ELSE {})
     \cup (IF target.not_equal /\ ~b.equal THEN {"assert not equal not hit"} ELSE {})
     \cup (IF target.checked /\ ~b.checked THEN {"register check not hit"} ELSE {})]

=============================================================================
