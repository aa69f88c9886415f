------------------------------ MODULE MCBuild ------------------------------
(***************************************************************************)
(* An instance of Build for TLC: more scripts than there are slots, of     *)
(* Mars with and without data and of mix, and xori.py, whose two gens have *)
(* the same target.                                                        *)
(***************************************************************************)
EXTENDS Build

AllGens == [ andi |-> <<"andi_1", "andi_2">>, xori |-> <<"xori_1", "xori_1">>, lw |-> <<"lw">>,
             syscall |-> <<"syscall">>, cop0_unusable |-> <<"cop0_unusable">> ]

CompilerOf(t) ==
  CASE t = "syscall" -> "kernel" [] t = "cop0_unusable" -> "mix" [] OTHER -> "mars"

Data == {"lw"}

Some == {"andi", "xori", "lw", "cop0_unusable"}

=============================================================================
