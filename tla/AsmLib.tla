------------------------------- MODULE AsmLib -------------------------------
(***************************************************************************)
(* What every test generator is written with: numutil draws numbers,       *)
(* regutil draws registers and asmutil writes instructions.                *)
(*                                                                         *)
(* A generator writes straight-line code, so the code it has written so    *)
(* far is also what the processor has executed: an operator here returns   *)
(* the sequence of instructions the code's method writes.  A random choice *)
(* is left to the caller, which quantifies over the sets defined here.     *)
(***************************************************************************)
EXTENDS Words

CONSTANTS Edge,   \* the numbers bound takes at each end, at least 1: 4 in the code
          Draw    \* the words a random draw may give

----------------------------------------------------------------------------
\* numutil: the numbers around the ends and the middle of a range.
Around(min, max) ==
  LET middle == (min + max) \div 2
  IN  (min .. min + Edge - 1) \cup (middle - Edge .. middle + Edge - 1)
      \cup (max - Edge .. max - 1)

Bound(len)       == Around(0, 2^len)
BoundSigned(len) == Around(-(2^(len - 1)), 2^(len - 1))

\* random.choice over a range: its ends, and what Draw has of it.
Choice(min, max) == {min, max - 1} \cup {d \in Draw : min <= d /\ d < max}

\* Mutant: the last mark has no next one.
JlOpen(k) == {[n \in 0 .. k - 1 |-> n + 1]}

\* Mutant: any permutation, of several cycles.
JlAny(k) == {f \in [0 .. k - 1 -> 0 .. k - 1] : IsInjective(f)}

\* jl: the next of each of k marks, along a cycle through all of them.
Jl(k) ==
  { [n \in 0 .. k - 1 |-> LET at == CHOOSE i \in 0 .. k - 1 : order[i] = n
                          IN  order[(at + 1) % k]]
    : order \in {f \in [0 .. k - 1 -> 0 .. k - 1] : IsInjective(f)} }

\* regutil: k different registers other than $0 and the excluded ones.
Registers(k, exclude) ==
  {r \in [1 .. k -> Reg \ ({0} \cup exclude)] : IsInjective(r)}

OneRegister(exclude) == Reg \ ({0} \cup exclude)

----------------------------------------------------------------------------
\* asmutil: load a number of any sign into a register.
Li(r, v) ==
  << IType("LUI", r, 0, (v \div 2^H) % 2^H), IType("ORI", r, r, v % 2^H) >>

\* An argument of sys is a constant or a register.
Const(v)  == [const |-> TRUE,  value |-> v]
InReg(r)  == [const |-> FALSE, value |-> r]

\* The registers sys may take for itself: none that holds an argument.
SysRegisters(args) ==
  Registers(2, {a.value : a \in {b \in ToSet(args) : ~b.const}})

\* Store the arguments into the debug memory, the function word last.
Sys(base, arg, args) ==
  LET store(k) ==
        LET at == BPW * (k - 1)
        IN  IF args[k].const
            THEN Append(Li(arg, args[k].value), IType("SW", arg, base, at))
            ELSE <<IType("SW", args[k].value, base, at)>>
  IN  <<IType("LUI", base, 0, 2^H - 1)>>
      \o FlattenSeq(Reverse([k \in DOMAIN args |-> store(k)]))

EqualArgs(r, v)    == <<Const(1), InReg(r), Const(v)>>
NotEqualArgs(r, v) == <<Const(2), InReg(r), Const(v)>>

AssertEqual(r, v, regs)    == Sys(regs[1], regs[2], EqualArgs(r, v))
AssertNotEqual(r, v, regs) == Sys(regs[1], regs[2], NotEqualArgs(r, v))

ClearReg == FlattenSeq([r \in 1 .. NReg - 1 |-> Li(r, 0)])

\* Arguments that are equal, to be asserted unequal: the mark of code that must
\* not be reached.
AlwaysFail(regs) == Sys(regs[1], regs[2], <<Const(2), Const(0), Const(0)>>)

CheckRegFunct == 2^H     \* 0x00010000

CheckReg(ignore_gp_sp, base, arg) ==
  Sys(base, arg, << Const(CheckRegFunct), IF ignore_gp_sp THEN Const(1) ELSE InReg(0) >>)

Exit(base) == Sys(base, 0, <<InReg(0)>>)

\* One base register serves both, so the registers the check sees are the ones
\* the program ends with.
CheckAndExit(ignore_gp_sp, regs) ==
  CheckReg(ignore_gp_sp, regs[1], regs[2]) \o Exit(regs[1])

\* get_random_alu: one of the instructions that neither trap nor touch memory.
RandomAlu ==
  {RType(op, r[1], r[2], r[3]) :
     op \in {"ADDU", "SUBU", "AND", "OR", "XOR", "NOR", "SLT", "SLTU"},
     r \in Registers(3, {})}
  \cup {RType(op, 0, r[1], r[2]) : op \in {"MULT", "MULTU"}, r \in Registers(3, {})}
  \cup {RType(op, r, 0, 0) : op \in {"MFHI", "MFLO"}, r \in OneRegister({})}
  \cup {RType(op, 0, r, 0) : op \in {"MTHI", "MTLO"}, r \in OneRegister({})}

=============================================================================
