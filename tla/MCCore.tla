------------------------------- MODULE MCCore -------------------------------
(***************************************************************************)
(* Instances of Core for TLC: the programs the pipeline runs.              *)
(***************************************************************************)
EXTENDS Core, Sequences

\* Instructions, written destination first as in assembly.
R(op, rd, rs, rt)   == [Nop EXCEPT !.op = op, !.rd = rd, !.rs = rs, !.rt = rt]
I(op, rt, rs, imm)  == [Nop EXCEPT !.op = op, !.rt = rt, !.rs = rs, !.imm = imm]
C(op, rt, c0)       == [Nop EXCEPT !.op = op, !.rt = rt, !.c0 = c0]
Set(rt, imm)        == I("ADDIU", rt, 0, imm)

Loop == <<I("BEQ", 0, 0, N - 1), Nop>>      \* a branch to itself

\* The code at 0, the exception handlers at MCVector and MCIntVector.
MCVector    == 10
MCIntVector == 14

Program(code, handler, intHandler) ==
  [a \in Word |->
     IF a < Len(code) THEN code[a + 1]
     ELSE IF a >= MCIntVector THEN
       IF a - MCIntVector < Len(intHandler) THEN intHandler[a - MCIntVector + 1] ELSE Nop
     ELSE IF a >= MCVector /\ a - MCVector < Len(handler)
     THEN handler[a - MCVector + 1] ELSE Nop]

\* Return to the instruction after the one that raised the exception.
Skip == <<C("MFC0", 1, "EPC"), I("ADDIU", 1, 1, 1), C("MTC0", 1, "EPC"),
          C("ERET", 0, "Status")>>
IntReturn == <<R("MFHI", 3, 0, 0), C("ERET", 0, "Status")>>

MCDataAddr == {a \in Word : a % 2 = 0}
MCInitData == [a \in MCDataAddr |-> (a + 5) % N]

Bodies(pool, len) == [1 .. len -> pool]
WithBodies(before, pool, len, after, handler, intHandler) ==
  {p \in {Program(before \o b \o after, handler, intHandler) : b \in Bodies(pool, len)}
     : WellFormed(p)}

----------------------------------------------------------------------------
\* Data hazards: each instruction may need what any of the three before it
\* produces.
DataPool ==
  { R("ADDU", 1, 1, 2), R("SUBU", 2, 1, 2), R("MOVN", 1, 2, 2), R("SLT", 2, 1, 2),
    R("MUL", 2, 1, 2), R("MADD", 0, 1, 2), R("MFHI", 1, 0, 0), R("MTLO", 0, 2, 0),
    I("LW", 1, 0, 4), I("LW", 2, 2, 0), I("SW", 1, 2, 0), R("SLL", 0, 0, 0) }

\* The two Nops keep the final branch clear of a busy instruction memory.
DataPrograms ==
  WithBodies(<<Set(1, 3), Set(2, 6)>>, DataPool, 3, <<Nop, Nop>> \o Loop, Skip, IntReturn)

\* Control hazards: branches and jumps that use what was just computed or
\* loaded, and every kind of instruction in a delay slot.
ControlPool ==
  { R("JR", 0, 1, 0), R("JALR", 2, 1, 0), I("J", 0, 0, 5), I("JAL", 0, 0, 4),
    I("BEQ", 0, 0, 1), I("BNE", 2, 1, 2), I("BNE", 2, 0, N - 2),
    I("BGEZAL", 0, 2, 1), I("BGEZAL", 0, 1, 0),
    I("LW", 1, 0, 0), R("ADDU", 2, 3, 1), R("MUL", 1, 1, 3), R("MOVZ", 1, 3, 0), Nop }

\* Register 1 holds the address of the loop, register 2 a negative number.
ControlPrograms ==
  WithBodies(<<Set(1, 5), Set(2, N - 1)>>, ControlPool, 3, Loop, Skip, IntReturn)

\* Exceptions: what raises them, in a delay slot too, and what changes the
\* coprocessor 0 state they use.  Register 1 enables interrupts in Status.
EnableInterrupts == <<Set(1, 9), C("MTC0", 1, "Status")>>

ExceptionPool ==
  { R("SYSCALL", 0, 0, 0), R("RESERVED", 0, 0, 0), R("TEQ", 0, 2, 1),
    R("ADD", 2, 2, 2), I("LW", 1, 0, 3), I("SW", 2, 0, 1), I("LL", 2, 0, 6),
    I("SC", 2, 0, 6), I("SC", 2, 0, 5), C("MTC0", 2, "Status"), C("MFC0", 2, "BadVAddr"),
    C("DI", 2, "Status"), C("EI", 1, "Status"), C("ERET", 0, "Status"),
    I("BEQ", 0, 0, 1), R("MULT", 0, 1, 2) }

ExceptionPrograms ==
  WithBodies(EnableInterrupts \o <<Set(2, 7)>>, ExceptionPool, 3, Loop, Skip, IntReturn)

AllPrograms == DataPrograms \cup ControlPrograms \cup ExceptionPrograms

\* Interrupts, at every point of a program that stalls, stores, branches,
\* faults and changes Status.
InterruptPool ==
  { R("MULT", 0, 1, 1), I("LW", 2, 0, 4), I("SW", 1, 2, 0), I("SW", 1, 0, 3),
    R("BREAK", 0, 0, 0), I("LL", 2, 0, 4), I("SC", 2, 0, 4), C("DI", 2, "Status"),
    C("EI", 2, "Status"), C("MTC0", 0, "Status"), I("ADDI", 2, 2, 2), R("MTHI", 0, 2, 0) }

InterruptPrograms ==
  WithBodies(EnableInterrupts, InterruptPool, 2, Loop, Skip, IntReturn)

\* A jump over a load and a store, for a busy instruction memory.
JumpPrograms ==
  {Program(<<I("LW", 1, 0, 4), Nop, I("J", 0, 0, 6), Nop, Nop, Nop>> \o Loop, Skip, IntReturn)}

\* A write to a read-only coprocessor 0 register.
ReadOnlyPrograms ==
  {Program(<<Set(1, 3), C("MTC0", 1, "BadVAddr")>> \o Loop, Skip, IntReturn)}

=============================================================================
