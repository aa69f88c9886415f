---------------------------- MODULE TestProgram ----------------------------
(***************************************************************************)
(* A test program at work: a generator writes instructions, the processor  *)
(* and the simulator execute them, and the test bench watches.             *)
(*                                                                         *)
(* The modules of the test programs extend this one with the state of      *)
(* their generators.  The code is straight-line, so executing each piece   *)
(* after it has been written is the same as executing the whole program at *)
(* the end.                                                                *)
(***************************************************************************)
EXTENDS AsmLib, TestBench, Datapath, Reference

CONSTANTS Tests,      \* the programs to run
          MaxCalls    \* bound on the callbacks: some thousands in the code

VARIABLES cpu,      \* the processor
          sim,      \* the simulator
          bench,    \* the test bench
          test,     \* the program being generated
          at,       \* where its generator is, "run" while the machines are at work
          then,     \* where it goes on afterwards
          piece,    \* what it has written
          calls     \* how often it has called its callback

program == <<cpu, sim, bench, test, at, then, piece, calls>>

\* A piece of a program: code, and at its end a branch to one address or the
\* other.
Nop     == RType("ADDU", 0, 0, 0)
Nothing == [code |-> <<>>, branch |-> Nop, to |-> 0, other |-> 0]

Write(p)   == piece' = p /\ UNCHANGED <<cpu, sim, bench>>
Emit(code) == Write([Nothing EXCEPT !.code = code])

\* Where the generator goes on.
Goto(place) == at' = "run" /\ then' = place /\ UNCHANGED test

\* Execute the piece.  A register dump is compared when the code is the end of
\* the program: it holds the registers the simulator ends with.
Branched(c, s, b, target) ==
  /\ cpu' = [CpuStep(c, piece.branch) EXCEPT
               !.log = <<>>, !.pc = NextPc(c, piece.branch, piece.to, piece.other)]
  /\ sim' = [SimStep(s, piece.branch) EXCEPT
               !.pc = SimNextPc(s, piece.branch, piece.to, piece.other)]
  /\ bench' = IF then = "done" /\ b.exit THEN EndOfTest(b, target) ELSE b

Ran(c, s, target) ==
  Branched(c, s, FoldLeft(LAMBDA b, strobe : React(b, strobe, s.gpr), bench, c.log), target)

Resume == at' = then /\ then' = "" /\ piece' = Nothing /\ UNCHANGED <<test, calls>>

RunPiece(target) ==
  /\ at = "run" /\ Resume
  /\ Ran(FoldLeft(CpuStep, cpu, piece.code), FoldLeft(SimStep, sim, piece.code), target)

\* new_test loads what data a program has into memory.  A program without data
\* finds in the processor's memory what the program before it has left there.
Leftover == [w \in MemWord |-> M - 1]
NoData   == [w \in MemWord |-> 0]

Start(first, cpumem, simmem) ==
  /\ test \in Tests /\ at = first[test] /\ calls = 0
  /\ cpu = Reset(cpumem) /\ sim = Reset(simmem) /\ bench = FreshBench
  /\ then = "" /\ piece = Nothing

\* One more call of a callback from the loop at this place.
CallAt(place) == at = place /\ calls < MaxCalls /\ calls' = calls + 1

\* The common end of the programs.
Finish ==
  /\ \/ at \in {"mix", "last"}
     \/ at = "next" /\ calls > 0
  /\ \E regs \in Registers(2, {}) : Emit(CheckAndExit(FALSE, regs))
  /\ Goto("done") /\ UNCHANGED calls

MachineOK(m) ==
  /\ m.gpr \in [Reg -> Word] /\ m.hi \in Word /\ m.lo \in Word
  /\ m.mem \in [MemWord -> Word] /\ m.llbit \in BOOLEAN /\ m.log = <<>>
  /\ m.pc \in Word

ProgramOK ==
  test \in Tests /\ calls \in 0 .. MaxCalls /\ MachineOK(cpu) /\ MachineOK(sim)

----------------------------------------------------------------------------

\* The bench reports no error: what the processor computes is what the
\* generator computed on unbounded integers and what the simulator computes,
\* and every check a target asks for is hit.
NoFalseAlarm == bench.errors = {}

\* The simulator and the processor agree in every register after every piece of
\* a program, not only where the program compares them, although their memories
\* differ when the program starts.
CpuIsReference ==
  cpu.gpr = sim.gpr /\ cpu.hi = sim.hi /\ cpu.lo = sim.lo /\ cpu.pc = sim.pc

=============================================================================
