------------------------------ MODULE CoreLive ------------------------------
(***************************************************************************)
(* The pipeline of Core while the clock runs and nobody presses reset.     *)
(*                                                                         *)
(* A pipeline that is stuck is one whose clock edges change nothing, which *)
(* Core cannot tell from a clock that has stopped.  phase counts the edges *)
(* modulo 2, so that every edge is a step.                                 *)
(***************************************************************************)
EXTENDS Core

VARIABLE phase

liveVars == <<vars, phase>>

Edge(done) == (\E in \in IrqInput : Tick(in, done)) /\ phase' = 1 - phase

\* The clock never stops; and a multiplication that has begun is done at some
\* edge, for div_mul counts its cycles (tick_count) until it ends.
Fairness == []<><<Edge(TRUE)>>_liveVars

LiveSpec ==
  /\ Init /\ phase = 0
  /\ [][\E done \in BOOLEAN : Edge(done)]_liveVars
  /\ Fairness

\* The pipeline never stops: whatever stalls it, of the multiplier, of a load,
\* of an exception (pipeline_flow_controller.sv:95-146), instructions keep
\* leaving the execute stage.
Progress == []<>(mem.fetch \/ mem.excdata.happen)

\* A stored interrupt is taken, or the program disables interrupts, even in a
\* loop of a branch and its delay slot, half of whose cycles are bubbles no
\* interrupt is taken on (exception_controller.sv:50, 90).
InterruptServed == irq ~> (~irq \/ ~InterruptsEnabled(cop0["Status"]))

=============================================================================
