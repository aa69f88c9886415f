----------------------------- MODULE MCCoreLive -----------------------------
(***************************************************************************)
(* Instances of CoreLive for TLC.                                          *)
(***************************************************************************)
EXTENDS CoreLive, MCCore

\* The loops the pipeline may wait in: a multiplication, a load-use stall, a
\* handler, a program that disables interrupts.
LivePool ==
  { R("MULT", 0, 1, 1), I("LW", 2, 0, 4), I("SW", 1, 2, 0), R("BREAK", 0, 0, 0),
    C("DI", 2, "Status"), C("MTC0", 2, "Status"), C("ERET", 0, "Status") }
LivePrograms ==
  WithBodies(EnableInterrupts, LivePool, 2, Loop, Skip, IntReturn) \cup InterruptPrograms

\* What SeparateMemoriesImplementIsa (CoreProofs) asks of the constants.
ASSUME SeparateMemories ==
  /\ TextAddr = {} /\ DataAddr = {a \in Word : a % 2 = 0}
  /\ \A p \in Programs : Allowed(p)

=============================================================================
