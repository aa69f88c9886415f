-------------------------- MODULE InterruptStorage --------------------------
(***************************************************************************)
(* The interrupt lines of core.sv, from their inputs to the pending bits   *)
(* of Cause: the synchroniser and the register of interrupt_storage, what  *)
(* the exception controller takes of it, and what register_cop0 records.   *)
(* The pipeline is reduced to what the lines see of it in a cycle: whether *)
(* there is an instruction in the execute stage, whether it has a fault,   *)
(* and whether the memory stage is stalled.  A cycle and a step of the     *)
(* handler are steps of their own.  The devices are the environment        *)
(* (top.sv has none): a device holds its line until the handler serves it. *)
(***************************************************************************)
EXTENDS Integers

CONSTANTS Lines,    \* the lines looked at, of 0 .. 5
          Masks     \* the values of IM in Status, as sets of lines

Count    == 0                        \* count_interrupt, on the core's own clock
SyncMask == Lines \ {Count}          \* 6'b111110
Levels   == 1 .. 2                   \* of the synchroniser

\* Lines that register_cop0 records: its loop ends one short of the last.
Recorded == Lines \cap 0 .. 4

VARIABLES request,       \* external_interrupt, as the devices hold it
          synchronizer,
          int_reg,
          mask,          \* IM, which does not change
          exl,           \* EXL or ERL, as the execute stage sees it
          ext_int,       \* of the exception data in the memory stage
          cause          \* the pending bits

vars == <<request, synchronizer, int_reg, mask, exl, ext_int, cause>>

Init ==
  /\ request = {} /\ synchronizer = [k \in Levels |-> {}] /\ int_reg = {}
  /\ mask \in Masks /\ exl = TRUE /\ ext_int = {} /\ cause = {}

----------------------------------------------------------------------------
\* interrupt_masked, when there is an instruction to interrupt.
Taken(fetch) == IF fetch /\ ~exl THEN int_reg \cap mask ELSE {}

\* Mutant: the register is cleared although the memory stage is stalled.
AcceptAnyway(fetch, stall) == Taken(fetch) # {}

\* accept_interrupt, which clears the register; the memory stage has no bubble.
Accept(fetch, stall) == Taken(fetch) # {} /\ ~stall

\* An edge of the clock.  The register catches the timer at once, and the others
\* behind the synchroniser; but when it is cleared, none.  Any exception that the
\* memory stage takes sets EXL, and an interrupt comes before a fault.  Cause is
\* written even while the memory stage is stalled.
Clock(overflow, fetch, fault, stall) ==
  LET in      == request \cup (IF overflow THEN {Count} ELSE {})
      arrives == (SyncMask \cap synchronizer[2]) \cup (in \ SyncMask)
  IN  /\ synchronizer' = [k \in Levels |-> IF k = 1 THEN in ELSE synchronizer[k - 1]]
      /\ int_reg' = IF Accept(fetch, stall) THEN {} ELSE int_reg \cup arrives
      /\ ext_int' = IF stall THEN ext_int ELSE Taken(fetch)
      /\ exl' = (exl \/ (~stall /\ (Taken(fetch) # {} \/ (fetch /\ fault))))
      /\ cause' = cause \cup (ext_int \cap Recorded)
      /\ UNCHANGED <<request, mask>>

\* A device raises its line, asynchronously.
Raise(i) ==
  /\ i \in SyncMask /\ request' = request \cup {i}
  /\ UNCHANGED <<synchronizer, int_reg, mask, exl, ext_int, cause>>

\* The handler, whose first instruction comes behind the exception: it serves a
\* pending line, and clears its bit with mtc0; or ends, with eret.
Serve(i) ==
  /\ exl /\ ext_int = {} /\ i \in cause
  /\ request' = request \ {i} /\ cause' = cause \ {i}
  /\ UNCHANGED <<synchronizer, int_reg, mask, exl, ext_int>>

Return ==
  /\ exl /\ ext_int = {} /\ exl' = FALSE
  /\ UNCHANGED <<request, synchronizer, int_reg, mask, ext_int, cause>>

Next ==
  \/ \E overflow, fetch, fault, stall \in BOOLEAN : Clock(overflow, fetch, fault, stall)
  \/ \E i \in Lines : Raise(i) \/ Serve(i)
  \/ Return

\* The pipeline brings valid instructions through an unstalled memory stage again
\* and again (CoreLive), and the program leaves its handlers.
Ready == \E overflow, fault \in BOOLEAN : Clock(overflow, TRUE, fault, FALSE)

Spec == Init /\ [][Next]_vars /\ WF_vars(Ready) /\ WF_vars(Return)

----------------------------------------------------------------------------

TypeOK ==
  /\ request \subseteq SyncMask /\ synchronizer \in [Levels -> SUBSET Lines]
  /\ int_reg \subseteq Lines /\ mask \in Masks /\ exl \in BOOLEAN
  /\ ext_int \subseteq mask /\ cause \subseteq Recorded

\* An interrupt that is enabled and has been caught, or that its device holds,
\* comes to be pending in Cause: it outlives the stalls of the memory stage, as
\* the comment at core.sv:39-43 asks, and the acceptance of another line, which
\* clears the whole register (interrupt_storage.sv:32).
InterruptsRecorded ==
  \A i \in Recorded :
    (i \in mask /\ (i \in int_reg \/ i \in request)) ~> (i \in cause)

=============================================================================
