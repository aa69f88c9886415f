---------------------------- MODULE MCKernelUart ----------------------------
(***************************************************************************)
(* Instances of Kernel, Uart and InterruptStorage for TLC, each a suite of *)
(* one run: they share nothing.  The lines are the timer's, an external    *)
(* one and the last, which is never recorded.  The periods are those of uart_test.sv, in nanoseconds:  *)
(* a host's clock of 14 ns divided by 40, and one of 22 ns divided by 26;  *)
(* and a receiver that is as much faster as that one is slower.            *)
(***************************************************************************)
EXTENDS Kernel

VARIABLES suite,                                   \* what runs
          message, sent, received,                 \* the variables of Uart
          txend, wait_retrieve, data_reg, previous_send_busy,
          sync_send, send, busy, serial, counter,
          rxend, previous_receive_busy, rx, ahead, idle,
          request, synchronizer, int_reg,          \* those of InterruptStorage
          mask, exl, ext_int, cause

uarts  == <<message, sent, received, txend, wait_retrieve, data_reg, previous_send_busy,
            sync_send, send, busy, serial, counter, rxend, previous_receive_busy, rx,
            ahead, idle>>
lines  == <<request, synchronizer, int_reg, mask, exl, ext_int, cause>>
all    == <<suite, vars, uarts, lines>>

MCPrograms ==
  {<<"nop">>, <<"syscall", "soft">>, <<"trap", "soft">>, <<"soft", "syscall", "trap">>}

Bytes == {0, 255, 85, 166, 1}

Slow == INSTANCE Uart WITH
  Messages <- {<<>>} \cup [1 .. 2 -> Bytes] \cup {<<166, 0, 255>>},
  SendPeriod <- 14 * 40, RecvPeriod <- 22 * 26, Phases <- {0, 144, 286, 428}, Delays <- {0, 37}

Fast == INSTANCE Uart WITH
  Messages <- {<<>>} \cup [1 .. 2 -> Bytes],
  SendPeriod <- 14 * 40, RecvPeriod <- 22 * 25, Phases <- {0, 277}, Delays <- {0, 21}

Storage == INSTANCE InterruptStorage WITH
  Lines <- {0, 1, 5}, Masks <- {{}, {0, 1}, {1, 5}, {0, 1, 5}}

\* What the theorems of UartProofs ask of the constants.
ASSUME ClocksWithinTolerance == Slow!Tolerance /\ Fast!Tolerance

KernelRests == Init /\ program = <<"nop">>
UartsRest   == Slow!Init /\ message = <<>> /\ ahead = 0
LinesRest   == Storage!Init /\ mask = {}

MCInit ==
  \/ suite = "kernel" /\ Init /\ UartsRest /\ LinesRest
  \/ suite = "slow" /\ Slow!Init /\ KernelRests /\ LinesRest
  \/ suite = "fast" /\ Fast!Init /\ KernelRests /\ LinesRest
  \/ suite = "lines" /\ Storage!Init /\ KernelRests /\ UartsRest

Others     == <<suite, vars, uarts>>
KernelNext == suite = "kernel" /\ Next /\ UNCHANGED <<suite, uarts, lines>>
UartNext ==
  /\ \/ suite = "slow" /\ Slow!Next
     \/ suite = "fast" /\ Fast!Next
  /\ UNCHANGED <<suite, vars, lines>>

LinesReady  == suite = "lines" /\ Storage!Ready /\ UNCHANGED Others
LinesReturn == suite = "lines" /\ Storage!Return /\ UNCHANGED Others
LinesNext   == suite = "lines" /\ Storage!Next /\ UNCHANGED Others

MCNext == KernelNext \/ UartNext \/ LinesNext

MCSpec ==
  /\ MCInit /\ [][MCNext]_all
  /\ WF_all(UartNext) /\ WF_all(LinesReady) /\ WF_all(LinesReturn)

----------------------------------------------------------------------------
\* The properties of Uart and InterruptStorage; those of Kernel hold while it rests, too.

\* Every variable holds a value of its type.
TypesOK ==
  /\ TypeOK
  /\ suite \in {"slow", "kernel"} => Slow!TypeOK
  /\ suite = "fast" => Fast!TypeOK
  /\ Storage!TypeOK

\* The bytes of uart_test.sv arrive in their order, each once, and all of them.
ImplementsChannel == Slow!ImplementsChannel

\* An enabled interrupt that is caught or held comes to be pending in Cause.
InterruptsRecorded == Storage!InterruptsRecorded

=============================================================================
