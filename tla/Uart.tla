-------------------------------- MODULE Uart --------------------------------
(***************************************************************************)
(* Two UARTs (src/peripherals/uart) as the test bench connects them         *)
(* (testbench/uart_test.sv): one sends, the other receives.                *)
(*                                                                         *)
(* Each has a clock of its own, divided from that of its host: some forty  *)
(* edges of the host lie between two of the UART, and all but the ones      *)
(* below change nothing.  The periods of the two UARTs differ and so does   *)
(* their phase, which nothing relates.                                     *)
(***************************************************************************)
EXTENDS Integers, Sequences

CONSTANTS Messages,    \* the messages, sequences of bytes
          SendPeriod,  \* time between two edges of the sender's clock
          RecvPeriod,  \* and of the receiver's
          Phases,      \* the first edge of the receiver after that of the sender
          Delays       \* edges for which the host may keep the sender waiting

Byte == 0 .. 255

VARIABLES
  message, sent, received,   \* of the hosts, as in Channel
  txend, wait_retrieve, data_reg, previous_send_busy,    \* of the sending UART,
  sync_send, send, busy, serial, counter,                \* and of its uart_sender
  rxend, previous_receive_busy,                          \* of the receiving UART,
  rx,                                                    \* and of its uart_receiver
  ahead,                     \* the receiver's next edge after the sender's
  idle                       \* edges the sender has waited for its host

hosts    == <<message, sent, received>>
sender   == <<txend, wait_retrieve, data_reg, previous_send_busy,
              sync_send, send, busy, serial, counter>>
receiver == <<rxend, previous_receive_busy, rx>>
vars     == <<hosts, sender, receiver, ahead, idle>>

Bit == {0, 1}

\* What the two UARTs take for granted: the line is idle when a message begins,
\* and a period of the receiver's clock is at most 4 per cent shorter and 3 per
\* cent longer than one of the sender's.
Tolerance ==
  /\ Messages \subseteq Seq(Byte) /\ Delays \subseteq Nat /\ Delays # {}
  /\ SendPeriod \in Nat \ {0} /\ RecvPeriod \in Nat \ {0} /\ Phases \subseteq 0 .. RecvPeriod
  /\ 24 * SendPeriod < 25 * RecvPeriod /\ 31 * RecvPeriod < 32 * SendPeriod

----------------------------------------------------------------------------
\* The host of the sender, and its clock.

MayWrite == sent < Len(message) /\ txend

\* The host writes the next byte, and the configuration with txend cleared:
\* three always blocks write config_reg, and the order of two of them decides
\* on txend if the sender ends in this cycle.
HostWrites ==
  /\ MayWrite /\ idle \in Delays
  /\ data_reg' = message[sent + 1] /\ sent' = sent + 1
  /\ wait_retrieve' = TRUE
  /\ txend' \in (IF previous_send_busy /\ ~busy THEN BOOLEAN ELSE {FALSE})
  /\ previous_send_busy' = busy
  /\ idle' = 0
  /\ UNCHANGED <<message, received, sync_send, send, busy, serial, counter, receiver, ahead>>

\* An edge of the host's clock sees that the sender has begun or ended.
HostSeesSender ==
  /\ previous_send_busy # busy
  /\ previous_send_busy' = busy
  /\ wait_retrieve' = (wait_retrieve /\ ~busy)
  /\ txend' = (txend \/ ~busy)
  /\ UNCHANGED <<hosts, data_reg, sync_send, send, busy, serial, counter, receiver, ahead, idle>>

----------------------------------------------------------------------------
\* The sender.

tx == serial % 2

\* The frame: the start bit, the byte and the stop bit.
Frame(byte) == 512 + 2 * byte

\* Mutant: the sender takes the next byte as soon as the stop bit begins.
StopBitShort == FALSE

\* The stop bit is still on the line.
StopBit == counter \div 16 = 9 /\ counter % 16 # 15

Transmit ==
  /\ busy
  /\ counter' = counter + 1
  /\ IF counter % 16 = 15
     THEN serial' = serial \div 2 /\ busy' = (counter \div 16 # 8)
     ELSE UNCHANGED <<serial, busy>>

EndStopBit == ~busy /\ StopBit /\ counter' = counter + 1 /\ UNCHANGED <<serial, busy>>

Begin ==
  /\ ~busy /\ ~StopBit
  /\ IF send THEN serial' = Frame(data_reg) /\ busy' = TRUE /\ counter' = 0
             ELSE UNCHANGED <<serial, busy, counter>>

\* An edge of the sender's clock, once the host's has seen what the last did.
SenderEdge ==
  /\ ahead >= 0 /\ ahead' = ahead - SendPeriod
  /\ previous_send_busy = busy
  /\ IF MayWrite THEN (\E d \in Delays : idle < d) /\ idle' = idle + 1 ELSE UNCHANGED idle
  /\ sync_send' = wait_retrieve /\ send' = sync_send
  /\ Transmit \/ EndStopBit \/ Begin
  /\ UNCHANGED <<hosts, txend, wait_retrieve, data_reg, previous_send_busy, receiver>>

----------------------------------------------------------------------------
\* The receiver.

\* Two of the last three samples.
Majority(a, b, c) == IF a + b + c >= 2 THEN 1 ELSE 0

SamplePeriod == rx.counter % 16 = 8

\* Before a frame: a start bit has to stay for eight edges.
Listen(r) ==
  IF rx.sync = 1 THEN [r EXCEPT !.counter = 0]
  ELSE [r EXCEPT !.counter = @ + 1, !.busy = rx.counter % 16 = 7]

\* In a frame: the bits go into data, the first one last.
Take(r) ==
  LET sample == Majority(rx.s6, rx.s7, rx.sync)
      place  == rx.counter \div 16
  IN  IF place = 9 /\ SamplePeriod
      THEN [r EXCEPT !.counter = 0, !.busy = FALSE, !.out = rx.data,
                     !.frame_error = sample = 0]
      ELSE [r EXCEPT !.counter = @ + 1,
                     !.data = IF place # 0 /\ SamplePeriod
                              THEN 128 * sample + @ \div 2 ELSE @]

\* An edge of the receiver's clock.
ReceiverEdge ==
  /\ ahead <= 0 /\ ahead' = ahead + RecvPeriod
  /\ previous_receive_busy = rx.busy /\ ~rxend
  /\ LET r == [rx EXCEPT !.sync0 = tx, !.sync = rx.sync0, !.s7 = rx.sync, !.s6 = rx.s7]
     IN  rx' = IF rx.busy THEN Take(r) ELSE Listen(r)
  /\ UNCHANGED <<hosts, sender, rxend, previous_receive_busy, idle>>

\* The clock of its host sees that a byte has begun or come.
HostSeesReceiver ==
  /\ previous_receive_busy # rx.busy
  /\ previous_receive_busy' = rx.busy
  /\ rxend' = (rxend \/ ~rx.busy)
  /\ UNCHANGED <<hosts, sender, rx, ahead, idle>>

\* The host reads the byte and clears rxend.
HostReads ==
  /\ rxend /\ previous_receive_busy = rx.busy
  /\ received' = Append(received, rx.out)
  /\ rxend' = FALSE
  /\ UNCHANGED <<message, sent, sender, previous_receive_busy, rx, ahead, idle>>

----------------------------------------------------------------------------
\* Both UARTs are enabled and the line is idle; the synchronisers still hold
\* what the reset has left.
Init ==
  /\ message \in Messages /\ sent = 0 /\ received = <<>>
  /\ txend = TRUE /\ wait_retrieve = FALSE /\ data_reg = 0 /\ previous_send_busy = FALSE
  /\ sync_send = FALSE /\ send = FALSE /\ busy = FALSE /\ serial = 1 /\ counter = 0
  /\ rxend = FALSE /\ previous_receive_busy = FALSE
  /\ rx = [sync0 |-> 0, sync |-> 0, s6 |-> 0, s7 |-> 0, counter |-> 0, data |-> 0,
           busy |-> FALSE, frame_error |-> FALSE, out |-> 0]
  /\ ahead \in Phases /\ idle = 0

Next ==
  \/ HostWrites \/ HostSeesSender \/ SenderEdge
  \/ HostSeesReceiver \/ HostReads \/ ReceiverEdge

\* No clock ever stops.
Spec == Init /\ [][Next]_vars /\ WF_vars(Next)

----------------------------------------------------------------------------
\* Every register holds a value of its width, and a frame is without error
\* (uart.sv:48-56, uart_sender.sv:36-37, uart_receiver.sv:20-24).
HostTypes == sent \in 0 .. Len(message) /\ received \in Seq(Byte)

SenderTypes ==
  /\ txend \in BOOLEAN /\ wait_retrieve \in BOOLEAN /\ data_reg \in Byte
  /\ previous_send_busy \in BOOLEAN /\ sync_send \in BOOLEAN /\ send \in BOOLEAN
  /\ busy \in BOOLEAN /\ serial \in 0 .. 1023 /\ counter \in Byte

Rx == [sync0 : Bit, sync : Bit, s6 : Bit, s7 : Bit, counter : Byte, data : Byte,
       busy : BOOLEAN, frame_error : BOOLEAN, out : Byte]
ReceiverTypes ==
  /\ rxend \in BOOLEAN /\ previous_receive_busy \in BOOLEAN
  /\ rx \in Rx /\ ~rx.frame_error

ClockTypes == ahead \in -SendPeriod .. RecvPeriod /\ \E d \in Delays : idle \in 0 .. d

TypeOK == HostTypes /\ SenderTypes /\ ReceiverTypes /\ ClockTypes

\* The bytes arrive in their order, each once, and all of them do
\* (uart_test.sv:88-105).
Wire == INSTANCE Channel
ImplementsChannel == Wire!Spec

=============================================================================
