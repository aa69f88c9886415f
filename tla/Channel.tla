------------------------------ MODULE Channel ------------------------------
(***************************************************************************)
(* What a pair of UARTs promises: the bytes of a message arrive in their    *)
(* order, each once, while one of them is in the sender and one in the     *)
(* receiver.                                                               *)
(***************************************************************************)
EXTENDS Integers, Sequences

CONSTANT Messages      \* sequences of bytes

VARIABLES message,     \* what the host of the sender has to send
          sent,        \* how many of its bytes it has written
          received     \* what the host of the receiver has read

vars == <<message, sent, received>>

Capacity == 2

Init == message \in Messages /\ sent = 0 /\ received = <<>>

Send ==
  /\ sent < Len(message) /\ sent - Len(received) < Capacity
  /\ sent' = sent + 1
  /\ UNCHANGED <<message, received>>

Deliver ==
  /\ Len(received) < sent
  /\ received' = Append(received, message[Len(received) + 1])
  /\ UNCHANGED <<message, sent>>

Next == Send \/ Deliver

Spec == Init /\ [][Next]_vars /\ WF_vars(Send) /\ WF_vars(Deliver)

=============================================================================
