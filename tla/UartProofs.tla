----------------------------- MODULE UartProofs -----------------------------
(***************************************************************************)
(* The bytes of every message arrive in their order, each once and each    *)
(* without a frame error, for all periods of the two clocks that differ by  *)
(* less than the tolerance, every phase, and however long the hosts wait.   *)
(*                                                                         *)
(* The receiver counts its own edges from the one that ends with the start  *)
(* bit on the line.  The invariant bounds what the time since the frame has  *)
(* begun can be at edge j (AtEdge), so that it knows of which bit each       *)
(* sample is that the majority takes (Sampled), and how many bits of the    *)
(* byte are in the shift register.                                         *)
(***************************************************************************)
EXTENDS Uart, BinaryLemmas, SequenceTheorems

----------------------------------------------------------------------------
\* Powers of two, and the bits of a frame.

\* The powers that occur, up to the ten bits of a frame.
LEMMA Powers ==
  /\ 2^0 = 1 /\ 2^1 = 2 /\ 2^2 = 4 /\ 2^3 = 8 /\ 2^4 = 16
  /\ 2^5 = 32 /\ 2^6 = 64 /\ 2^7 = 128 /\ 2^8 = 256 /\ 2^9 = 512
<1>1. /\ 2^(0+1) = 2 * 2^0 /\ 2^(1+1) = 2 * 2^1 /\ 2^(2+1) = 2 * 2^2 /\ 2^(3+1) = 2 * 2^3
      /\ 2^(4+1) = 2 * 2^4 /\ 2^(5+1) = 2 * 2^5 /\ 2^(6+1) = 2 * 2^6 /\ 2^(7+1) = 2 * 2^7
      /\ 2^(8+1) = 2 * 2^8
  BY NextPower
<1>. QED  BY <1>1, PowerOfZero

\* The line carries bit k of the frame during the period k of sixteen edges.
LineBit(byte, k) == (Frame(byte) \div 2^k) % 2

\* The start bit, the bits of the byte from the first, the stop bit.
LEMMA FrameBits ==
  ASSUME NEW byte \in Byte
  PROVE  /\ LineBit(byte, 0) = 0 /\ LineBit(byte, 9) = 1 /\ Frame(byte) \div 2^9 = 1
         /\ \A k \in 0 .. 9 : LineBit(byte, k) \in Bit
         /\ \A k \in 0 .. 7 : LineBit(byte, k + 1) = (byte \div 2^k) % 2
<1>1. LineBit(byte, 0) = 0 /\ LineBit(byte, 9) = 1 /\ Frame(byte) \div 2^9 = 1
  BY Powers DEF LineBit, Frame, Byte
<1>2. \A k \in 0 .. 7 : LineBit(byte, k + 1) = (byte \div 2^k) % 2
  <2>. TAKE k \in 0 .. 7
  <2>0. k \in {0, 1, 2, 3, 4, 5, 6, 7}
    OBVIOUS
  <2>1. CASE k = 0 BY <2>1, Powers DEF LineBit, Frame, Byte
  <2>2. CASE k = 1 BY <2>2, Powers DEF LineBit, Frame, Byte
  <2>3. CASE k = 2 BY <2>3, Powers DEF LineBit, Frame, Byte
  <2>4. CASE k = 3 BY <2>4, Powers DEF LineBit, Frame, Byte
  <2>5. CASE k = 4 BY <2>5, Powers DEF LineBit, Frame, Byte
  <2>6. CASE k = 5 BY <2>6, Powers DEF LineBit, Frame, Byte
  <2>7. CASE k = 6 BY <2>7, Powers DEF LineBit, Frame, Byte
  <2>8. CASE k = 7 BY <2>8, Powers DEF LineBit, Frame, Byte
  <2>. QED  BY <2>0, <2>1, <2>2, <2>3, <2>4, <2>5, <2>6, <2>7, <2>8
<1>3. \A k \in 0 .. 9 : LineBit(byte, k) \in Bit
  <2>. TAKE k \in 0 .. 9
  <2>1. k \in Nat /\ Frame(byte) \in Nat
    BY DEF Frame, Byte
  <2>2. 2^k \in Nat \ {0}
    BY <2>1, PowerOfTwo
  <2>3. PICK n \in Nat : n = Frame(byte) \div 2^k
    BY <2>1, <2>2, Division
  <2>. QED  BY <2>3 DEF LineBit, Bit
<1>. QED  BY <1>1, <1>2, <1>3

\* The shift register with the first m bits of the byte takes the next one.
LEMMA BitTaken ==
  ASSUME NEW byte \in Byte, NEW data \in Byte, NEW m \in 0 .. 7,
         data \div 2^(8 - m) = byte % 2^m
  PROVE  (128 * LineBit(byte, m + 1) + data \div 2) \div 2^(8 - (m + 1)) = byte % 2^(m + 1)
<1>. DEFINE P == 2^m
            Q == 2^(7 - m)
<1>1. P \in Nat \ {0} /\ Q \in Nat \ {0}
  BY PowerOfTwo
<1>2. 2^(m + 1) = 2 * P /\ 2^(8 - m) = 2 * Q /\ 8 - (m + 1) = 7 - m
  <2>1. 2^(m + 1) = 2 * 2^m /\ 2^((7 - m) + 1) = 2 * 2^(7 - m) /\ (7 - m) + 1 = 8 - m
    BY NextPower
  <2>. QED  BY <2>1
<1>3. 128 = P * Q
  <2>1. m \in {0, 1, 2, 3, 4, 5, 6, 7}
    OBVIOUS
  <2>2. CASE m = 0 BY <2>2, Powers
  <2>3. CASE m = 1 BY <2>3, Powers
  <2>4. CASE m = 2 BY <2>4, Powers
  <2>5. CASE m = 3 BY <2>5, Powers
  <2>6. CASE m = 4 BY <2>6, Powers
  <2>7. CASE m = 5 BY <2>7, Powers
  <2>8. CASE m = 6 BY <2>8, Powers
  <2>9. CASE m = 7 BY <2>9, Powers
  <2>. QED  BY <2>1, <2>2, <2>3, <2>4, <2>5, <2>6, <2>7, <2>8, <2>9
<1>4. PICK b \in Bit : b = LineBit(byte, m + 1) /\ b = (byte \div P) % 2
  <2>1. m + 1 \in 0 .. 9
    OBVIOUS
  <2>2. LineBit(byte, m + 1) \in Bit
    BY <2>1, FrameBits
  <2>3. LineBit(byte, m + 1) = (byte \div 2^m) % 2
    BY FrameBits
  <2>. QED  BY <2>2, <2>3
<1>5. data \in Nat /\ byte \in Nat /\ data \div (2 * Q) = byte % P
  BY <1>2 DEF Byte
<1>. HIDE DEF P, Q
<1>6. byte % (2 * P) = (byte % P) + P * b
  BY <1>1, <1>4, <1>5, ModDouble
<1>7. PICK x \in Nat : x = data \div 2 /\ x \div Q = byte % P
  <2>1. data \div 2 \in Nat /\ (data \div 2) \div Q = data \div (2 * Q)
    BY <1>1, <1>5, DivOfHalf, Halving
  <2>. QED  BY <2>1, <1>5
<1>8. P * b \in Nat /\ (P * b) * Q = 128 * b
  BY <1>1, <1>3, <1>4 DEF Bit
<1>9. ((P * b) * Q + x) \div Q = P * b + x \div Q
  BY <1>1, <1>7, <1>8, DivShift
<1>10. byte % P \in Int
  BY <1>1, <1>5
<1>11. (128 * b + x) \div Q = byte % (2 * P)
  BY <1>6, <1>7, <1>8, <1>9, <1>10
<1>. QED  BY <1>11, <1>4, <1>7, <1>2 DEF Q

----------------------------------------------------------------------------
\* The inductive invariant.

\* The frames that have begun: all that has been written, but for a byte that waits.
Waits == wait_retrieve /\ ~busy
Begun == IF Waits THEN sent - 1 ELSE sent

\* The bytes that the receiver has got: those that have been read, and one it holds out.
Ready == rxend \/ (previous_receive_busy /\ ~rx.busy)
Got   == Len(received) + (IF Ready THEN 1 ELSE 0)

\* The host writes when the sender is at rest; what is on its way through the two
\* registers from wait_retrieve to send is that there is a byte to be taken.
SenderOK ==
  /\ txend => ~busy /\ ~previous_send_busy /\ ~wait_retrieve
  /\ wait_retrieve => ~previous_send_busy
  /\ Waits => sent > 0 /\ data_reg = message[sent]
  /\ busy /\ ~previous_send_busy => counter = 0
  /\ sync_send => wait_retrieve \/ (busy /\ counter = 0)
  /\ send => Waits \/ (busy /\ counter <= 1)

\* The line carries the frame of the byte that has begun last.
LineOK ==
  IF Begun = 0 THEN ~busy /\ serial = 1 /\ counter = 0
  ELSE /\ counter \in 0 .. 159 /\ (busy <=> counter < 144)
       /\ serial = Frame(message[Begun]) \div 2^(counter \div 16)

\* The receiver has got the bytes of all frames, or of all but the last.
HeldOK ==
  /\ rxend => ~previous_receive_busy /\ ~rx.busy
  /\ \A k \in 1 .. Len(received) : received[k] = message[k]
  /\ Ready => rx.out = message[Got]
  /\ Got \in {Begun - 1, Begun}

\* Nothing is on the way: the receiver listens to an idle line.  What the reset has
\* left in its synchroniser looks like a start bit for three edges, the first of
\* them before a frame can begin.
Idle ==
  /\ ~busy /\ ~rx.busy
  /\ \/ /\ rx.sync0 = 0 /\ rx.sync = 0 /\ rx.counter = 0 /\ Begun = 0
        /\ sync_send => ahead <= RecvPeriod - SendPeriod
        /\ send => ahead <= RecvPeriod - 2 * SendPeriod
     \/ rx.sync0 = 1 /\ rx.sync = 0 /\ rx.counter = 1 /\ Begun = 0
     \/ rx.sync0 = 1 /\ rx.sync = 1 /\ rx.counter = 2 /\ Begun = 0
     \/ rx.sync0 = 1 /\ rx.sync = 1 /\ rx.counter = 0

\* The samples that are of one bit for certain, whatever the phase.
Clear(i) == i <= 8 \/ i >= 150 \/ i % 16 \in 6 .. 8

\* v is a sample that was taken at edge i of the receiver; the one before the
\* frame is of the idle line.
SampleOK(i, v) ==
  /\ i = -1 => v = 1
  /\ i >= 0 /\ Clear(i) => v = LineBit(message[Begun], i \div 16)

\* From the beginning of the frame to the next edge of the receiver.
Age == (counter + 1) * SendPeriod + ahead

\* The bits of the byte that are in the shift register before edge j.
Shifted(j) == IF j < 11 THEN 0 ELSE (j - 11) \div 16

\* A frame is on the way and the receiver's next edge is its edge j.
AtEdge(j) ==
  /\ j * RecvPeriod <= Age /\ Age <= (j + 1) * RecvPeriod
  /\ SampleOK(j - 1, rx.sync0) /\ SampleOK(j - 2, rx.sync)
  /\ SampleOK(j - 3, rx.s7) /\ SampleOK(j - 4, rx.s6)
  /\ IF j >= 2 THEN rx.counter = j - 2 ELSE rx.counter <= j + 2
  /\ rx.busy <=> j >= 10
  /\ rx.data \div 2^(8 - Shifted(j)) = message[Begun] % 2^Shifted(j)
  /\ Ready => j = 0

\* At the stop bit's edge 154 the byte is complete.
Receiving == \E j \in 0 .. 154 : AtEdge(j)

Phase == IF Got = Begun THEN Idle ELSE Receiving

UartInv == message \in Seq(Byte) /\ TypeOK /\ SenderOK /\ LineOK /\ HeldOK /\ Phase

----------------------------------------------------------------------------
\* Time.

\* More periods take no less time.
LEMMA Monotone ==
  ASSUME NEW a \in Nat, NEW b \in Nat, a <= b, NEW p \in Nat
  PROVE  a * p <= b * p
<1>1. PICK d \in Nat : b = a + d
  <2>1. b - a \in Nat /\ b = a + (b - a)
    OBVIOUS
  <2>. QED  BY <2>1
<1>2. b * p = a * p + d * p /\ d * p \in Nat /\ a * p \in Nat
  BY <1>1
<1>. QED  BY <1>2

\* The first clear sample of bit k comes after the bit has begun, and the last one
\* before it ends.
LEMMA ClearIsWithin ==
  ASSUME NEW S \in Nat, NEW R \in Nat, 24 * S < 25 * R, 31 * R < 32 * S, NEW k \in 0 .. 9
  PROVE  (16 * k) * S < (16 * k + 6) * R /\ (16 * k + 9) * R < (16 * k + 16) * S
<1>1. k \in {0, 1, 2, 3, 4, 5, 6, 7, 8, 9}
  OBVIOUS
<1>2. CASE k = 0 BY <1>2
<1>3. CASE k = 1 BY <1>3
<1>4. CASE k = 2 BY <1>4
<1>5. CASE k = 3 BY <1>5
<1>6. CASE k = 4 BY <1>6
<1>7. CASE k = 5 BY <1>7
<1>8. CASE k = 6 BY <1>8
<1>9. CASE k = 7 BY <1>9
<1>10. CASE k = 8 BY <1>10
<1>11. CASE k = 9 BY <1>11
<1>. QED  BY <1>1, <1>2, <1>3, <1>4, <1>5, <1>6, <1>7, <1>8, <1>9, <1>10, <1>11

\* At the receiver's edge j in a frame, the sender is at its edge c: a clear
\* sample is of the bit that the receiver takes it for.
LEMMA Sampled ==
  ASSUME Tolerance, NEW j \in 0 .. 154, NEW c \in 0 .. 159,
         NEW age \in Int, c * SendPeriod <= age, age <= (c + 1) * SendPeriod,
         j * RecvPeriod <= age, age <= (j + 1) * RecvPeriod, Clear(j)
  PROVE  c \div 16 = j \div 16
<1>. DEFINE S == SendPeriod
            R == RecvPeriod
<1>1. S \in Nat /\ R \in Nat /\ 24 * S < 25 * R /\ 31 * R < 32 * S
  BY DEF Tolerance
<1>. HIDE DEF S, R
<1>2. c * S <= age /\ age <= (c + 1) * S /\ j * R <= age /\ age <= (j + 1) * R
  BY DEF S, R
<1>3. \A m \in Nat : (m <= c => m * S <= age) /\ (c + 1 <= m => age <= m * S)
  <2>. TAKE m \in Nat
  <2>1. m <= c => m * S <= c * S
    BY <1>1, Monotone
  <2>2. c + 1 <= m => (c + 1) * S <= m * S
    BY <1>1, Monotone
  <2>. QED  BY <1>1, <1>2, <2>1, <2>2
<1>4. \A m \in Nat : (m <= j => m * R <= age) /\ (j + 1 <= m => age <= m * R)
  <2>. TAKE m \in Nat
  <2>1. m <= j => m * R <= j * R
    BY <1>1, Monotone
  <2>2. j + 1 <= m => (j + 1) * R <= m * R
    BY <1>1, Monotone
  <2>. QED  BY <1>1, <1>2, <2>1, <2>2
<1>5. ASSUME NEW k \in 0 .. 9, j \div 16 = k
      PROVE  16 * k <= c /\ c <= 16 * k + 15
  <2>1. 16 * k <= j /\ j <= 16 * k + 15
    BY <1>5
  <2>2. \/ k = 0 \/ 16 * k + 6 <= j
    BY <1>5, <2>1 DEF Clear
  <2>3. k = 9 \/ j <= 16 * k + 8
    BY <1>5, <2>1 DEF Clear
  <2>4. k > 0 => 16 * k <= c
    <3>1. SUFFICES ASSUME k > 0, c + 1 <= 16 * k PROVE FALSE
      OBVIOUS
    <3>2. age <= (16 * k) * S
      BY <1>3, <3>1
    <3>3. (16 * k + 6) * R <= age
      BY <1>4, <2>2, <3>1
    <3>. QED  BY <3>1, <3>2, <3>3, <1>1, ClearIsWithin
  <2>5. k < 9 => c <= 16 * k + 15
    <3>1. SUFFICES ASSUME k < 9, 16 * k + 16 <= c PROVE FALSE
      OBVIOUS
    <3>2. (16 * k + 16) * S <= age
      BY <1>3, <3>1
    <3>3. age <= (16 * k + 9) * R
      BY <1>4, <2>3, <3>1
    <3>. QED  BY <3>1, <3>2, <3>3, <1>1, ClearIsWithin
  <2>. QED  BY <2>4, <2>5
<1>6. j \div 16 \in 0 .. 9
  OBVIOUS
<1>. QED  BY <1>5, <1>6

----------------------------------------------------------------------------
\* The invariant holds at first, and every step preserves it.

\* The ranges of the numbers that every step counts with.
LEMMA Numbers ==
  ASSUME Tolerance, UartInv
  PROVE  /\ SendPeriod \in Nat \ {0} /\ RecvPeriod \in Nat \ {0}
         /\ Len(message) \in Nat /\ Len(received) \in Nat /\ sent \in 0 .. Len(message)
         /\ \A k \in 1 .. Len(message) : message[k] \in Byte
         /\ Begun \in 0 .. Len(message) /\ Begun <= sent /\ Got \in Nat /\ Got <= Begun
         /\ counter \in 0 .. 159 /\ ahead \in -SendPeriod .. RecvPeriod
         /\ Begun > 0 => message[Begun] \in Byte
<1>1. /\ SendPeriod \in Nat \ {0} /\ RecvPeriod \in Nat \ {0}
      /\ Len(message) \in Nat /\ Len(received) \in Nat /\ sent \in 0 .. Len(message)
      /\ \A k \in 1 .. Len(message) : message[k] \in Byte
      /\ ahead \in -SendPeriod .. RecvPeriod
  BY DEF Tolerance, UartInv, TypeOK, HostTypes, SenderTypes, ClockTypes
<1>2. Begun \in 0 .. Len(message) /\ Begun <= sent
  BY <1>1 DEF UartInv, SenderOK, Begun
<1>3. Got \in Nat /\ Got <= Begun
  BY <1>1, <1>2 DEF UartInv, HeldOK, Got
<1>4. counter \in 0 .. 159
  BY DEF UartInv, LineOK
<1>. QED  BY <1>1, <1>2, <1>3, <1>4

\* At first nothing has begun, and the receiver listens.
LEMMA InitInv == ASSUME Tolerance, Init PROVE UartInv
<1>1. Begun = 0 /\ Got = 0 /\ Len(received) = 0 /\ ~Waits /\ ~Ready
  BY DEF Init, Begun, Got, Waits, Ready
<1>2. message \in Seq(Byte) /\ Len(message) \in Nat
  BY DEF Init, Tolerance
<1>3. TypeOK
  <2>1. PICK d \in Delays : d \in Nat
    BY DEF Tolerance
  <2>2. \E e \in Delays : idle \in 0 .. e
    BY <2>1 DEF Init
  <2>3. ahead \in -SendPeriod .. RecvPeriod
    BY DEF Init, Tolerance
  <2>4. received \in Seq(Byte) /\ sent \in 0 .. Len(message)
    BY <1>2 DEF Init
  <2>5. rx \in Rx /\ ~rx.frame_error
    <3>1. 0 \in Bit /\ 0 \in Byte
      BY DEF Bit, Byte
    <3>2. rx = [sync0 |-> 0, sync |-> 0, s6 |-> 0, s7 |-> 0, counter |-> 0, data |-> 0,
                busy |-> FALSE, frame_error |-> FALSE, out |-> 0]
      BY DEF Init
    <3>. QED  BY <3>1, <3>2 DEF Rx
  <2>6. SenderTypes
    <3>1. /\ txend \in BOOLEAN /\ wait_retrieve \in BOOLEAN /\ previous_send_busy \in BOOLEAN
          /\ sync_send \in BOOLEAN /\ send \in BOOLEAN /\ busy \in BOOLEAN
      BY DEF Init
    <3>2. data_reg \in Byte /\ serial \in 0 .. 1023 /\ counter \in Byte
      BY DEF Init, Byte
    <3>. QED  BY <3>1, <3>2, Zenon DEF SenderTypes
  <2>7. rxend \in BOOLEAN /\ previous_receive_busy \in BOOLEAN
    BY DEF Init
  <2>. QED  BY <2>2, <2>3, <2>4, <2>5, <2>6, <2>7
            DEF TypeOK, HostTypes, ReceiverTypes, ClockTypes
<1>4. SenderOK /\ LineOK /\ HeldOK
  BY <1>1 DEF Init, SenderOK, LineOK, HeldOK
<1>5. Phase
  BY <1>1 DEF Phase, Idle, Init
<1>. QED  BY <1>2, <1>3, <1>4, <1>5 DEF UartInv

\* A frame stays at its edge while the receiver takes no step.
LEMMA ReceivingKept ==
  ASSUME Receiving, UNCHANGED <<message, rx>>, Begun' = Begun, Age' = Age, Ready' => Ready
  PROVE  Receiving'
<1>1. PICK j \in 0 .. 154 : AtEdge(j)
  BY DEF Receiving
<1>2. \A i, v : SampleOK(i, v) => SampleOK(i, v)'
  BY DEF SampleOK
<1>3. AtEdge(j)'
  BY <1>1, <1>2 DEF AtEdge
<1>. QED  BY <1>3 DEF Receiving

\* Neither does anything else change for the receiver at a step of a host.
LEMMA PhaseKept ==
  ASSUME Phase, UNCHANGED <<message, busy, counter, sync_send, send, rx, ahead>>,
         Begun' = Begun, Got' = Got, Ready' => Ready
  PROVE  Phase'
<1>1. CASE Got = Begun
  <2>1. Idle'
    BY <1>1 DEF Phase, Idle
  <2>. QED  BY <1>1, <2>1 DEF Phase
<1>2. CASE Got # Begun
  <2>1. Age' = Age
    BY DEF Age
  <2>2. Receiving'
    BY <1>2, <2>1, ReceivingKept DEF Phase
  <2>. QED  BY <1>2, <2>2 DEF Phase
<1>. QED  BY <1>1, <1>2

\* A byte that is written waits until the sender takes it; there is room for it
\* in the channel, because the frame of the one before has ended.
LEMMA HostWritesInv ==
  ASSUME Tolerance, UartInv, HostWrites
  PROVE  UartInv' /\ Wire!Send
<1>0. /\ SendPeriod \in Nat \ {0} /\ RecvPeriod \in Nat \ {0} /\ counter \in 0 .. 159
      /\ ahead \in Int /\ ahead >= -SendPeriod /\ TypeOK
  BY Numbers DEF UartInv
<1>1. /\ sent < Len(message) /\ txend /\ busy = FALSE /\ ~previous_send_busy /\ ~wait_retrieve
      /\ data_reg' = message[sent + 1] /\ sent' = sent + 1 /\ wait_retrieve' = TRUE
      /\ txend' = FALSE /\ previous_send_busy' = FALSE /\ idle' = 0
  <2>1. txend /\ ~busy /\ ~previous_send_busy /\ ~wait_retrieve
    BY DEF HostWrites, MayWrite, UartInv, SenderOK
  <2>2. busy = FALSE
    BY <2>1, <1>0 DEF TypeOK, SenderTypes
  <2>. QED  BY <2>1, <2>2 DEF HostWrites, MayWrite
<1>2. UNCHANGED <<message, received, sync_send, send, busy, serial, counter, receiver, ahead>>
  BY DEF HostWrites
<1>3. /\ Begun = sent /\ Begun' = sent /\ Waits' /\ Ready' = Ready /\ Got' = Got
      /\ message[sent + 1] \in Byte
  BY <1>1, <1>2, Numbers DEF Begun, Waits, Ready, Got, receiver
<1>4. TypeOK'
  <2>1. PICK d \in Delays : d \in Nat
    BY DEF Tolerance
  <2>2. (\E e \in Delays : idle' \in 0 .. e) /\ sent' \in 0 .. Len(message')
    BY <1>1, <1>2, <2>1, Numbers
  <2>3. \E e \in Delays : idle' \in 0 .. e
    BY <2>2
  <2>4. HostTypes' /\ ClockTypes'
    BY <1>0, <1>2, <2>2, <2>3 DEF TypeOK, HostTypes, ClockTypes
  <2>5. SenderTypes'
    BY <1>0, <1>1, <1>2, <1>3 DEF TypeOK, SenderTypes
  <2>6. ReceiverTypes'
    BY <1>0, <1>2 DEF TypeOK, ReceiverTypes, receiver
  <2>. QED  BY <2>4, <2>5, <2>6 DEF TypeOK
<1>5. SenderOK' /\ LineOK' /\ HeldOK'
  <2>1. SenderOK'
    BY <1>1, <1>2, <1>3, Numbers DEF UartInv, SenderOK
  <2>2. LineOK'
    BY <1>2, <1>3 DEF UartInv, LineOK
  <2>3. HeldOK'
    BY <1>2, <1>3 DEF UartInv, HeldOK, receiver
  <2>. QED  BY <2>1, <2>2, <2>3
<1>6. Phase'
  BY <1>2, <1>3, PhaseKept DEF UartInv, receiver
<1>7. sent - Len(received) < 2
  <2>. SUFFICES ASSUME sent - Len(received) >= 2 PROVE FALSE
    BY Numbers
  <2>1. Ready /\ Got = Begun - 1 /\ Begun \in Nat \ {0}
    <3>1. Got \in {Begun - 1, Begun} /\ Got = Len(received) + (IF Ready THEN 1 ELSE 0)
      BY DEF UartInv, HeldOK, Got
    <3>2. Begun = sent /\ sent \in Nat /\ Len(received) \in Nat
      BY <1>3, Numbers
    <3>. QED  BY <3>1, <3>2
  <2>2. Receiving
    BY <2>1, Numbers DEF UartInv, Phase
  <2>3. PICK j \in 0 .. 154 : AtEdge(j)
    BY <2>2 DEF Receiving
  <2>4. j = 0 /\ Age <= (j + 1) * RecvPeriod
    BY <2>1, <2>3 DEF AtEdge
  <2>5. counter >= 144
    BY <2>1, <1>1, <1>0 DEF UartInv, LineOK
  <2>6. 145 * SendPeriod <= (counter + 1) * SendPeriod
    BY <2>5, <1>0, Monotone
  <2>7. (counter + 1) * SendPeriod + ahead <= RecvPeriod
    BY <2>4, <1>0 DEF Age
  <2>. QED  BY <2>6, <2>7, <1>0 DEF Tolerance
<1>. QED  BY <1>1, <1>2, <1>4, <1>5, <1>6, <1>7 DEF UartInv, Wire!Send, Wire!Capacity

\* The end of a frame cannot be seen while a byte waits.
LEMMA HostSeesSenderInv ==
  ASSUME Tolerance, UartInv, HostSeesSender
  PROVE  UartInv' /\ UNCHANGED hosts
<1>1. /\ previous_send_busy # busy /\ previous_send_busy' = busy
      /\ wait_retrieve' = (wait_retrieve /\ ~busy) /\ txend' = (txend \/ ~busy)
      /\ UNCHANGED <<hosts, data_reg, sync_send, send, busy, serial, counter>>
      /\ UNCHANGED <<receiver, ahead, idle>>
  BY DEF HostSeesSender
<1>2. busy \in BOOLEAN /\ previous_send_busy \in BOOLEAN
  BY DEF UartInv, TypeOK, HostTypes, SenderTypes, ReceiverTypes
<1>3. ~busy => ~wait_retrieve
  BY <1>1, <1>2 DEF UartInv, SenderOK
<1>4. /\ Waits' = Waits /\ Begun' = Begun /\ Ready' = Ready /\ Got' = Got
  BY <1>1, <1>2, <1>3 DEF Begun, Waits, Ready, Got, receiver, hosts
<1>5. TypeOK'
  <2>1. TypeOK
    BY DEF UartInv
  <2>2. HostTypes' /\ ClockTypes'
    BY <1>1, <2>1 DEF TypeOK, HostTypes, ClockTypes, hosts
  <2>3. SenderTypes'
    BY <1>1, <1>2, <2>1 DEF TypeOK, SenderTypes
  <2>4. ReceiverTypes'
    BY <1>1, <2>1 DEF TypeOK, ReceiverTypes, receiver
  <2>. QED  BY <2>2, <2>3, <2>4 DEF TypeOK
<1>6. SenderOK'
  BY <1>1, <1>2, <1>3, <1>4 DEF UartInv, SenderOK, hosts, Waits
<1>7. LineOK' /\ HeldOK'
  BY <1>1, <1>4 DEF UartInv, LineOK, HeldOK, receiver, hosts
<1>8. Phase'
  BY <1>1, <1>4, PhaseKept DEF UartInv, receiver, hosts
<1>. QED  BY <1>1, <1>5, <1>6, <1>7, <1>8 DEF UartInv, hosts

\* What every edge of the sender's clock does.
LEMMA SenderEdgeDoes ==
  ASSUME Tolerance, UartInv, SenderEdge
  PROVE  /\ SendPeriod \in Nat \ {0} /\ RecvPeriod \in Nat \ {0} /\ counter \in 0 .. 159
         /\ ahead \in 0 .. RecvPeriod /\ ahead' = ahead - SendPeriod
         /\ busy \in BOOLEAN /\ previous_send_busy = busy
         /\ sync_send' = wait_retrieve /\ send' = sync_send
         /\ UNCHANGED <<hosts, txend, wait_retrieve, data_reg, previous_send_busy, receiver>>
         /\ Ready' = Ready /\ Got' = Got
         /\ busy' \in BOOLEAN /\ serial' \in 0 .. 1023 /\ counter' \in Byte => TypeOK'
<1>1. /\ SendPeriod \in Nat \ {0} /\ RecvPeriod \in Nat \ {0} /\ counter \in 0 .. 159
      /\ ahead \in -SendPeriod .. RecvPeriod /\ TypeOK
  BY Numbers DEF UartInv
<1>2. /\ ahead >= 0 /\ ahead' = ahead - SendPeriod /\ previous_send_busy = busy
      /\ sync_send' = wait_retrieve /\ send' = sync_send
      /\ UNCHANGED <<hosts, txend, wait_retrieve, data_reg, previous_send_busy, receiver>>
  BY DEF SenderEdge
<1>3. \E d \in Delays : idle' \in 0 .. d
  <2>1. PICK d \in Delays : idle \in 0 .. d
    BY <1>1 DEF TypeOK, SenderTypes, ClockTypes
  <2>2. CASE MayWrite
    <3>1. PICK e \in Delays : idle < e /\ idle' = idle + 1
      BY <2>2 DEF SenderEdge
    <3>. QED  BY <2>1, <3>1 DEF Tolerance
  <2>3. CASE ~MayWrite
    BY <2>1, <2>3 DEF SenderEdge
  <2>. QED  BY <2>2, <2>3
<1>4. Ready' = Ready /\ Got' = Got
  BY <1>2 DEF Ready, Got, receiver, hosts
<1>5. ASSUME busy' \in BOOLEAN, serial' \in 0 .. 1023, counter' \in Byte
      PROVE  TypeOK'
  <2>1. ahead' \in -SendPeriod .. RecvPeriod
    BY <1>1, <1>2
  <2>2. HostTypes' /\ ClockTypes'
    BY <1>1, <1>2, <1>3, <2>1 DEF TypeOK, HostTypes, ClockTypes, hosts
  <2>3. SenderTypes'
    BY <1>1, <1>2, <1>5 DEF TypeOK, SenderTypes
  <2>4. ReceiverTypes'
    BY <1>1, <1>2 DEF TypeOK, ReceiverTypes, receiver
  <2>. QED  BY <2>2, <2>3, <2>4 DEF TypeOK
<1>6. busy \in BOOLEAN
  BY <1>1 DEF TypeOK, SenderTypes
<1>. QED  BY <1>1, <1>2, <1>4, <1>5, <1>6

\* Between two frames the receiver has got the byte of the first.
LEMMA FrameIsOver ==
  ASSUME Tolerance, UartInv, ahead >= 0, ~busy, ~StopBit
  PROVE  Got = Begun /\ Idle
<1>1. /\ SendPeriod \in Nat \ {0} /\ RecvPeriod \in Nat \ {0} /\ counter \in 0 .. 159
      /\ ahead \in Int
  BY Numbers
<1>2. SUFFICES ASSUME Got # Begun PROVE FALSE
  BY DEF UartInv, Phase
<1>3. Begun # 0
  BY <1>2, Numbers
<1>4. counter = 159
  BY <1>1, <1>3 DEF UartInv, LineOK, StopBit
<1>5. PICK j \in 0 .. 154 : AtEdge(j)
  BY <1>2 DEF UartInv, Phase, Receiving
<1>6. (j + 1) * RecvPeriod <= 155 * RecvPeriod
  BY <1>1, Monotone
<1>7. (counter + 1) * SendPeriod + ahead <= (j + 1) * RecvPeriod
  BY <1>5 DEF AtEdge, Age
<1>. QED  BY <1>1, <1>4, <1>6, <1>7 DEF Tolerance

\* The sender takes the byte that waits: the receiver has got the one before, and
\* what it has sampled last is the idle line.
LEMMA FrameBegins ==
  ASSUME Tolerance, UartInv, SenderEdge, Begin, send
  PROVE  UartInv'
<1>1. /\ SendPeriod \in Nat \ {0} /\ RecvPeriod \in Nat \ {0} /\ counter \in 0 .. 159
      /\ ahead \in 0 .. RecvPeriod /\ ahead' = ahead - SendPeriod
      /\ sync_send' = wait_retrieve /\ send' = sync_send
      /\ UNCHANGED <<hosts, txend, wait_retrieve, data_reg, previous_send_busy, receiver>>
      /\ Ready' = Ready /\ Got' = Got
      /\ message \in Seq(Byte) /\ TypeOK
  BY SenderEdgeDoes DEF UartInv
<1>2. /\ busy = FALSE /\ ~StopBit /\ previous_send_busy = FALSE
      /\ serial' = Frame(data_reg) /\ busy' = TRUE /\ counter' = 0
  BY SenderEdgeDoes DEF Begin
<1>3. /\ wait_retrieve /\ sent \in 1 .. Len(message) /\ data_reg = message[sent]
      /\ Begun = sent - 1 /\ Begun' = sent /\ ~Waits' /\ ~txend
  <2>1. Waits \/ (busy /\ counter <= 1)
    BY DEF UartInv, SenderOK
  <2>2. Waits /\ sent > 0 /\ data_reg = message[sent] /\ ~txend
    BY <1>2, <2>1 DEF UartInv, SenderOK, Waits
  <2>3. sent' = sent /\ ~Waits' /\ sent \in 1 .. Len(message)
    BY <1>1, <1>2, <2>2, Numbers DEF Waits, hosts
  <2>. QED  BY <1>1, <2>2, <2>3 DEF Waits, Begun
<1>4. Got = Begun
  BY <1>1, <1>2, FrameIsOver
<1>5. Idle
  BY <1>1, <1>2, FrameIsOver
<1>6. rx.sync0 = 1 /\ rx.counter \in 0 .. 2 /\ ~rx.busy /\ rx.data \in Byte
  <2>1. rx.data \in Byte
    BY <1>1 DEF TypeOK, ReceiverTypes, Rx
  <2>. QED  BY <1>1, <1>5, <2>1 DEF Idle, Tolerance
<1>7. message[sent] \in Byte /\ Frame(message[sent]) \in 512 .. 1023
  <2>1. message[sent] \in Byte
    BY <1>1, <1>3
  <2>. QED  BY <2>1 DEF Frame, Byte
<1>8. TypeOK'
  BY <1>2, <1>3, <1>7, SenderEdgeDoes DEF Byte
<1>9. SenderOK'
  BY <1>1, <1>2, <1>3 DEF UartInv, SenderOK
<1>10. LineOK'
  <2>1. counter' \div 16 = 0 /\ Begun' # 0 /\ message[Begun]' = message[sent]
    BY <1>1, <1>2, <1>3 DEF hosts
  <2>2. Frame(message[sent]) \div 2^0 = Frame(message[sent])
    BY <1>7, PowerOfZero
  <2>. QED  BY <1>2, <1>3, <2>1, <2>2 DEF LineOK
<1>11. HeldOK'
  BY <1>1, <1>3, <1>4 DEF UartInv, HeldOK, receiver, hosts
<1>12. AtEdge(0)'
  <2>1. Age' = ahead
    BY <1>1, <1>2 DEF Age
  <2>2. rx' = rx
    BY <1>1 DEF receiver
  <2>3. 0 * RecvPeriod <= Age' /\ Age' <= (0 + 1) * RecvPeriod
    BY <1>1, <2>1
  <2>4. /\ SampleOK(0 - 1, rx.sync0)' /\ SampleOK(0 - 2, rx.sync)'
        /\ SampleOK(0 - 3, rx.s7)' /\ SampleOK(0 - 4, rx.s6)'
    BY <1>6, <2>2 DEF SampleOK
  <2>5. (rx.data \div 2^(8 - Shifted(0)) = message[Begun] % 2^Shifted(0))'
    <3>1. Shifted(0) = 0 /\ 8 - 0 = 8 /\ message[Begun]' = message[sent]
      BY <1>1, <1>3 DEF Shifted, hosts
    <3>2. rx.data \div 2^8 = 0 /\ message[sent] % 2^0 = 0
      BY <1>6, <1>7, Powers DEF Byte
    <3>. QED  BY <2>2, <3>1, <3>2
  <2>. QED  BY <1>6, <2>2, <2>3, <2>4, <2>5 DEF AtEdge
<1>13. Phase'
  BY <1>12, <1>1, <1>3, <1>4 DEF Phase, Receiving
<1>. QED  BY <1>1, <1>8, <1>9, <1>10, <1>11, <1>13 DEF UartInv, hosts

\* No byte waits long enough for the sender to see it.
LEMMA SenderRests ==
  ASSUME Tolerance, UartInv, SenderEdge, Begin, ~send
  PROVE  UartInv'
<1>1. /\ SendPeriod \in Nat \ {0} /\ RecvPeriod \in Nat \ {0} /\ counter \in 0 .. 159
      /\ ahead \in 0 .. RecvPeriod /\ ahead' = ahead - SendPeriod
      /\ sync_send' = wait_retrieve /\ send' = sync_send
      /\ UNCHANGED <<hosts, txend, wait_retrieve, data_reg, previous_send_busy, receiver>>
      /\ Ready' = Ready /\ Got' = Got
      /\ message \in Seq(Byte) /\ TypeOK
  BY SenderEdgeDoes DEF UartInv
<1>2. /\ busy = FALSE /\ ~StopBit /\ previous_send_busy = FALSE
      /\ UNCHANGED <<serial, busy, counter>>
  BY SenderEdgeDoes DEF Begin
<1>3. Waits' = Waits /\ Begun' = Begun
  BY <1>1, <1>2 DEF Waits, Begun, hosts
<1>4. Got = Begun /\ Idle
  BY <1>1, <1>2, FrameIsOver
<1>5. TypeOK'
  BY <1>1, <1>2, SenderEdgeDoes DEF TypeOK, SenderTypes
<1>6. SenderOK'
  BY <1>1, <1>2, <1>3 DEF UartInv, SenderOK, Waits, hosts
<1>7. LineOK' /\ HeldOK'
  BY <1>1, <1>2, <1>3 DEF UartInv, LineOK, HeldOK, receiver, hosts
<1>8. Idle'
  <2>1. wait_retrieve => ahead' <= RecvPeriod - SendPeriod
    BY <1>1
  <2>2. ahead <= RecvPeriod - SendPeriod => ahead' <= RecvPeriod - 2 * SendPeriod
    BY <1>1
  <2>. QED  BY <1>1, <1>2, <1>3, <1>4, <2>1, <2>2 DEF Idle, receiver
<1>9. Phase'
  BY <1>1, <1>3, <1>4, <1>8 DEF Phase
<1>. QED  BY <1>1, <1>5, <1>6, <1>7, <1>9 DEF UartInv, hosts

\* The start bit and the bits of the byte.
LEMMA FrameGoesOn ==
  ASSUME Tolerance, UartInv, SenderEdge, Transmit
  PROVE  UartInv'
<1>1. /\ SendPeriod \in Nat \ {0} /\ RecvPeriod \in Nat \ {0} /\ counter \in 0 .. 159
      /\ ahead \in 0 .. RecvPeriod /\ ahead' = ahead - SendPeriod
      /\ sync_send' = wait_retrieve /\ send' = sync_send
      /\ UNCHANGED <<hosts, txend, wait_retrieve, data_reg, previous_send_busy, receiver>>
      /\ Ready' = Ready /\ Got' = Got
      /\ message \in Seq(Byte) /\ TypeOK
  BY SenderEdgeDoes DEF UartInv
<1>2. busy = TRUE /\ previous_send_busy = TRUE /\ counter' = counter + 1
  BY SenderEdgeDoes DEF Transmit
<1>3. /\ wait_retrieve = FALSE /\ ~Waits /\ ~Waits' /\ Begun' = Begun /\ ~txend
  BY <1>1, <1>2 DEF UartInv, SenderOK, Waits, Begun, hosts, TypeOK, SenderTypes
<1>4. /\ Begun \in 1 .. Len(message) /\ counter < 144
      /\ serial = Frame(message[Begun]) \div 2^(counter \div 16)
  BY <1>2, Numbers DEF UartInv, LineOK
<1>5. PICK n \in Nat : n = Frame(message[Begun]) /\ n \in 0 .. 1023
  <2>1. message[Begun] \in Byte
    BY <1>1, <1>4
  <2>. QED  BY <2>1 DEF Frame, Byte
<1>6. PICK k \in 0 .. 8 : k = counter \div 16
  BY <1>1, <1>4
<1>7. /\ serial' = n \div 2^(counter' \div 16) /\ serial' \in 0 .. 1023
      /\ busy' \in BOOLEAN /\ (busy' <=> counter' < 144)
  <2>0. serial \in 0 .. 1023
    BY <1>1 DEF TypeOK, SenderTypes, ClockTypes
  <2>1. serial = n \div 2^k
    BY <1>4, <1>5, <1>6
  <2>2. CASE counter % 16 = 15
    <3>1. serial' = serial \div 2 /\ busy' = (k # 8)
      BY <2>2, <1>6 DEF Transmit
    <3>2. counter' \div 16 = k + 1 /\ (k # 8 <=> counter' < 144)
      BY <1>1, <1>2, <1>4, <1>6, <2>2
    <3>3. n \div 2^(k + 1) = (n \div 2^k) \div 2
      <4>1. 2^(k + 1) = 2 * 2^k
        BY NextPower
      <4>2. 2^k \in Nat \ {0}
        BY PowerOfTwo
      <4>. QED  BY <4>1, <4>2, HalfOfDiv
    <3>4. busy' \in BOOLEAN /\ (busy' <=> counter' < 144)
      BY <3>1, <3>2, Zenon
    <3>5. serial' = n \div 2^(counter' \div 16) /\ serial' \in 0 .. 1023
      <4>1. serial \div 2 \in 0 .. 1023
        BY <2>0
      <4>2. serial' = n \div 2^(k + 1)
        BY <2>1, <3>1, <3>3, Zenon
      <4>. QED  BY <3>1, <3>2, <4>1, <4>2
    <3>. QED  BY <3>4, <3>5
  <2>3. CASE counter % 16 # 15
    <3>1. serial' = serial /\ busy' = TRUE
      BY <2>3, <1>2 DEF Transmit
    <3>2. counter' \div 16 = k /\ counter' < 144
      BY <1>1, <1>2, <1>4, <1>6, <2>3
    <3>. QED  BY <2>0, <2>1, <3>1, <3>2
  <2>. QED  BY <2>2, <2>3
<1>8. TypeOK'
  <2>1. counter' \in Byte
    BY <1>1, <1>2, <1>4 DEF Byte
  <2>. QED  BY <2>1, <1>7, SenderEdgeDoes
<1>9. SenderOK'
  BY <1>1, <1>2, <1>3, <1>7 DEF UartInv, SenderOK
<1>10. LineOK'
  <2>1. Begun' # 0 /\ counter' \in 0 .. 159
    BY <1>1, <1>2, <1>3, <1>4
  <2>2. serial' = Frame(message'[Begun']) \div 2^(counter' \div 16)
    BY <1>1, <1>3, <1>5, <1>7 DEF hosts
  <2>. QED  BY <1>7, <2>1, <2>2 DEF LineOK
<1>11. HeldOK'
  BY <1>1, <1>3 DEF UartInv, HeldOK, receiver, hosts
<1>12. Age' = Age
  BY <1>1, <1>2 DEF Age
<1>13. Phase'
  <2>1. Receiving /\ Got # Begun
    BY <1>2 DEF UartInv, Phase, Idle
  <2>2. UNCHANGED <<message, rx>>
    BY <1>1 DEF hosts, receiver
  <2>. QED  BY <1>1, <1>3, <1>12, <2>1, <2>2, ReceivingKept DEF Phase
<1>. QED  BY <1>1, <1>8, <1>9, <1>10, <1>11, <1>13 DEF UartInv, hosts

\* The stop bit of the frame takes its time, and the sender is free.
LEMMA StopBitGoesOn ==
  ASSUME Tolerance, UartInv, SenderEdge, EndStopBit
  PROVE  UartInv'
<1>1. /\ SendPeriod \in Nat \ {0} /\ RecvPeriod \in Nat \ {0} /\ counter \in 0 .. 159
      /\ ahead \in 0 .. RecvPeriod /\ ahead' = ahead - SendPeriod
      /\ sync_send' = wait_retrieve /\ send' = sync_send
      /\ UNCHANGED <<hosts, txend, wait_retrieve, data_reg, previous_send_busy, receiver>>
      /\ Ready' = Ready /\ Got' = Got
      /\ message \in Seq(Byte) /\ TypeOK
  BY SenderEdgeDoes DEF UartInv
<1>2. /\ busy = FALSE /\ busy' = FALSE /\ previous_send_busy = FALSE
      /\ counter' = counter + 1 /\ serial' = serial
      /\ counter \div 16 = 9 /\ counter' \div 16 = 9 /\ counter' \in 144 .. 159
  BY <1>1, SenderEdgeDoes DEF EndStopBit, StopBit
<1>3. Waits' = Waits /\ Begun' = Begun /\ Begun # 0
  BY <1>1, <1>2 DEF UartInv, LineOK, Waits, Begun, hosts
<1>4. TypeOK'
  <2>1. counter' \in Byte
    BY <1>2 DEF Byte
  <2>2. serial' \in 0 .. 1023
    BY <1>1, <1>2 DEF TypeOK, SenderTypes
  <2>. QED  BY <1>2, <2>1, <2>2, SenderEdgeDoes
<1>5. SenderOK'
  BY <1>1, <1>2, <1>3 DEF UartInv, SenderOK, Waits, hosts
<1>6. LineOK' /\ HeldOK'
  BY <1>1, <1>2, <1>3 DEF UartInv, LineOK, HeldOK, receiver, hosts
<1>7. Age' = Age
  BY <1>1, <1>2 DEF Age
<1>8. Phase'
  <2>1. UNCHANGED <<message, rx>>
    BY <1>1 DEF hosts, receiver
  <2>2. CASE Got = Begun
    <3>1. Idle'
      BY <1>2, <1>3, <2>1, <2>2 DEF UartInv, Phase, Idle
    <3>. QED  BY <1>1, <1>3, <2>2, <3>1 DEF Phase
  <2>3. CASE Got # Begun
    <3>1. Receiving'
      BY <1>1, <1>3, <1>7, <2>1, <2>3, ReceivingKept DEF UartInv, Phase
    <3>. QED  BY <1>1, <1>3, <2>3, <3>1 DEF Phase
  <2>. QED  BY <2>2, <2>3
<1>. QED  BY <1>1, <1>4, <1>5, <1>6, <1>8 DEF UartInv, hosts

\* Every edge of the sender's clock is one of these four.
LEMMA SenderEdgeInv ==
  ASSUME Tolerance, UartInv, SenderEdge
  PROVE  UartInv' /\ UNCHANGED hosts
<1>1. Transmit \/ EndStopBit \/ (Begin /\ send) \/ (Begin /\ ~send)
  BY DEF SenderEdge
<1>2. UartInv'
  BY <1>1, FrameBegins, SenderRests, FrameGoesOn, StopBitGoesOn
<1>. QED  BY <1>2, SenderEdgeDoes

\* The receiver's host notes that a byte has come, and reads it.
LEMMA HostSeesReceiverInv ==
  ASSUME Tolerance, UartInv, HostSeesReceiver
  PROVE  UartInv' /\ UNCHANGED hosts
<1>1. /\ previous_receive_busy # rx.busy /\ previous_receive_busy' = rx.busy
      /\ rxend' = (rxend \/ ~rx.busy)
      /\ UNCHANGED <<hosts, sender, rx, ahead, idle>>
  BY DEF HostSeesReceiver
<1>2. rx.busy \in BOOLEAN /\ previous_receive_busy \in BOOLEAN /\ rxend \in BOOLEAN
  BY DEF UartInv, TypeOK, ReceiverTypes, Rx
<1>3. Ready' = Ready /\ (rxend' => ~rx.busy)
  BY <1>1, <1>2 DEF UartInv, HeldOK, Ready
<1>4. Waits' = Waits /\ Begun' = Begun /\ Got' = Got
  BY <1>1, <1>3 DEF Waits, Begun, Got, sender, hosts
<1>5. TypeOK'
  <2>1. TypeOK
    BY DEF UartInv
  <2>2. HostTypes' /\ ClockTypes'
    BY <1>1, <2>1 DEF TypeOK, HostTypes, ClockTypes, hosts
  <2>3. SenderTypes'
    BY <1>1, <2>1 DEF TypeOK, SenderTypes, sender
  <2>4. ReceiverTypes'
    BY <1>1, <1>2, <2>1 DEF TypeOK, ReceiverTypes
  <2>. QED  BY <2>2, <2>3, <2>4 DEF TypeOK
<1>6. SenderOK' /\ LineOK'
  BY <1>1, <1>4 DEF UartInv, SenderOK, LineOK, sender, hosts
<1>7. HeldOK'
  BY <1>1, <1>2, <1>3, <1>4 DEF UartInv, HeldOK, hosts
<1>8. Phase'
  BY <1>1, <1>3, <1>4, PhaseKept DEF UartInv, sender, hosts
<1>. QED  BY <1>1, <1>5, <1>6, <1>7, <1>8 DEF UartInv, hosts

\* The byte that is read is the next of the message.
LEMMA HostReadsInv ==
  ASSUME Tolerance, UartInv, HostReads
  PROVE  UartInv' /\ Wire!Deliver
<1>1. /\ rxend /\ previous_receive_busy = rx.busy /\ rxend' = FALSE
      /\ received' = Append(received, rx.out)
      /\ UNCHANGED <<message, sent, sender, previous_receive_busy, rx, ahead, idle>>
  BY DEF HostReads
<1>2. /\ received \in Seq(Byte) /\ Len(received) \in Nat /\ rx.out \in Byte
      /\ rx.busy \in BOOLEAN
  BY DEF UartInv, TypeOK, HostTypes, ReceiverTypes, Rx
<1>3. Ready /\ Got = Len(received) + 1 /\ ~Ready'
  BY <1>1, <1>2 DEF Ready, Got
<1>4. /\ received' \in Seq(Byte) /\ Len(received') = Len(received) + 1
      /\ \A k \in 1 .. Len(received) : received'[k] = received[k]
      /\ received'[Len(received) + 1] = rx.out
  BY <1>1, <1>2, AppendProperties
<1>5. Waits' = Waits /\ Begun' = Begun /\ Got' = Got
  BY <1>1, <1>3, <1>4 DEF Waits, Begun, Got, sender
<1>6. Len(received) < sent /\ rx.out = message[Len(received) + 1]
  BY <1>2, <1>3, Numbers DEF UartInv, HeldOK
<1>7. TypeOK'
  <2>1. TypeOK
    BY DEF UartInv
  <2>2. HostTypes' /\ ClockTypes'
    BY <1>1, <1>4, <2>1 DEF TypeOK, HostTypes, ClockTypes
  <2>3. SenderTypes'
    BY <1>1, <2>1 DEF TypeOK, SenderTypes, sender
  <2>4. ReceiverTypes'
    BY <1>1, <2>1 DEF TypeOK, ReceiverTypes
  <2>. QED  BY <2>2, <2>3, <2>4 DEF TypeOK
<1>8. SenderOK' /\ LineOK'
  BY <1>1, <1>5 DEF UartInv, SenderOK, LineOK, sender
<1>9. HeldOK'
  BY <1>1, <1>2, <1>3, <1>4, <1>5, <1>6 DEF UartInv, HeldOK
<1>10. Phase'
  BY <1>1, <1>3, <1>5, PhaseKept DEF UartInv, sender
<1>11. Wire!Deliver
  BY <1>1, <1>6 DEF Wire!Deliver
<1>. QED  BY <1>1, <1>7, <1>8, <1>9, <1>10, <1>11 DEF UartInv

----------------------------------------------------------------------------
\* The receiver's edges.

\* What every edge of the receiver's clock does: the samples move on.
LEMMA ReceiverEdgeDoes ==
  ASSUME Tolerance, UartInv, ReceiverEdge
  PROVE  /\ SendPeriod \in Nat \ {0} /\ RecvPeriod \in Nat \ {0} /\ counter \in 0 .. 159
         /\ ahead \in -SendPeriod .. 0 /\ ahead' = ahead + RecvPeriod
         /\ ~rxend /\ ~rxend' /\ previous_receive_busy = rx.busy /\ ~Ready
         /\ Got = Len(received)
         /\ UNCHANGED <<hosts, sender, previous_receive_busy, idle, Waits, Begun>>
         /\ tx \in Bit /\ rx \in Rx /\ ~rx.frame_error
         /\ rx' \in Rx /\ ~rx'.frame_error => TypeOK'
         /\ \E r \in Rx :
              /\ r.sync0 = tx /\ r.sync = rx.sync0 /\ r.s7 = rx.sync /\ r.s6 = rx.s7
              /\ r.counter = rx.counter /\ r.data = rx.data /\ r.busy = rx.busy
              /\ r.frame_error = rx.frame_error /\ r.out = rx.out
              /\ rx' = IF rx.busy THEN Take(r) ELSE Listen(r)
<1>1. /\ SendPeriod \in Nat \ {0} /\ RecvPeriod \in Nat \ {0} /\ counter \in 0 .. 159
      /\ ahead \in -SendPeriod .. RecvPeriod /\ TypeOK
  BY Numbers DEF UartInv
<1>2. /\ ahead <= 0 /\ ahead' = ahead + RecvPeriod /\ previous_receive_busy = rx.busy /\ ~rxend
      /\ UNCHANGED <<hosts, sender, rxend, previous_receive_busy, idle>>
  BY DEF ReceiverEdge
<1>3. ahead \in -SendPeriod .. 0 /\ ahead' \in -SendPeriod .. RecvPeriod
  BY <1>1, <1>2
<1>4. ~Ready /\ Got = Len(received) /\ Len(received) \in Nat
  BY <1>1, <1>2, Numbers DEF Ready, Got
<1>5. UNCHANGED <<Waits, Begun>>
  BY <1>2 DEF Waits, Begun, hosts, sender
<1>6. tx \in Bit /\ rx \in Rx /\ ~rx.frame_error
  <2>1. tx \in Bit
    BY <1>1 DEF tx, Bit, TypeOK, SenderTypes
  <2>2. rx \in Rx /\ ~rx.frame_error
    BY <1>1 DEF TypeOK, ReceiverTypes
  <2>. QED  BY <2>1, <2>2
<1>7. TypeOK /\ rx' \in Rx /\ ~rx'.frame_error => TypeOK'
  <2>. SUFFICES ASSUME TypeOK, rx' \in Rx, ~rx'.frame_error PROVE TypeOK'
    OBVIOUS
  <2>1. HostTypes'
    BY <1>2 DEF TypeOK, HostTypes, hosts
  <2>2. ClockTypes'
    BY <1>2, <1>3 DEF TypeOK, ClockTypes
  <2>3. SenderTypes'
    BY <1>2 DEF TypeOK, SenderTypes, sender
  <2>4. ReceiverTypes'
    BY <1>2, <1>3 DEF TypeOK, ReceiverTypes
  <2>. QED  BY <2>1, <2>2, <2>3, <2>4 DEF TypeOK
<1>8. PICK r : r = [rx EXCEPT !.sync0 = tx, !.sync = rx.sync0, !.s7 = rx.sync, !.s6 = rx.s7]
  OBVIOUS
<1>9. /\ r \in Rx
      /\ r.sync0 = tx /\ r.sync = rx.sync0 /\ r.s7 = rx.sync /\ r.s6 = rx.s7
      /\ r.counter = rx.counter /\ r.data = rx.data /\ r.busy = rx.busy
      /\ r.frame_error = rx.frame_error /\ r.out = rx.out
  BY <1>6, <1>8 DEF Rx
<1>10. rx' = IF rx.busy THEN Take(r) ELSE Listen(r)
  BY <1>8 DEF ReceiverEdge
<1>. QED  BY <1>1, <1>2, <1>3, <1>4, <1>5, <1>6, <1>7, <1>9, <1>10

\* Before a frame, and in its start bit.
LEMMA ReceiverListens ==
  ASSUME Tolerance, UartInv, ReceiverEdge, ~rx.busy, rx.counter \in 0 .. 7
  PROVE  /\ TypeOK' /\ ~Ready'
         /\ rx'.sync0 = tx /\ rx'.sync = rx.sync0 /\ rx'.s7 = rx.sync /\ rx'.s6 = rx.s7
         /\ rx'.data = rx.data
         /\ rx.sync = 1 => rx'.counter = 0 /\ ~rx'.busy
         /\ rx.sync # 1 => rx'.counter = rx.counter + 1 /\ (rx'.busy <=> rx.counter = 7)
<1>1. PICK r \in Rx :
        /\ r.sync0 = tx /\ r.sync = rx.sync0 /\ r.s7 = rx.sync /\ r.s6 = rx.s7
        /\ r.counter = rx.counter /\ r.data = rx.data /\ r.busy = rx.busy
        /\ r.frame_error = rx.frame_error /\ r.out = rx.out
        /\ rx' = IF rx.busy THEN Take(r) ELSE Listen(r)
  BY ReceiverEdgeDoes
<1>2. rx' = Listen(r)
  BY <1>1
<1>3. (rx.counter % 16 = 7) = (rx.counter = 7)
  OBVIOUS
<1>4. CASE rx.sync = 1
  <2>1. rx' = [r EXCEPT !.counter = 0]
    BY <1>2, <1>4 DEF Listen
  <2>2. rx' \in Rx
    BY <2>1 DEF Rx, Byte
  <2>3. rx'.counter = 0 /\ ~rx'.busy /\ rx'.frame_error = rx.frame_error
    BY <1>1, <2>1 DEF Rx
  <2>4. TypeOK' /\ ~Ready'
    BY <2>2, <2>3, ReceiverEdgeDoes DEF Ready
  <2>. QED  BY <1>1, <1>4, <2>1, <2>3, <2>4 DEF Rx
<1>5. CASE rx.sync # 1
  <2>0. PICK b \in BOOLEAN : b = (rx.counter = 7)
    BY Zenon
  <2>1. rx' = [r EXCEPT !.counter = rx.counter + 1, !.busy = b]
    BY <1>1, <1>2, <1>3, <1>5, <2>0 DEF Listen, Rx
  <2>2. rx' \in Rx
    <3>1. rx.counter + 1 \in Byte
      BY DEF Byte
    <3>. QED  BY <2>1, <3>1 DEF Rx
  <2>3. rx'.busy <=> rx.counter = 7
    BY <2>0, <2>1, <2>2 DEF Rx
  <2>4. rx'.counter = rx.counter + 1 /\ rx'.data = r.data /\ rx'.frame_error = rx.frame_error
    BY <1>1, <2>1 DEF Rx
  <2>5. TypeOK' /\ ~Ready'
    BY <2>2, <2>4, ReceiverEdgeDoes DEF Ready
  <2>. QED  BY <1>1, <1>5, <2>1, <2>3, <2>4, <2>5 DEF Rx
<1>. QED  BY <1>4, <1>5

\* In the byte, and at the stop bit.
LEMMA ReceiverTakes ==
  ASSUME Tolerance, UartInv, ReceiverEdge, rx.busy, rx.counter \in 0 .. 152
  PROVE  /\ ~rx'.frame_error => TypeOK'
         /\ rx'.sync0 = tx /\ rx'.sync = rx.sync0 /\ rx'.s7 = rx.sync /\ rx'.s6 = rx.s7
         /\ rx.counter = 152 =>
              /\ rx'.counter = 0 /\ ~rx'.busy /\ rx'.out = rx.data
              /\ rx'.frame_error <=> Majority(rx.s6, rx.s7, rx.sync) = 0
         /\ rx.counter < 152 =>
              /\ rx'.counter = rx.counter + 1 /\ rx'.busy /\ ~rx'.frame_error
              /\ rx'.data = IF rx.counter >= 16 /\ SamplePeriod
                           THEN 128 * Majority(rx.s6, rx.s7, rx.sync) + rx.data \div 2
                           ELSE rx.data
<1>. DEFINE sample == Majority(rx.s6, rx.s7, rx.sync)
<1>1. PICK r \in Rx :
        /\ r.sync0 = tx /\ r.sync = rx.sync0 /\ r.s7 = rx.sync /\ r.s6 = rx.s7
        /\ r.counter = rx.counter /\ r.data = rx.data /\ r.busy = rx.busy
        /\ r.frame_error = rx.frame_error /\ r.out = rx.out
        /\ rx' = IF rx.busy THEN Take(r) ELSE Listen(r)
  BY ReceiverEdgeDoes
<1>2. rx' = Take(r) /\ rx \in Rx
  BY <1>1, ReceiverEdgeDoes
<1>3. /\ (rx.counter \div 16 = 9 /\ SamplePeriod) = (rx.counter = 152)
      /\ (rx.counter \div 16 # 0) = (rx.counter >= 16)
  BY DEF SamplePeriod
<1>4. sample \in Bit
  BY DEF Majority, Bit
<1>5. CASE rx.counter = 152
  <2>0. PICK b \in BOOLEAN : b = (sample = 0)
    BY Zenon
  <2>1. rx' = [r EXCEPT !.counter = 0, !.busy = FALSE, !.out = rx.data, !.frame_error = b]
    BY <1>2, <1>3, <1>5, <2>0 DEF Take
  <2>2. rx' \in Rx
    <3>1. 0 \in Byte /\ rx.data \in Byte
      BY <1>2 DEF Byte, Rx
    <3>. QED  BY <2>1, <3>1 DEF Rx
  <2>3. rx'.frame_error <=> sample = 0
    BY <2>0, <2>1, <2>2 DEF Rx
  <2>4. ~rx'.frame_error => TypeOK'
    BY <2>2, ReceiverEdgeDoes
  <2>5. rx'.counter = 0 /\ ~rx'.busy /\ rx'.out = rx.data
    BY <2>1 DEF Rx
  <2>6. rx'.sync0 = tx /\ rx'.sync = rx.sync0 /\ rx'.s7 = rx.sync /\ rx'.s6 = rx.s7
    BY <1>1, <2>1 DEF Rx
  <2>. QED  BY <1>5, <2>3, <2>4, <2>5, <2>6
<1>6. CASE rx.counter < 152
  <2>1. PICK d : d = IF rx.counter >= 16 /\ SamplePeriod THEN 128 * sample + rx.data \div 2
                     ELSE rx.data
    OBVIOUS
  <2>2. d \in Byte
    <3>1. rx.data \in 0 .. 255
      BY <1>2 DEF Rx, Byte
    <3>. QED  BY <1>4, <2>1, <3>1 DEF Bit, Byte
  <2>3. rx' = [r EXCEPT !.counter = rx.counter + 1, !.data = d]
    <3>1. ~(rx.counter \div 16 = 9 /\ SamplePeriod)
      BY <1>3, <1>6
    <3>2. rx' = [r EXCEPT !.counter = r.counter + 1,
                          !.data = IF rx.counter \div 16 # 0 /\ SamplePeriod
                                   THEN 128 * sample + r.data \div 2 ELSE r.data]
      BY <1>2, <3>1 DEF Take
    <3>3. (rx.counter \div 16 # 0 /\ SamplePeriod) <=> (rx.counter >= 16 /\ SamplePeriod)
      BY <1>3
    <3>4. (IF rx.counter \div 16 # 0 /\ SamplePeriod
           THEN 128 * sample + r.data \div 2 ELSE r.data) = d
      BY <1>1, <2>1, <3>3
    <3>5. r.counter + 1 = rx.counter + 1
      BY <1>1
    <3>. QED  BY <3>2, <3>4, <3>5, Zenon
  <2>4. rx' \in Rx
    <3>1. rx.counter + 1 \in Byte
      BY <1>6 DEF Byte
    <3>. QED  BY <2>2, <2>3, <3>1 DEF Rx
  <2>5. ~rx'.frame_error => TypeOK'
    BY <2>4, ReceiverEdgeDoes
  <2>6. /\ rx'.counter = rx.counter + 1 /\ rx'.busy /\ rx'.data = d
        /\ rx'.frame_error = rx.frame_error
    BY <1>1, <2>3 DEF Rx
  <2>7. rx'.sync0 = tx /\ rx'.sync = rx.sync0 /\ rx'.s7 = rx.sync /\ rx'.s6 = rx.s7
    BY <1>1, <2>3 DEF Rx
  <2>. QED  BY <1>6, <2>1, <2>5, <2>6, <2>7, ReceiverEdgeDoes
<1>. QED  BY <1>5, <1>6

\* The line carries the bit of the sender's edge; between two frames it is idle.
LEMMA LineCarries ==
  ASSUME Tolerance, UartInv
  PROVE  /\ ~busy => tx = 1
         /\ Begun # 0 => tx = LineBit(message[Begun], counter \div 16)
<1>1. Begun # 0 => tx = LineBit(message[Begun], counter \div 16)
  BY DEF UartInv, LineOK, tx, LineBit
<1>2. ASSUME ~busy, Begun # 0 PROVE tx = 1
  <2>1. counter \in 144 .. 159
    <3>1. counter \in 0 .. 159 /\ ~(counter < 144)
      BY <1>2, Numbers DEF UartInv, LineOK
    <3>. QED  BY <3>1
  <2>2. counter \div 16 = 9
    BY <2>1
  <2>3. message[Begun] \in Byte
    BY <1>2, Numbers
  <2>. QED  BY <1>1, <1>2, <2>2, <2>3, FrameBits
<1>3. ASSUME ~busy, Begun = 0 PROVE tx = 1
  BY <1>3 DEF UartInv, LineOK, tx
<1>. QED  BY <1>1, <1>2, <1>3

\* The receiver listens to an idle line.
LEMMA ReceiverRests ==
  ASSUME Tolerance, UartInv, ReceiverEdge, Got = Begun
  PROVE  UartInv'
<1>1. /\ ahead' = ahead + RecvPeriod
      /\ ~rxend' /\ ~Ready /\ Got = Len(received)
      /\ UNCHANGED <<hosts, sender, idle, Waits, Begun>>
  BY ReceiverEdgeDoes
<1>2. Idle /\ ~rx.busy /\ ~busy /\ rx.counter \in 0 .. 2 /\ tx = 1
  BY LineCarries DEF UartInv, Phase, Idle
<1>3. /\ TypeOK' /\ ~Ready' /\ rx'.sync0 = 1 /\ rx'.sync = rx.sync0 /\ ~rx'.busy
      /\ rx.sync = 1 => rx'.counter = 0
      /\ rx.sync # 1 => rx'.counter = rx.counter + 1
  BY <1>2, ReceiverListens
<1>4. Got' = Got
  BY <1>1, <1>3 DEF Got, hosts
<1>5. SenderOK' /\ LineOK'
  BY <1>1 DEF UartInv, SenderOK, LineOK, sender, hosts
<1>6. HeldOK'
  BY <1>1, <1>3, <1>4 DEF UartInv, HeldOK, hosts
<1>7. Idle'
  <2>1. ~busy' /\ ~rx'.busy /\ Begun' = Begun
    BY <1>1, <1>2, <1>3 DEF sender
  <2>2. CASE rx.sync0 = 0 /\ rx.sync = 0 /\ rx.counter = 0 /\ Begun = 0
    BY <1>3, <2>1, <2>2 DEF Idle
  <2>3. CASE rx.sync0 = 1 /\ rx.sync = 0 /\ rx.counter = 1 /\ Begun = 0
    BY <1>3, <2>1, <2>3 DEF Idle
  <2>4. CASE rx.sync0 = 1 /\ rx.sync = 1
    BY <1>3, <2>1, <2>4 DEF Idle
  <2>. QED  BY <1>2, <2>2, <2>3, <2>4 DEF Idle
<1>8. Phase'
  BY <1>1, <1>4, <1>7 DEF Phase
<1>. QED  BY <1>1, <1>3, <1>5, <1>6, <1>8 DEF UartInv, hosts

\* The samples of which the receiver takes the majority are of one bit.
LEMMA MajorityIsBit ==
  ASSUME NEW byte \in Byte, Begun # 0, message[Begun] = byte, NEW j \in 10 .. 154, j % 16 = 10,
         NEW a, NEW b, NEW c, SampleOK(j - 2, c), SampleOK(j - 3, b), SampleOK(j - 4, a)
  PROVE  Majority(a, b, c) = LineBit(byte, (j - 2) \div 16)
<1>1. PICK k \in 0 .. 9 : j = 16 * k + 10
  <2>1. j \div 16 \in 0 .. 9 /\ j = 16 * (j \div 16) + 10
    OBVIOUS
  <2>. QED  BY <2>1
<1>2. /\ (j - 2) \div 16 = k /\ (j - 3) \div 16 = k /\ (j - 4) \div 16 = k
      /\ Clear(j - 2) /\ Clear(j - 3) /\ Clear(j - 4)
      /\ j - 2 >= 0 /\ j - 3 >= 0 /\ j - 4 >= 0
  BY <1>1 DEF Clear
<1>3. a = LineBit(byte, k) /\ b = LineBit(byte, k) /\ c = LineBit(byte, k)
  BY <1>2 DEF SampleOK
<1>4. LineBit(byte, k) \in Bit
  BY FrameBits
<1>. QED  BY <1>2, <1>3, <1>4 DEF Majority, Bit

\* An edge of the receiver while a frame is on the way: another sample of it.
LEMMA SampleTaken ==
  ASSUME Tolerance, UartInv, ReceiverEdge, Got # Begun, NEW j \in 0 .. 154, AtEdge(j),
         rx'.sync0 = tx, rx'.sync = rx.sync0, rx'.s7 = rx.sync, rx'.s6 = rx.s7
  PROVE  /\ Begun \in 1 .. Len(message) /\ message[Begun] \in Byte /\ Got = Begun - 1
         /\ message[Begun]' = message[Begun]
         /\ ((j + 1) * RecvPeriod <= Age /\ Age <= (j + 1 + 1) * RecvPeriod)'
         /\ (SampleOK(j + 1 - 1, rx.sync0) /\ SampleOK(j + 1 - 2, rx.sync))'
         /\ (SampleOK(j + 1 - 3, rx.s7) /\ SampleOK(j + 1 - 4, rx.s6))'
         /\ j = 154 => ~busy
<1>1. /\ SendPeriod \in Nat \ {0} /\ RecvPeriod \in Nat \ {0} /\ counter \in 0 .. 159
      /\ ahead \in -SendPeriod .. 0 /\ ahead' = ahead + RecvPeriod
      /\ UNCHANGED <<hosts, sender, Begun>>
  BY ReceiverEdgeDoes
<1>2. Begun \in 1 .. Len(message) /\ message[Begun] \in Byte /\ Got = Begun - 1
  BY Numbers DEF UartInv, HeldOK
<1>3. message[Begun]' = message[Begun]
  BY <1>1 DEF hosts
<1>4. PICK age \in Int : age = Age /\ age = (counter + 1) * SendPeriod + ahead
  BY <1>1 DEF Age
<1>5. Age' = age + RecvPeriod
  BY <1>1, <1>4 DEF Age, sender
<1>6. j * RecvPeriod <= age /\ age <= (j + 1) * RecvPeriod
  BY <1>4 DEF AtEdge
<1>7. counter * SendPeriod <= age /\ age <= (counter + 1) * SendPeriod
  <2>1. (counter + 1) * SendPeriod = counter * SendPeriod + SendPeriod
    BY <1>1
  <2>2. counter * SendPeriod \in Int
    BY <1>1
  <2>. QED  BY <1>1, <1>4, <2>1, <2>2
<1>8. ((j + 1) * RecvPeriod <= Age /\ Age <= (j + 1 + 1) * RecvPeriod)'
  <2>1. /\ (j + 1) * RecvPeriod = j * RecvPeriod + RecvPeriod
        /\ (j + 1 + 1) * RecvPeriod = (j + 1) * RecvPeriod + RecvPeriod
        /\ j * RecvPeriod \in Int /\ (j + 1) * RecvPeriod \in Int
    BY <1>1
  <2>. QED  BY <1>1, <1>5, <1>6, <2>1
<1>9. SampleOK(j, tx)
  <2>1. SUFFICES ASSUME Clear(j) PROVE tx = LineBit(message[Begun], j \div 16)
    BY DEF SampleOK
  <2>2. counter \div 16 = j \div 16
    BY <1>1, <1>6, <1>7, <2>1, Sampled
  <2>. QED  BY <1>2, <2>2, LineCarries
<1>10. j + 1 - 1 = j /\ j + 1 - 2 = j - 1 /\ j + 1 - 3 = j - 2 /\ j + 1 - 4 = j - 3
  OBVIOUS
<1>11. /\ (SampleOK(j + 1 - 1, rx.sync0) /\ SampleOK(j + 1 - 2, rx.sync))'
       /\ (SampleOK(j + 1 - 3, rx.s7) /\ SampleOK(j + 1 - 4, rx.s6))'
  BY <1>3, <1>9, <1>10 DEF AtEdge, SampleOK
<1>12. ASSUME j = 154 PROVE ~busy
  <2>1. Clear(j) /\ j \div 16 = 9
    BY <1>12 DEF Clear
  <2>2. counter \div 16 = 9
    BY <1>1, <1>6, <1>7, <2>1, Sampled
  <2>3. counter >= 144
    BY <1>1, <2>2
  <2>. QED  BY <1>2, <1>1, <2>3 DEF UartInv, LineOK
<1>. QED  BY <1>2, <1>3, <1>8, <1>11, <1>12

\* Before edge 10 the receiver waits for the start bit to stay.
LEMMA EdgeOfStartBit ==
  ASSUME Tolerance, UartInv, ReceiverEdge, Got # Begun, NEW j \in 0 .. 9, AtEdge(j)
  PROVE  TypeOK' /\ ~Ready' /\ AtEdge(j + 1)'
<1>1. ~rx.busy /\ rx.counter \in 0 .. 7 /\ rx \in Rx
  <2>1. rx \in Rx
    BY ReceiverEdgeDoes
  <2>2. rx.counter \in Nat
    BY <2>1 DEF Rx, Byte
  <2>. QED  BY <2>1, <2>2 DEF AtEdge
<1>2. /\ TypeOK' /\ ~Ready'
      /\ rx'.sync0 = tx /\ rx'.sync = rx.sync0 /\ rx'.s7 = rx.sync /\ rx'.s6 = rx.s7
      /\ rx'.data = rx.data
      /\ rx.sync = 1 => rx'.counter = 0 /\ ~rx'.busy
      /\ rx.sync # 1 => rx'.counter = rx.counter + 1 /\ (rx'.busy <=> rx.counter = 7)
  BY <1>1, ReceiverListens
<1>3. /\ message[Begun] \in Byte /\ message[Begun]' = message[Begun]
      /\ ((j + 1) * RecvPeriod <= Age /\ Age <= (j + 1 + 1) * RecvPeriod)'
      /\ (SampleOK(j + 1 - 1, rx.sync0) /\ SampleOK(j + 1 - 2, rx.sync))'
      /\ (SampleOK(j + 1 - 3, rx.s7) /\ SampleOK(j + 1 - 4, rx.s6))'
  <2>1. j \in 0 .. 154
    OBVIOUS
  <2>. QED  BY <1>2, <2>1, SampleTaken
<1>4. j >= 2 => rx.sync = 0
  <2>1. SUFFICES ASSUME j >= 2 PROVE rx.sync = 0
    OBVIOUS
  <2>2. Clear(j - 2) /\ (j - 2) \div 16 = 0 /\ j - 2 >= 0
    BY <2>1 DEF Clear
  <2>. QED  BY <1>3, <2>2, FrameBits DEF AtEdge, SampleOK
<1>5. j = 1 => rx.sync = 1
  BY DEF AtEdge, SampleOK
<1>6. /\ (IF j + 1 >= 2 THEN rx.counter = j + 1 - 2 ELSE rx.counter <= j + 1 + 2)'
      /\ (rx.busy <=> j + 1 >= 10)'
  <2>1. CASE j = 0
    BY <1>1, <1>2, <2>1 DEF AtEdge
  <2>2. CASE j = 1
    BY <1>2, <1>5, <2>2
  <2>3. CASE j >= 2
    <3>1. rx.counter = j - 2 /\ rx.sync # 1
      BY <1>4, <2>3 DEF AtEdge
    <3>. QED  BY <1>2, <2>3, <3>1
  <2>. QED  BY <2>1, <2>2, <2>3
<1>7. (rx.data \div 2^(8 - Shifted(j + 1)) = message[Begun] % 2^Shifted(j + 1))'
  <2>1. Shifted(j + 1) = 0 /\ Shifted(j) = 0
    BY DEF Shifted
  <2>. QED  BY <1>2, <1>3, <2>1 DEF AtEdge
<1>. QED  BY <1>2, <1>3, <1>6, <1>7 DEF AtEdge

\* Until edge 154 it takes the bits of the byte.
LEMMA EdgeOfByte ==
  ASSUME Tolerance, UartInv, ReceiverEdge, Got # Begun, NEW j \in 10 .. 153, AtEdge(j)
  PROVE  TypeOK' /\ ~Ready' /\ AtEdge(j + 1)'
<1>1. rx.busy /\ rx.counter = j - 2 /\ rx \in Rx /\ ~rxend'
  <2>1. rx \in Rx /\ ~rxend'
    BY ReceiverEdgeDoes
  <2>. QED  BY <2>1 DEF AtEdge
<1>2. /\ TypeOK'
      /\ rx'.sync0 = tx /\ rx'.sync = rx.sync0 /\ rx'.s7 = rx.sync /\ rx'.s6 = rx.s7
      /\ rx'.counter = j - 1 /\ rx'.busy
      /\ rx'.data = IF j - 2 >= 16 /\ SamplePeriod
                   THEN 128 * Majority(rx.s6, rx.s7, rx.sync) + rx.data \div 2
                   ELSE rx.data
  BY <1>1, ReceiverTakes
<1>3. /\ message[Begun] \in Byte /\ message[Begun]' = message[Begun] /\ Begun # 0
      /\ ((j + 1) * RecvPeriod <= Age /\ Age <= (j + 1 + 1) * RecvPeriod)'
      /\ (SampleOK(j + 1 - 1, rx.sync0) /\ SampleOK(j + 1 - 2, rx.sync))'
      /\ (SampleOK(j + 1 - 3, rx.s7) /\ SampleOK(j + 1 - 4, rx.s6))'
  <2>1. j \in 0 .. 154
    OBVIOUS
  <2>2. Begun # 0
    BY Numbers
  <2>. QED  BY <1>2, <2>1, <2>2, SampleTaken
<1>4. rx'.data \div 2^(8 - Shifted(j + 1)) = message[Begun] % 2^Shifted(j + 1)
  <2>1. rx.data \div 2^(8 - Shifted(j)) = message[Begun] % 2^Shifted(j)
    BY DEF AtEdge
  <2>2. SamplePeriod <=> j % 16 = 10
    BY <1>1 DEF SamplePeriod
  <2>3. CASE j % 16 = 10 /\ j >= 18
    <3>1. PICK m \in 0 .. 7 : Shifted(j) = m /\ Shifted(j + 1) = m + 1 /\ (j - 2) \div 16 = m + 1
      <4>1. /\ (j - 11) \div 16 \in 0 .. 7 /\ (j + 1 - 11) \div 16 = (j - 11) \div 16 + 1
            /\ (j - 2) \div 16 = (j - 11) \div 16 + 1
        BY <2>3
      <4>. QED  BY <2>3, <4>1 DEF Shifted
    <3>2. Majority(rx.s6, rx.s7, rx.sync) = LineBit(message[Begun], m + 1)
      BY <1>3, <2>3, <3>1, MajorityIsBit DEF AtEdge
    <3>3. rx'.data = 128 * LineBit(message[Begun], m + 1) + rx.data \div 2
      BY <1>2, <2>2, <2>3, <3>2
    <3>4. rx.data \in Byte
      BY <1>1 DEF Rx
    <3>5. (128 * LineBit(message[Begun], m + 1) + rx.data \div 2) \div 2^(8 - (m + 1))
            = message[Begun] % 2^(m + 1)
      BY <1>3, <2>1, <3>1, <3>4, BitTaken
    <3>. QED  BY <3>1, <3>3, <3>5
  <2>4. CASE ~(j % 16 = 10 /\ j >= 18)
    <3>1. Shifted(j + 1) = Shifted(j)
      BY <2>4 DEF Shifted
    <3>2. rx'.data = rx.data
      BY <1>2, <2>2, <2>4
    <3>. QED  BY <2>1, <3>1, <3>2
  <2>. QED  BY <2>3, <2>4
<1>5. ~Ready'
  BY <1>1, <1>2 DEF Ready
<1>6. Shifted(j + 1)' = Shifted(j + 1)
  BY DEF Shifted
<1>. QED  BY <1>2, <1>3, <1>4, <1>5, <1>6 DEF AtEdge

\* At edge 154 it finds the stop bit, and the byte is complete.
LEMMA EdgeOfStopBit ==
  ASSUME Tolerance, UartInv, ReceiverEdge, Got # Begun, AtEdge(154)
  PROVE  /\ TypeOK' /\ Ready' /\ Idle' /\ Got' = Begun
         /\ rx'.out = message[Begun]
<1>1. /\ rx.busy /\ rx.counter = 152 /\ rx \in Rx /\ ~rxend'
      /\ previous_receive_busy' = rx.busy /\ Got = Len(received)
      /\ UNCHANGED <<hosts, sender, Begun>>
  BY ReceiverEdgeDoes DEF AtEdge
<1>2. /\ ~rx'.frame_error => TypeOK'
      /\ rx'.sync0 = tx /\ rx'.sync = rx.sync0 /\ rx'.s7 = rx.sync /\ rx'.s6 = rx.s7
      /\ rx'.counter = 0 /\ ~rx'.busy /\ rx'.out = rx.data
      /\ rx'.frame_error <=> Majority(rx.s6, rx.s7, rx.sync) = 0
  BY <1>1, ReceiverTakes
<1>3. Begun # 0 /\ message[Begun] \in Byte /\ Got = Begun - 1 /\ Begun \in Nat /\ ~busy
  BY <1>2, SampleTaken, Numbers
<1>4. ~rx'.frame_error
  <2>1. Majority(rx.s6, rx.s7, rx.sync) = LineBit(message[Begun], 9)
    BY <1>3, MajorityIsBit DEF AtEdge
  <2>. QED  BY <1>2, <1>3, <2>1, FrameBits
<1>5. rx'.out = message[Begun]
  <2>1. Shifted(154) = 8 /\ 8 - 8 = 0
    BY DEF Shifted
  <2>2. rx.data \div 2^0 = message[Begun] % 2^8
    BY <2>1 DEF AtEdge
  <2>3. rx.data \in Byte
    BY <1>1 DEF Rx
  <2>4. rx.data \div 1 = rx.data /\ message[Begun] % 256 = message[Begun]
    BY <1>3, <2>3 DEF Byte
  <2>. QED  BY <1>2, <2>2, <2>4, Powers
<1>6. Ready' /\ Got' = Begun
  BY <1>1, <1>2, <1>3 DEF Ready, Got, hosts
<1>7. Idle'
  <2>1. tx = 1
    BY <1>3, LineCarries
  <2>2. rx.sync0 = 1
    <3>1. Clear(153) /\ 153 \div 16 = 9 /\ 154 - 1 = 153
      BY DEF Clear
    <3>. QED  BY <1>3, <3>1, FrameBits DEF AtEdge, SampleOK
  <2>. QED  BY <1>1, <1>2, <1>3, <2>1, <2>2 DEF Idle, sender
<1>. QED  BY <1>2, <1>4, <1>5, <1>6, <1>7

\* Every edge of the receiver's clock falls in rest, the start bit, the byte or the stop bit.
LEMMA ReceiverEdgeInv ==
  ASSUME Tolerance, UartInv, ReceiverEdge
  PROVE  UartInv' /\ UNCHANGED hosts
<1>1. /\ ~rxend' /\ previous_receive_busy' = rx.busy /\ Got = Len(received) /\ ~Ready
      /\ UNCHANGED <<hosts, sender, Begun, Waits>>
  BY ReceiverEdgeDoes
<1>2. SenderOK' /\ LineOK'
  BY <1>1 DEF UartInv, SenderOK, LineOK, sender, hosts
<1>3. CASE Got = Begun
  BY <1>1, <1>3, ReceiverRests
<1>4. CASE Got # Begun
  <2>1. PICK j \in 0 .. 154 : AtEdge(j)
    BY <1>4 DEF UartInv, Phase, Receiving
  <2>2. CASE j = 154
    <3>1. /\ TypeOK' /\ Ready' /\ Idle' /\ Got' = Begun
          /\ rx'.out = message[Begun]
      BY <1>4, <2>1, <2>2, EdgeOfStopBit
    <3>2. HeldOK'
      BY <1>1, <3>1 DEF UartInv, HeldOK, hosts
    <3>3. Phase'
      BY <1>1, <3>1 DEF Phase
    <3>. QED  BY <1>1, <1>2, <3>1, <3>2, <3>3 DEF UartInv, hosts
  <2>3. CASE j # 154
    <3>1. TypeOK' /\ ~Ready' /\ AtEdge(j + 1)'
      <4>1. j \in 0 .. 9 \/ j \in 10 .. 153
        BY <2>3
      <4>. QED  BY <1>4, <2>1, <4>1, EdgeOfStartBit, EdgeOfByte
    <3>2. Got' = Got
      BY <1>1, <3>1 DEF Got, hosts
    <3>3. HeldOK'
      BY <1>1, <3>1, <3>2 DEF UartInv, HeldOK, hosts
    <3>4. Phase'
      <4>1. j + 1 \in 0 .. 154 /\ Got' # Begun'
        BY <1>1, <1>4, <2>3, <3>2
      <4>. QED  BY <3>1, <4>1 DEF Phase, Receiving
    <3>. QED  BY <1>1, <1>2, <3>1, <3>3, <3>4 DEF UartInv, hosts
  <2>. QED  BY <2>2, <2>3
<1>. QED  BY <1>1, <1>3, <1>4

----------------------------------------------------------------------------
\* The theorems.

\* Every step preserves the invariant, and is one of the channel or none.
LEMMA Step ==
  ASSUME Tolerance, UartInv, [Next]_vars
  PROVE  UartInv' /\ [Wire!Next]_(Wire!vars)
<1>1. CASE UNCHANGED vars
  <2>1. UNCHANGED <<hosts, sender, receiver, ahead, idle>>
    BY <1>1 DEF vars
  <2>2. UNCHANGED <<Waits, Begun, Ready, Got, Age>>
    BY <2>1 DEF hosts, sender, receiver, Waits, Begun, Ready, Got, Age
  <2>3. TypeOK'
    <3>1. TypeOK
      BY DEF UartInv
    <3>2. rx' = rx /\ idle' = idle /\ ahead' = ahead /\ UNCHANGED <<hosts, sender, receiver>>
      BY <2>1 DEF receiver
    <3>3. HostTypes' /\ ClockTypes'
      BY <3>1, <3>2 DEF TypeOK, HostTypes, ClockTypes, hosts
    <3>4. SenderTypes' /\ ReceiverTypes'
      BY <3>1, <3>2
         DEF TypeOK, SenderTypes, ReceiverTypes, sender, receiver
    <3>. QED  BY <3>3, <3>4 DEF TypeOK
  <2>4. SenderOK' /\ LineOK' /\ HeldOK'
    BY <2>1, <2>2 DEF UartInv, SenderOK, LineOK, HeldOK, hosts, sender, receiver
  <2>5. Phase'
    BY <2>1, <2>2, PhaseKept DEF UartInv, hosts, sender, receiver
  <2>. QED  BY <2>1, <2>3, <2>4, <2>5 DEF UartInv, hosts, Wire!vars
<1>2. CASE HostWrites
  BY <1>2, HostWritesInv DEF Wire!Next
<1>3. CASE HostReads
  BY <1>3, HostReadsInv DEF Wire!Next
<1>4. CASE HostSeesSender \/ SenderEdge \/ HostSeesReceiver \/ ReceiverEdge
  <2>1. UartInv' /\ UNCHANGED hosts
    BY <1>4, HostSeesSenderInv, SenderEdgeInv, HostSeesReceiverInv, ReceiverEdgeInv
  <2>. QED  BY <2>1 DEF hosts, Wire!vars
<1>. QED  BY <1>1, <1>2, <1>3, <1>4 DEF Next

\* The invariant holds for all clocks within the tolerance.
THEOREM UartInvariant == ASSUME Tolerance PROVE Spec => []UartInv
<1>1. Init => UartInv
  BY InitInv
<1>2. UartInv /\ [Next]_vars => UartInv'
  BY Step
<1>. QED  BY <1>1, <1>2, PTL DEF Spec

\* Every register holds a value of its width.
THEOREM TypesHold == ASSUME Tolerance PROVE Spec => []TypeOK
<1>1. UartInv => TypeOK
  BY DEF UartInv
<1>. QED  BY <1>1, UartInvariant, PTL

\* The bytes of a message arrive in their order, each once, and at most two are
\* under way: the safety of ImplementsChannel.
THEOREM BytesArriveInOrder ==
  ASSUME Tolerance PROVE Spec => Wire!Init /\ [][Wire!Next]_(Wire!vars)
<1>1. Init => Wire!Init
  BY DEF Init, Wire!Init
<1>2. UartInv /\ [Next]_vars => [Wire!Next]_(Wire!vars)
  BY Step
<1>. QED  BY <1>1, <1>2, UartInvariant, PTL DEF Spec

=============================================================================
