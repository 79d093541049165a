----------------------------- MODULE SerialProof -----------------------------
(***************************************************************************)
(* Proofs about Serial for queues of any size.  IInv is inductive: the     *)
(* order of the bytes and the state of the interrupt enable register are   *)
(* so only together with the fact that nothing is queued, and nobody waits *)
(* for room, while the port is polled.                                     *)
(***************************************************************************)
EXTENDS Serial, SequenceTheorems, TLAPS

IInv ==
  /\ TypeOK
  /\ SentInOrder
  /\ InterruptsArmed
  /\ mode = "POLL" => txq = <<>> /\ writer = "out"

USE SerialAssumption

-----------------------------------------------------------------------------
(* The numbers of bytes: one subtraction replaces %.                       *)

Wrap(x) == IF x < Numbers THEN x ELSE x - Numbers

LEMMA Wrapped ==
  ASSUME NEW x \in 0 .. 2 * Numbers - 1
  PROVE  x % Numbers = Wrap(x)
BY DEF Wrap

(* The queue q of bytes that follow byte s, and the number m after them.   *)
Numbered(q, s, m) ==
  /\ q \in Seq(Byte) /\ Len(q) <= Capacity
  /\ s \in Byte /\ m \in Byte
  /\ \A i \in 1 .. Len(q) : q[i] = (s + i) % Numbers
  /\ m = (s + Len(q) + 1) % Numbers

LEMMA NumberedIs ==
  ASSUME NEW q \in Seq(Byte), Len(q) <= Capacity, NEW s \in Byte, NEW m \in Byte
  PROVE  Numbered(q, s, m) <=> /\ \A i \in 1 .. Len(q) : q[i] = Wrap(s + i)
                               /\ m = Wrap(s + Len(q) + 1)
<1>1. Len(q) \in Nat
  OBVIOUS
<1>2. ASSUME NEW i \in 1 .. Len(q) + 1
      PROVE  (s + i) % Numbers = Wrap(s + i)
  <2>1. s + i \in 0 .. 2 * Numbers - 1
    BY <1>1 DEF Byte
  <2> QED
    BY <2>1, Wrapped
<1>3. (s + Len(q) + 1) % Numbers = Wrap(s + Len(q) + 1)
  <2>1. s + Len(q) + 1 \in 0 .. 2 * Numbers - 1
    BY <1>1 DEF Byte
  <2> QED
    BY <2>1, Wrapped
<1>4. \A i \in 1 .. Len(q) : (s + i) % Numbers = Wrap(s + i)
  BY <1>1, <1>2
<1> QED
  BY <1>3, <1>4 DEF Numbered

LEMMA EmptyNumbered ==
  ASSUME NEW s \in Byte, NEW m \in Byte, m = Wrap(s + 1)
  PROVE  Numbered(<<>>, s, m)
<1> DEFINE q == <<>>
<1>1. q \in Seq(Byte) /\ Len(q) = 0
  OBVIOUS
<1> HIDE DEF q
<1>2. s + Len(q) + 1 = s + 1 /\ Len(q) <= Capacity
  BY <1>1 DEF Byte
<1>3. \A i \in 1 .. Len(q) : q[i] = Wrap(s + i)
  BY <1>1
<1>4. Numbered(q, s, m)
  BY <1>1, <1>2, <1>3, NumberedIs
<1> QED
  BY <1>4 DEF q

LEMMA Following ==
  ASSUME NEW m \in Byte
  PROVE  /\ (m + 1) % Numbers = Wrap(m + 1)
         /\ Wrap(m + 1) \in Byte
<1>1. m + 1 \in 0 .. 2 * Numbers - 1
  BY DEF Byte
<1> QED
  BY <1>1, Wrapped DEF Byte, Wrap

(* A byte enters a queue with room.                                        *)
LEMMA PutNumbered ==
  ASSUME NEW q, NEW s, NEW m, Numbered(q, s, m), Len(q) < Capacity
  PROVE  Numbered(Append(q, m), s, (m + 1) % Numbers)
<1> DEFINE r == Append(q, m)
           k == (m + 1) % Numbers
<1>1. /\ q \in Seq(Byte) /\ Len(q) \in Nat /\ s \in Byte /\ m \in Byte
      /\ Len(q) <= Capacity
  BY DEF Numbered
<1>2. /\ \A i \in 1 .. Len(q) : q[i] = Wrap(s + i)
      /\ m = Wrap(s + Len(q) + 1)
  BY <1>1, NumberedIs
<1>3. /\ r \in Seq(Byte) /\ Len(r) = Len(q) + 1 /\ r[Len(q) + 1] = m
      /\ \A i \in 1 .. Len(q) : r[i] = q[i]
  BY <1>1, AppendProperties
<1>4. k \in Byte /\ k = Wrap(m + 1)
  BY <1>1, Following
<1> HIDE DEF r, k
<1>5. ASSUME NEW i \in 1 .. Len(r) PROVE r[i] = Wrap(s + i)
  <2>1. CASE i \in 1 .. Len(q)
    BY <2>1, <1>2, <1>3
  <2>2. CASE i = Len(q) + 1
    <3>1. s \in Nat /\ s + i = s + Len(q) + 1
      BY <1>1, <2>2 DEF Byte
    <3> QED
      BY <2>2, <3>1, <1>2, <1>3
  <2> QED
    BY <2>1, <2>2, <1>1, <1>3
<1>6. k = Wrap(s + Len(r) + 1)
  <2>1. s \in 0 .. Numbers - 1 /\ m \in 0 .. Numbers - 1
    BY <1>1 DEF Byte
  <2> QED
    BY <1>1, <1>2, <1>3, <1>4, <2>1 DEF Wrap
<1>7. Numbered(r, s, k)
  BY <1>1, <1>3, <1>4, <1>5, <1>6, NumberedIs
<1> QED
  BY <1>7 DEF r, k

(* The first n bytes of a queue leave it.                                  *)
LEMMA TakeNumbered ==
  ASSUME NEW q, NEW s, NEW m, Numbered(q, s, m), NEW n \in 1 .. Len(q)
  PROVE  Numbered(SubSeq(q, n + 1, Len(q)), q[n], m)
<1> DEFINE r == SubSeq(q, n + 1, Len(q))
<1>1. /\ q \in Seq(Byte) /\ Len(q) \in Nat /\ s \in Byte /\ m \in Byte
      /\ Len(q) <= Capacity
  BY DEF Numbered
<1>2. /\ \A i \in 1 .. Len(q) : q[i] = Wrap(s + i)
      /\ m = Wrap(s + Len(q) + 1)
  BY <1>1, NumberedIs
<1>3. /\ r \in Seq(Byte) /\ Len(r) = Len(q) - n
      /\ \A i \in 1 .. Len(q) - n : r[i] = q[n + i]
  BY <1>1, SubSeqProperties
<1>4. q[n] \in Byte /\ q[n] = Wrap(s + n)
  BY <1>1, <1>2
<1> HIDE DEF r
<1>5. s \in 0 .. Numbers - 1 /\ q[n] \in 0 .. Numbers - 1
  BY <1>1, <1>4 DEF Byte
<1>6. ASSUME NEW i \in 1 .. Len(r) PROVE r[i] = Wrap(q[n] + i)
  <2>1. r[i] = Wrap(s + n + i)
    <3>1. n + i \in 1 .. Len(q) /\ i \in 1 .. Len(q) - n
      BY <1>1, <1>3
    <3>2. s + (n + i) = s + n + i
      BY <1>1, <1>3, <1>5
    <3> QED
      BY <3>1, <3>2, <1>2, <1>3
  <2> QED
    BY <1>1, <1>3, <1>4, <1>5, <2>1 DEF Wrap
<1>7. m = Wrap(q[n] + Len(r) + 1)
  BY <1>1, <1>2, <1>3, <1>4, <1>5 DEF Wrap
<1>8. Numbered(r, q[n], m)
  BY <1>1, <1>3, <1>4, <1>6, <1>7, NumberedIs
<1> QED
  BY <1>8 DEF r

-----------------------------------------------------------------------------
(* The steps.  IInv is the order of the bytes, the types of the rest and   *)
(* the state of the register.                                              *)

Rest ==
  /\ mode \in {"POLL", "QUEUE"}
  /\ buffer \in 0 .. Capacity
  /\ ier \subseteq {"XMIT", "RECV"}
  /\ thre \in BOOLEAN /\ dr \in BOOLEAN
  /\ writer \in {"out", "wait"} /\ reader \in {"out", "wait"}
  /\ mode = "POLL" => txq = <<>> /\ writer = "out"

LEMMA IInvIs == IInv <=> Numbered(txq, sent, made) /\ Rest /\ InterruptsArmed
<1>1. ASSUME txq \in Seq(Byte)
      PROVE  DOMAIN txq = 1 .. Len(txq)
  BY <1>1
<1> QED
  BY <1>1 DEF IInv, TypeOK, Rest, SentInOrder, Numbered

(* The register is right whenever it has just been written.                *)
LEMMA IerWritten ==
  ASSUME write_ier
  PROVE  InterruptsArmed' /\ ier' \subseteq {"XMIT", "RECV"}
BY DEF write_ier, InterruptsArmed, input_full

(* serial_putc() with room in the queue.                                   *)
LEMMA PutStep ==
  ASSUME Numbered(txq, sent, made), Rest, Len(txq) < Capacity, mode = "QUEUE",
         put(txq), UNCHANGED <<mode, uart, sent>>,
         writer' \in {"out", "wait"}, reader' \in {"out", "wait"}
  PROVE  Numbered(txq, sent, made)' /\ Rest' /\ InterruptsArmed'
<1>1. Numbered(txq', sent', made')
  BY PutNumbered DEF put
<1>2. Rest'
  BY IerWritten DEF Rest, put, uart
<1> QED
  BY <1>1, <1>2, IerWritten DEF put, Numbered, Byte

(* A byte leaves the input buffer or enters it.                            *)
LEMMA BufferStep ==
  ASSUME IInv, buffer' \in 0 .. Capacity, serial_notify,
         UNCHANGED <<mode, txq, uart, made, sent, writer>>,
         reader' \in {"out", "wait"}
  PROVE  Numbered(txq, sent, made)' /\ Rest' /\ InterruptsArmed'
<1>1. Numbered(txq, sent, made)'
  BY IInvIs DEF Numbered, Byte
<1>2. CASE mode = "QUEUE"
  BY <1>1, <1>2, IInvIs, IerWritten DEF serial_notify, Rest, uart
<1>3. CASE mode = "POLL"
  BY <1>1, <1>3, IInvIs DEF serial_notify, Rest, uart, InterruptsArmed
<1> QED
  BY <1>2, <1>3, IInvIs DEF Rest

LEMMA IInvInit == Init => IInv
<1> SUFFICES ASSUME Init PROVE IInv
  OBVIOUS
<1>1. Numbered(txq, sent, made)
  <2>1. 0 = Wrap(Numbers - 1 + 1) /\ 0 \in Byte /\ Numbers - 1 \in Byte
    BY DEF Wrap, Byte
  <2> QED
    BY <2>1, EmptyNumbered DEF Init
<1>2. 0 \in 0 .. Capacity
  OBVIOUS
<1>3. Rest
  BY <1>2, Zenon DEF Init, Rest
<1> QED
  BY <1>1, <1>3, IInvIs DEF Init, InterruptsArmed

LEMMA PutcInterruptsOffStep ==
  ASSUME IInv, PutcInterruptsOff
  PROVE  Numbered(txq, sent, made)' /\ Rest' /\ InterruptsArmed'
<1>1. CASE ~intq_full(txq)
  <2>1. Len(txq) < Capacity
    BY <1>1, IInvIs DEF Numbered, intq_full
  <2> QED
    BY <1>1, <2>1, IInvIs, PutStep DEF PutcInterruptsOff, Rest
<1>2. CASE intq_full(txq)
  <2>1. txq \in Seq(Byte) /\ Len(txq) = Capacity
    BY <1>2, IInvIs DEF Numbered, intq_full
  <2>2. txq # <<>> /\ 1 \in 1 .. Len(txq)
    BY <2>1
  <2> DEFINE q == SubSeq(txq, 2, Len(txq))
  <2>3. Tail(txq) = q /\ Head(txq) = txq[1]
    BY <2>1, <2>2
  <2>4. Numbered(q, txq[1], made) /\ Len(q) < Capacity
    <3>1. Numbered(SubSeq(txq, 1 + 1, Len(txq)), txq[1], made)
      BY <2>2, TakeNumbered, IInvIs
    <3> QED
      BY <2>1, <3>1
  <2> HIDE DEF q
  <2>5. Numbered(Append(q, made), txq[1], (made + 1) % Numbers)
    BY <2>4, PutNumbered
  <2>6. /\ txq' = Append(q, made) /\ made' = (made + 1) % Numbers
        /\ sent' = txq[1] /\ write_ier /\ UNCHANGED <<mode, buffer, dr, writer, reader>>
        /\ thre' = FALSE /\ mode = "QUEUE"
    BY <1>2, <2>3 DEF PutcInterruptsOff, put, putc_poll
  <2>7. Numbered(txq', sent', made')
    BY <2>5, <2>6
  <2> QED
    BY <2>6, <2>7, IInvIs, IerWritten DEF Rest, Numbered, Byte
<1> QED
  BY <1>1, <1>2

LEMMA SerialInterruptStep ==
  ASSUME IInv, SerialInterrupt
  PROVE  Numbered(txq, sent, made)' /\ Rest' /\ InterruptsArmed'
<1>1. /\ buffer' \in 0 .. Capacity /\ dr' \in BOOLEAN
  <2>1. buffer # Capacity /\ buffer \in 0 .. Capacity => buffer + 1 \in 0 .. Capacity
    OBVIOUS
  <2> QED
    BY <2>1, IInvIs, Zenon DEF Rest, SerialInterrupt, Receive, input_full
<1>2. /\ Numbered(txq', sent', made') /\ thre' \in BOOLEAN
      /\ mode = "POLL" => txq' = <<>>
  <2>1. CASE thre /\ txq # <<>>
    <3>1. PICK n \in 1 .. Len(txq) : /\ sent' = txq[n]
                                     /\ txq' = SubSeq(txq, n + 1, Len(txq))
                                     /\ thre' = FALSE
      BY <2>1 DEF SerialInterrupt, Transmit
    <3>2. Numbered(txq', sent', made)
      BY <3>1, TakeNumbered, IInvIs
    <3> QED
      BY <2>1, <3>1, <3>2, IInvIs DEF SerialInterrupt, Rest
  <2>2. CASE ~(thre /\ txq # <<>>)
    BY <2>2, IInvIs DEF SerialInterrupt, Transmit, Rest
  <2> QED
    BY <2>1, <2>2
<1> QED
  BY <1>1, <1>2, IInvIs, IerWritten DEF SerialInterrupt, Rest, Numbered, Byte

LEMMA SerialFlushStep ==
  ASSUME IInv, serial_flush
  PROVE  Numbered(txq, sent, made)' /\ Rest' /\ InterruptsArmed'
<1> DEFINE n == Len(txq)
<1>1. /\ txq \in Seq(Byte) /\ txq # <<>> /\ n \in 1 .. n
  BY IInvIs DEF serial_flush, Numbered
<1>2. Numbered(SubSeq(txq, n + 1, n), txq[n], made)
  BY <1>1, TakeNumbered, IInvIs
<1>3. SubSeq(txq, n + 1, n) = <<>>
  BY <1>1
<1>4. Numbered(txq', sent', made')
  BY <1>2, <1>3 DEF serial_flush, putc_poll
<1> QED
  BY <1>4, IInvIs
  DEF serial_flush, putc_poll, Rest, InterruptsArmed, input_full, Numbered, Byte

LEMMA IInvNext == IInv /\ [Next]_vars => IInv'
<1> SUFFICES ASSUME IInv, [Next]_vars
             PROVE  Numbered(txq, sent, made)' /\ Rest' /\ InterruptsArmed'
  BY PTL, IInvIs
<1>1. CASE serial_init_queue
  BY <1>1, IInvIs, IerWritten DEF serial_init_queue, Rest, uart, Numbered, Byte
<1>2. CASE PutcPolling
  <2>1. txq = <<>> /\ made \in Byte
    BY <1>2, IInvIs DEF PutcPolling, Rest, Numbered
  <2>2. Numbered(<<>>, made, (made + 1) % Numbers)
    <3>1. (made + 1) % Numbers = Wrap(made + 1) /\ Wrap(made + 1) \in Byte
      BY <2>1, Following
    <3> QED
      BY <2>1, <3>1, EmptyNumbered
  <2> QED
    BY <1>2, <2>1, <2>2, IInvIs
    DEF PutcPolling, putc_poll, Rest, InterruptsArmed, Numbered, Byte
<1>3. CASE Putc
  <2>1. CASE intq_full(txq)
    BY <1>3, <2>1, IInvIs
    DEF Putc, uart, Rest, InterruptsArmed, input_full, Numbered, Byte
  <2>2. CASE ~intq_full(txq)
    <3>1. Len(txq) < Capacity
      BY <2>2, IInvIs DEF Numbered, intq_full
    <3> QED
      BY <1>3, <2>2, <3>1, IInvIs, PutStep DEF Putc, Rest
  <2> QED
    BY <2>1, <2>2
<1>4. CASE PutcWoken
  <2>1. Len(txq) < Capacity
    BY <1>4, IInvIs DEF Numbered, intq_full, PutcWoken
  <2>2. mode = "QUEUE"
    BY <1>4, IInvIs DEF PutcWoken, put, Rest, Numbered
  <2> QED
    BY <1>4, <2>1, <2>2, IInvIs, PutStep DEF PutcWoken, Rest
<1>5. CASE PutcInterruptsOff
  BY <1>5, PutcInterruptsOffStep
<1>6. CASE serial_flush
  BY <1>6, SerialFlushStep
<1>7. CASE Getc
  <2>1. CASE buffer = 0
    BY <1>7, <2>1, IInvIs
    DEF Getc, uart, Rest, InterruptsArmed, input_full, Numbered, Byte
  <2>2. CASE buffer # 0
    BY <1>7, <2>2, IInvIs, BufferStep DEF Getc, Rest
  <2> QED
    BY <2>1, <2>2
<1>8. CASE GetcWoken
  BY <1>8, IInvIs, BufferStep DEF GetcWoken, Rest
<1>9. CASE Key
  BY <1>9, IInvIs, BufferStep DEF Key, input_full, Rest
<1>10. CASE SerialInterrupt
  BY <1>10, SerialInterruptStep
<1>11. CASE UartSends \/ UartReceives \/ UNCHANGED vars
  BY <1>11, IInvIs
  DEF UartSends, UartReceives, vars, uart, Rest, InterruptsArmed, input_full,
      Numbered, Byte
<1> QED
  BY <1>1, <1>2, <1>3, <1>4, <1>5, <1>6, <1>7, <1>8, <1>9, <1>10, <1>11 DEF Next

-----------------------------------------------------------------------------
(* IInv is an invariant of the serial port.                                *)
THEOREM Invariance == Spec => []IInv
BY IInvInit, IInvNext, PTL DEF Spec

(* Bytes reach the UART in the order of the serial_putc() calls, none lost *)
(* and none twice, when interrupts, polling with the queue full            *)
(* (serial.c:115-123) and serial_flush() alternate in any way.             *)
THEOREM OutputIsInOrder == Spec => []SentInOrder
<1>1. IInv => SentInOrder
  BY DEF IInv
<1> QED
  BY <1>1, Invariance, PTL

(* Once the queue is in use the UART is told to interrupt exactly for the  *)
(* work that can be done (serial.c:177): no output and no input stops.     *)
THEOREM UartIsArmed == Spec => []InterruptsArmed
<1>1. IInv => InterruptsArmed
  BY DEF IInv
<1> QED
  BY <1>1, Invariance, PTL
=============================================================================
