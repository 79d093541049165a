------------------------------- MODULE Serial --------------------------------
(***************************************************************************)
(* devices/serial.c and devices/input.c: the interrupt-driven serial port. *)
(* Threads and handlers share two interrupt queues, taken here as the      *)
(* bounded FIFOs that IntQueue implements, and the interrupt enable        *)
(* register, which tells the UART when to interrupt.  Every call runs with *)
(* interrupts off, so it is one action up to the place where it sleeps.    *)
(*                                                                         *)
(* Bytes sent are numbered modulo Numbers in the order of serial_putc().   *)
(* Of bytes received only the number in the input buffer is kept.          *)
(***************************************************************************)
EXTENDS Integers, Sequences, Functions

CONSTANTS
  Capacity, \* bytes an interrupt queue holds
  Numbers   \* numbers given to bytes

ASSUME SerialAssumption ==
  Capacity \in Nat \ {0} /\ Numbers \in Nat /\ Numbers > Capacity + 2

VARIABLES
  mode,    \* "POLL" or "QUEUE"
  txq,     \* bytes to be sent
  buffer,  \* number of bytes in the input buffer
  ier,     \* interrupt enable register: a subset of {"XMIT", "RECV"}
  thre,    \* UART: the transmit holding register is empty
  dr,      \* UART: a byte has been received
  made,    \* number of the next byte given to serial_putc()
  sent,    \* number of the last byte written to the UART
  writer,  \* thread in serial_putc(): "out", or "wait" for room in txq
  reader   \* thread in input_getc(): "out", or "wait" for a byte

uart == <<thre, dr>>
vars == <<mode, txq, buffer, ier, uart, made, sent, writer, reader>>

Byte == 0 .. Numbers - 1

(* serial_init_queue() has not run yet, polling output has not begun.      *)
Init ==
  /\ mode = "POLL"
  /\ txq = <<>> /\ buffer = 0
  /\ ier = {}
  /\ thre = TRUE /\ dr = FALSE
  /\ made = 0 /\ sent = Numbers - 1
  /\ writer = "out" /\ reader = "out"

intq_full(q) == Len(q) = Capacity
input_full   == buffer = Capacity

(* Registers the state of both queues after the step in the UART.          *)
write_ier ==
  ier' = {e \in {"XMIT", "RECV"} : IF e = "XMIT" THEN txq' # <<>>
                                                 ELSE buffer' # Capacity}

(* serial_notify(), called by the input buffer routines.                   *)
serial_notify == IF mode = "QUEUE" THEN write_ier ELSE UNCHANGED ier

(* putc_poll(): busy-waits for the UART, then writes byte to it.           *)
putc_poll(byte) == thre' = FALSE /\ sent' = byte /\ UNCHANGED dr

(* Mutant: the UART is not told that there is a byte to send.              *)
put_unarmed(queue) ==
  /\ txq' = Append(queue, made)
  /\ made' = (made + 1) % Numbers
  /\ UNCHANGED <<buffer, ier>>

(* A new byte enters the transmit queue; queue is what is left of txq.     *)
put(queue) ==
  /\ txq' = Append(queue, made)
  /\ made' = (made + 1) % Numbers
  /\ UNCHANGED buffer
  /\ write_ier

-----------------------------------------------------------------------------
serial_init_queue ==
  /\ mode = "POLL"
  /\ mode' = "QUEUE"
  /\ UNCHANGED <<txq, buffer, uart, made, sent, writer, reader>>
  /\ write_ier

(* serial_putc() in polling mode.                                          *)
PutcPolling ==
  /\ mode = "POLL"
  /\ putc_poll(made)
  /\ made' = (made + 1) % Numbers
  /\ UNCHANGED <<mode, txq, buffer, ier, writer, reader>>

(* serial_putc() by a thread with interrupts on.                           *)
Putc ==
  /\ mode = "QUEUE" /\ writer = "out"
  /\ IF intq_full(txq)
     THEN writer' = "wait" /\ UNCHANGED <<txq, buffer, ier, made>>
     ELSE put(txq) /\ UNCHANGED writer
  /\ UNCHANGED <<mode, uart, sent, reader>>

(* The writer that waited for room is back in serial_putc().               *)
PutcWoken ==
  /\ writer = "wait" /\ ~intq_full(txq)
  /\ writer' = "out"
  /\ put(txq)
  /\ UNCHANGED <<mode, uart, sent, reader>>

(* Mutant: with the queue full the new byte itself is polled out.          *)
PutcInterruptsOffOvertakes ==
  /\ mode = "QUEUE"
  /\ IF intq_full(txq)
     THEN putc_poll(made) /\ made' = (made + 1) % Numbers /\ UNCHANGED <<txq, buffer, ier>>
     ELSE put(txq) /\ UNCHANGED <<uart, sent>>
  /\ UNCHANGED <<mode, writer, reader>>

(* serial_putc() with interrupts off: with the queue full, its first byte  *)
(* is polled out to make room.                                             *)
PutcInterruptsOff ==
  /\ mode = "QUEUE"
  /\ IF intq_full(txq)
     THEN putc_poll(Head(txq)) /\ put(Tail(txq))
     ELSE put(txq) /\ UNCHANGED <<uart, sent>>
  /\ UNCHANGED <<mode, writer, reader>>

(* serial_flush(): polls the whole queue out and leaves the register.      *)
serial_flush ==
  /\ txq # <<>>
  /\ putc_poll(txq[Len(txq)])
  /\ txq' = <<>>
  /\ UNCHANGED <<mode, buffer, ier, made, writer, reader>>

(* Mutant: a byte is taken from the input buffer without serial_notify().  *)
GetcSilent ==
  /\ reader = "out"
  /\ IF buffer = 0 THEN reader' = "wait" /\ UNCHANGED buffer
                   ELSE buffer' = buffer - 1 /\ UNCHANGED reader
  /\ UNCHANGED <<txq, ier>>
  /\ UNCHANGED <<mode, uart, made, sent, writer>>

(* input_getc(), and the reader that waited for a byte.                    *)
Getc ==
  /\ reader = "out"
  /\ IF buffer = 0
     THEN reader' = "wait" /\ UNCHANGED <<txq, buffer, ier>>
     ELSE buffer' = buffer - 1 /\ UNCHANGED <<txq, reader>> /\ serial_notify
  /\ UNCHANGED <<mode, uart, made, sent, writer>>

GetcWoken ==
  /\ reader = "wait" /\ buffer > 0
  /\ reader' = "out"
  /\ buffer' = buffer - 1 /\ UNCHANGED txq /\ serial_notify
  /\ UNCHANGED <<mode, uart, made, sent, writer>>

(* The keyboard handler adds a key through input_putc().                   *)
Key ==
  /\ ~input_full
  /\ buffer' = buffer + 1 /\ UNCHANGED txq /\ serial_notify
  /\ UNCHANGED <<mode, uart, made, sent, writer, reader>>

(* serial_interrupt(): receives a byte if there is one and room for it,    *)
(* sends bytes while the UART is ready, which it may be again at once.     *)
Receive ==
  IF dr /\ ~input_full THEN buffer' = buffer + 1 /\ dr' = FALSE
                       ELSE UNCHANGED <<buffer, dr>>

Transmit ==
  IF thre /\ txq # <<>>
  THEN \E n \in 1 .. Len(txq) :
         /\ sent' = txq[n]
         /\ txq' = SubSeq(txq, n + 1, Len(txq))
         /\ thre' = FALSE
  ELSE UNCHANGED <<sent, txq, thre>>

InterruptRequest == ("XMIT" \in ier /\ thre) \/ ("RECV" \in ier /\ dr)

(* Mutant: the handler leaves the register as it was set before.           *)
SerialInterruptKeepsIer ==
  /\ InterruptRequest
  /\ Receive /\ Transmit /\ UNCHANGED ier
  /\ UNCHANGED <<mode, made, writer, reader>>

SerialInterrupt ==
  /\ InterruptRequest
  /\ Receive /\ Transmit /\ write_ier
  /\ UNCHANGED <<mode, made, writer, reader>>

(* The UART sends the byte in its register; a byte arrives on the line.    *)
UartSends ==
  /\ ~thre /\ thre' = TRUE
  /\ UNCHANGED <<mode, txq, buffer, ier, dr, made, sent, writer, reader>>

UartReceives ==
  /\ ~dr /\ dr' = TRUE
  /\ UNCHANGED <<mode, txq, buffer, ier, thre, made, sent, writer, reader>>

Next ==
  \/ serial_init_queue \/ PutcPolling \/ Putc \/ PutcWoken
  \/ PutcInterruptsOff \/ serial_flush \/ Getc \/ GetcWoken \/ Key
  \/ SerialInterrupt \/ UartSends \/ UartReceives

Spec == Init /\ [][Next]_vars

(* The UART works, its interrupts are taken, unblocked threads run.        *)
FairSpec ==
  /\ Spec
  /\ WF_vars(UartSends) /\ WF_vars(SerialInterrupt)
  /\ WF_vars(PutcWoken) /\ WF_vars(GetcWoken)

-----------------------------------------------------------------------------
(* Properties.                                                             *)

TypeOK ==
  /\ mode \in {"POLL", "QUEUE"}
  /\ txq \in Seq(Byte) /\ Len(txq) <= Capacity
  /\ buffer \in 0 .. Capacity
  /\ ier \subseteq {"XMIT", "RECV"}
  /\ thre \in BOOLEAN /\ dr \in BOOLEAN
  /\ made \in Byte /\ sent \in Byte
  /\ writer \in {"out", "wait"} /\ reader \in {"out", "wait"}

(* Bytes reach the UART in the order of the serial_putc() calls, none lost *)
(* and none twice, by interrupt and by polling alike.                      *)
SentInOrder ==
  /\ \A i \in DOMAIN txq : txq[i] = (sent + i) % Numbers
  /\ made = (sent + Len(txq) + 1) % Numbers

(* Whenever there is something to send the UART is told to interrupt when  *)
(* it can take a byte, and to interrupt for received bytes exactly when    *)
(* the input buffer has room: otherwise output or input would stop, or the *)
(* handler would be entered for ever for a byte it cannot store.           *)
InterruptsArmed ==
  mode = "QUEUE" => /\ txq # <<>> => "XMIT" \in ier
                    /\ "RECV" \in ier <=> ~input_full

(* Every byte given to serial_putc() reaches the UART.                     *)
EveryByteSent == \A b \in Byte : b \in Range(txq) ~> b \notin Range(txq)

(* A received byte is stored as soon as there is room for it.              *)
EveryByteReceived == mode = "QUEUE" /\ dr ~> ~dr \/ input_full

(* No byte stays behind, in either direction (serial.c:165).               *)
EveryByteIsServed == EveryByteSent /\ EveryByteReceived
=============================================================================
