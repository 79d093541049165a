------------------------------- MODULE IntQueue ------------------------------
(***************************************************************************)
(* devices/intq.c: the circular queue between kernel threads and external  *)
(* interrupt handlers.  All of it runs with interrupts off, so an action   *)
(* ends only where a thread sleeps or returns: in lock_acquire(&q->lock),  *)
(* in the thread_block() of wait(), or at the end of the call.  A sleeping *)
(* thread that was unblocked runs later, at any time.                      *)
(*                                                                         *)
(* The input buffer has readers that are threads and a writer that is an   *)
(* interrupt handler; the serial transmit queue has it the other way round.*)
(***************************************************************************)
EXTENDS Integers, Sequences, FiniteSets, Functions

CONSTANTS
  Getter,       \* threads that call intq_getc()
  Putter,       \* threads that call intq_putc()
  Users,        \* sets of threads that may share one queue
  NULL,         \* the null pointer
  Byte,         \* the bytes put into the queue
  INTQ_BUFSIZE  \* size of the buffer; one slot always stays empty

Thread == Getter \cup Putter

ASSUME IntQueueAssumption ==
  /\ INTQ_BUFSIZE \in Nat /\ INTQ_BUFSIZE > 1
  /\ Getter \cap Putter = {} /\ IsFiniteSet(Thread)
  /\ Users \subseteq (SUBSET Getter) \cup (SUBSET Putter)
  /\ 0 \in Byte
  /\ NULL \notin Thread

VARIABLES
  users,                \* threads at one end; interrupt handlers are at the other
  buf, head, tail,      \* the ring
  not_empty, not_full,  \* the thread waiting for each condition
  holder, waiters,      \* q->lock
  pc,     \* "out", "lock" (in lock_acquire), "wait" (in wait)
  asleep, \* threads blocked in "lock" or "wait" and not yet unblocked
  panic   \* an assertion has failed

ring == <<buf, head, tail>>
vars == <<users, ring, not_empty, not_full, holder, waiters, pc, asleep, panic>>

PC == {"out", "lock", "wait"}

Init ==
  /\ users \in Users
  /\ buf = [i \in 0 .. INTQ_BUFSIZE - 1 |-> 0]
  /\ head = 0 /\ tail = 0
  /\ not_empty = NULL /\ not_full = NULL
  /\ holder = NULL /\ waiters = <<>>
  /\ pc = [t \in Thread |-> "out"]
  /\ asleep = {}
  /\ panic = FALSE

next(pos) == (pos + 1) % INTQ_BUFSIZE

intq_empty == head = tail
intq_full  == next(head) = tail

-----------------------------------------------------------------------------
(* The two ends of the ring.  Each also signals the thread that waits for  *)
(* the condition it makes true, and resets that slot.                      *)

(* Mutant: the tail advances without wrapping around at the last slot.     *)
take_no_wrap ==
  /\ ~intq_empty
  /\ tail' = tail + 1
  /\ UNCHANGED <<buf, head>>

take ==
  /\ ~intq_empty
  /\ tail' = next(tail)
  /\ UNCHANGED <<buf, head>>

store(b) ==
  /\ ~intq_full
  /\ buf' = [buf EXCEPT ![head] = b]
  /\ head' = next(head)
  /\ UNCHANGED tail

Waiter(t) == IF t \in Getter THEN not_empty ELSE not_full

(* The rest of a call of t once its condition holds.                       *)
Transfer(t) ==
  IF t \in Getter
  THEN /\ take
       /\ not_full' = NULL
       /\ UNCHANGED not_empty
  ELSE /\ \E b \in Byte : store(b)
       /\ not_empty' = NULL
       /\ UNCHANGED not_full

(* Who is unblocked by the signal at the end of Transfer(t).               *)
Signalled(t) == {IF t \in Getter THEN not_full ELSE not_empty} \ {NULL}

Blocked(t) == IF t \in Getter THEN intq_empty ELSE intq_full

(* wait(): with q->lock held, enter the waiter slot and sleep, the threads *)
(* in woken having been unblocked before.                                  *)
wait(t, woken) ==
  IF Blocked(t)
  THEN /\ IF t \in Getter THEN not_empty' = t /\ UNCHANGED not_full
                          ELSE not_full' = t /\ UNCHANGED not_empty
       /\ holder' = t
       /\ pc' = [pc EXCEPT ![t] = "wait"]
       /\ asleep' = (asleep \ woken) \cup {t}
       /\ UNCHANGED panic
  ELSE /\ panic' = TRUE
       /\ UNCHANGED <<not_empty, not_full, holder, pc, asleep>>

(* The sema_down() of lock_acquire() when the lock is taken.               *)
queue_for_lock(t) ==
  /\ waiters' = Append(waiters, t)
  /\ pc' = [pc EXCEPT ![t] = "lock"]
  /\ asleep' = asleep \cup {t}
  /\ UNCHANGED <<ring, not_empty, not_full, holder, panic>>

-----------------------------------------------------------------------------
(* A call by thread t from the top.                                        *)

(* Mutant: interrupts come on between lock_acquire() and wait().            *)
Enter_interruptible(t) ==
  /\ ~panic /\ t \in users /\ pc[t] = "out"
  /\ \/ /\ ~Blocked(t)
        /\ Transfer(t)
        /\ asleep' = asleep \ Signalled(t)
        /\ UNCHANGED <<holder, waiters, pc, panic>>
     \/ /\ Blocked(t) /\ holder = NULL
        /\ pc' = [pc EXCEPT ![t] = "lock"]
        /\ UNCHANGED <<ring, not_empty, not_full, holder, waiters, asleep, panic>>

Enter(t) ==
  /\ ~panic /\ t \in users /\ pc[t] = "out"
  /\ \/ /\ ~Blocked(t)
        /\ Transfer(t)
        /\ asleep' = asleep \ Signalled(t)
        /\ UNCHANGED <<holder, waiters, pc, panic>>
     \/ /\ Blocked(t) /\ holder = NULL
        /\ wait(t, {})
        /\ UNCHANGED <<ring, waiters>>
     \/ /\ Blocked(t) /\ holder # NULL
        /\ queue_for_lock(t)

(* t was woken in lock_acquire(): it takes the lock, or finds it taken     *)
(* again and queues up once more.  The condition is not tested again       *)
(* before wait().                                                          *)
LockWoken(t) ==
  /\ ~panic /\ pc[t] = "lock" /\ t \notin asleep
  /\ IF holder = NULL
     THEN wait(t, {}) /\ UNCHANGED <<ring, waiters>>
     ELSE queue_for_lock(t)

(* t was woken in wait(): it releases the lock, which wakes the first      *)
(* thread queued for it, and tests the condition again.  If it must wait   *)
(* once more it takes the lock before the woken thread can.                *)
Unlocked == IF waiters = <<>> THEN {} ELSE {Head(waiters)}

WaitWoken(t) ==
  /\ ~panic /\ pc[t] = "wait" /\ t \notin asleep
  /\ waiters' = IF waiters = <<>> THEN waiters ELSE Tail(waiters)
  /\ \/ /\ ~Blocked(t)
        /\ Transfer(t)
        /\ holder' = NULL
        /\ pc' = [pc EXCEPT ![t] = "out"]
        /\ asleep' = (asleep \ Signalled(t)) \ Unlocked
        /\ UNCHANGED panic
     \/ /\ Blocked(t)
        /\ wait(t, Unlocked)
        /\ UNCHANGED ring

(* An interrupt handler puts a byte after it has tested intq_full(), or    *)
(* takes one after it has tested intq_empty().                             *)

(* Mutant: the handler does not wake the thread that waits for a byte.     *)
InterruptPutSilent(b) ==
  /\ ~panic
  /\ store(b)
  /\ UNCHANGED <<not_empty, asleep, not_full, holder, waiters, pc, panic>>

InterruptPut(b) ==
  /\ ~panic
  /\ store(b)
  /\ asleep' = asleep \ {not_empty}
  /\ not_empty' = NULL
  /\ UNCHANGED <<not_full, holder, waiters, pc, panic>>

(* Mutant: the handler wakes the waiting writer but leaves the slot set.   *)
InterruptGetKeepsSlot ==
  /\ ~panic
  /\ take
  /\ UNCHANGED <<asleep, not_full, not_empty, holder, waiters, pc, panic>>

InterruptGet ==
  /\ ~panic
  /\ take
  /\ asleep' = asleep \ {not_full}
  /\ not_full' = NULL
  /\ UNCHANGED <<not_empty, holder, waiters, pc, panic>>

(* The handlers at the other end of a queue with thread readers, writers.  *)
Interrupt ==
  \/ users \subseteq Getter /\ \E b \in Byte : InterruptPut(b)
  \/ users \subseteq Putter /\ InterruptGet

Call == \E t \in Thread : Enter(t) \/ LockWoken(t) \/ WaitWoken(t)

Next == (Call \/ Interrupt) /\ UNCHANGED users

Spec == Init /\ [][Next]_vars

(* An unblocked thread is scheduled.  Nothing forces an interrupt.         *)
Woken(t) == (LockWoken(t) \/ WaitWoken(t)) /\ UNCHANGED users

FairSpec == Spec /\ \A t \in Thread : WF_vars(Woken(t))

-----------------------------------------------------------------------------
(* Properties.                                                             *)

(* Types of the ring, the waiter slots and the lock.                       *)
TypeOK ==
  /\ users \in Users
  /\ buf \in [0 .. INTQ_BUFSIZE - 1 -> Byte]
  /\ head \in 0 .. INTQ_BUFSIZE - 1
  /\ tail \in 0 .. INTQ_BUFSIZE - 1
  /\ not_empty \in Getter \cup {NULL}
  /\ not_full \in Putter \cup {NULL}
  /\ holder \in Thread \cup {NULL}
  /\ waiters \in Seq(Thread)
  /\ pc \in [Thread -> PC]
  /\ asleep \subseteq Thread
  /\ panic \in BOOLEAN

(* The assertion in wait() (intq.c:91): whoever gets there with the lock   *)
(* still finds the queue empty, or full.                                   *)
NoPanic == ~panic

(* It can fail only where two threads use the same end of a queue.         *)
OneUserNeverPanics == Cardinality(users) < 2 => ~panic

(* No sleeper is forgotten: a thread asleep in wait() is in its waiter     *)
(* slot, holds the lock, and the condition it waits for is still false; a  *)
(* thread asleep in lock_acquire() is queued behind a holder.              *)
SleepersAreWoken ==
  \A t \in asleep :
    \/ pc[t] = "wait" /\ Waiter(t) = t /\ holder = t /\ Blocked(t)
    \/ pc[t] = "lock" /\ t \in Range(waiters)
       /\ (holder # NULL \/ \E u \in Thread \ asleep : pc[u] = "lock")

(* The ring is a bounded first-in first-out queue of INTQ_BUFSIZE - 1      *)
(* bytes.                                                                  *)
Count == (head - tail) % INTQ_BUFSIZE

Content == [i \in 1 .. Count |-> buf[(tail + i - 1) % INTQ_BUFSIZE]]

Queue == INSTANCE Fifo WITH queue <- Content, Capacity <- INTQ_BUFSIZE - 1

ImplementsFifo == Queue!Spec

(* A thread asleep in intq_getc() or intq_putc() whose condition has come  *)
(* true returns from the call, unless the assertion stops the kernel or a  *)
(* second user of that end of the queue gets ahead of it.                  *)
Overtaken(t) == Cardinality(users) > 1 /\ Blocked(t)

WaiterReturns ==
  \A t \in Thread :
    pc[t] = "wait" /\ ~Blocked(t) ~> pc[t] = "out" \/ panic \/ Overtaken(t)
=============================================================================
