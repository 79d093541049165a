------------------------------- MODULE Monitor -------------------------------
(***************************************************************************)
(* Condition variables, threads/synch.c: one lock and one condition.  A    *)
(* thread that waits has a semaphore of its own on its stack, which is on  *)
(* the list of waiters.  Every semaphore and lock operation is a step of   *)
(* its own, because the thread may be preempted between any two of them.   *)
(* Locks and semaphores are those of SyncSpec.                             *)
(***************************************************************************)
EXTENDS Integers, Sequences

CONSTANTS Thread, NULL

VARIABLES
  pc,        \* where the thread is
  holder,    \* lock->holder
  waiters,   \* cond->waiters: the threads whose semaphores are on the list
  semaphore  \* value of the semaphore of each thread's cond_wait()

vars == <<pc, holder, waiters, semaphore>>

(***************************************************************************)
(* "out"       outside                                                     *)
(* "in"        has the lock                                                *)
(* "queued"    in cond_wait(), before lock_release()                       *)
(* "down"      in cond_wait(), in sema_down()                              *)
(* "acquire"   in cond_wait(), in lock_acquire()                           *)
(* "broadcast" in the loop of cond_broadcast()                             *)
(***************************************************************************)
PC == {"out", "in", "queued", "down", "acquire", "broadcast"}

Init ==
  /\ pc = [t \in Thread |-> "out"]
  /\ holder = NULL
  /\ waiters = <<>>
  /\ semaphore = [t \in Thread |-> 0]

(* lock_acquire() and lock_release() by the code that uses the monitor.    *)
Acquire(t) ==
  /\ pc[t] = "out" /\ holder = NULL
  /\ holder' = t
  /\ pc' = [pc EXCEPT ![t] = "in"]
  /\ UNCHANGED <<waiters, semaphore>>

Release(t) ==
  /\ pc[t] = "in"
  /\ holder' = NULL
  /\ pc' = [pc EXCEPT ![t] = "out"]
  /\ UNCHANGED <<waiters, semaphore>>

-----------------------------------------------------------------------------
(* cond_wait().                                                            *)

(* sema_init() and list_push_back().                                       *)
Wait(t) ==
  /\ pc[t] = "in"
  /\ semaphore' = [semaphore EXCEPT ![t] = 0]
  /\ waiters' = Append(waiters, t)
  /\ pc' = [pc EXCEPT ![t] = "queued"]
  /\ UNCHANGED holder

(* lock_release().                                                         *)
WaitRelease(t) ==
  /\ pc[t] = "queued"
  /\ holder' = NULL
  /\ pc' = [pc EXCEPT ![t] = "down"]
  /\ UNCHANGED <<waiters, semaphore>>

(* Mutant: a thread is woken without having been signalled.                *)
WaitDown_spurious(t) ==
  /\ pc[t] = "down"
  /\ semaphore' = [semaphore EXCEPT ![t] = 0]
  /\ pc' = [pc EXCEPT ![t] = "acquire"]
  /\ UNCHANGED <<holder, waiters>>

(* sema_down().                                                            *)
WaitDown(t) ==
  /\ pc[t] = "down" /\ semaphore[t] > 0
  /\ semaphore' = [semaphore EXCEPT ![t] = @ - 1]
  /\ pc' = [pc EXCEPT ![t] = "acquire"]
  /\ UNCHANGED <<holder, waiters>>

(* lock_acquire().                                                         *)
WaitAcquire(t) ==
  /\ pc[t] = "acquire" /\ holder = NULL
  /\ holder' = t
  /\ pc' = [pc EXCEPT ![t] = "in"]
  /\ UNCHANGED <<waiters, semaphore>>

-----------------------------------------------------------------------------
(* cond_signal() and cond_broadcast().                                     *)

(* Mutant: the first waiter is upped but stays on the list.                *)
up_first_kept ==
  IF waiters = <<>> THEN UNCHANGED <<waiters, semaphore>>
  ELSE /\ semaphore' = [semaphore EXCEPT ![Head(waiters)] = @ + 1]
       /\ UNCHANGED waiters

up_first ==
  IF waiters = <<>> THEN UNCHANGED <<waiters, semaphore>>
  ELSE /\ semaphore' = [semaphore EXCEPT ![Head(waiters)] = @ + 1]
       /\ waiters' = Tail(waiters)

Signal(t) ==
  /\ pc[t] = "in" /\ waiters # <<>>
  /\ up_first
  /\ UNCHANGED <<pc, holder>>

(* The loop of cond_broadcast(); Mesa sees one Wake for each round.        *)
Broadcast(t) ==
  /\ pc[t] = "in"
  /\ up_first
  /\ pc' = [pc EXCEPT ![t] = "broadcast"]
  /\ UNCHANGED holder

BroadcastNext(t) ==
  /\ pc[t] = "broadcast"
  /\ up_first
  /\ pc' = [pc EXCEPT ![t] = IF waiters = <<>> THEN "in" ELSE @]
  /\ UNCHANGED holder

Next ==
  \E t \in Thread :
    \/ Acquire(t) \/ Release(t) \/ Wait(t) \/ WaitRelease(t) \/ WaitDown(t)
    \/ WaitAcquire(t) \/ Signal(t) \/ Broadcast(t) \/ BroadcastNext(t)

Spec == Init /\ [][Next]_vars

-----------------------------------------------------------------------------
(* Properties.                                                             *)

Queued == {waiters[k] : k \in DOMAIN waiters}

(* cond_wait() releases the lock and waits as one step, although it takes  *)
(* four: no signal is lost between lock_release() and sema_down(), and     *)
(* none reaches a thread that began to wait after it.                      *)
M == INSTANCE Mesa WITH
  owner <- holder,
  waiting <- {t \in Queued : pc[t] # "queued"},
  woken <- {t \in Thread : pc[t] = "acquire" \/ (pc[t] = "down" /\ semaphore[t] > 0)}

ImplementsMesa == M!Spec
=============================================================================
