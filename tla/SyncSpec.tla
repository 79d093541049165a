------------------------------- MODULE SyncSpec ------------------------------
(***************************************************************************)
(* What threads/synch.c promises, without queues, scheduling or atomic     *)
(* sections: counting semaphores whose units are granted one at a time to  *)
(* threads that asked, and locks that are owned by one thread at a time.   *)
(***************************************************************************)
EXTENDS Integers

CONSTANTS Thread, Semaphore, Lock, NULL

Sema == Semaphore \cup Lock \cup Thread

VARIABLES
  avail,    \* units of each semaphore
  pending,  \* the semaphore a thread is downing and has no unit of yet
  owner     \* the owner of each lock

vars == <<avail, pending, owner>>

Init ==
  /\ avail = [s \in Sema |-> IF s \in Lock THEN 1 ELSE 0]
  /\ pending = [t \in Thread |-> NULL]
  /\ owner = [l \in Lock |-> NULL]

(* t asks for a unit of s and none is there.                               *)
Request(t, s) ==
  /\ pending[t] = NULL
  /\ avail[s] = 0
  /\ pending' = [pending EXCEPT ![t] = s]
  /\ UNCHANGED <<avail, owner>>

(* t, which just asks for s or has asked before, gets a unit of it.        *)
Grant(t, s) ==
  /\ pending[t] \in {s, NULL}
  /\ avail[s] > 0
  /\ avail' = [avail EXCEPT ![s] = @ - 1]
  /\ pending' = [pending EXCEPT ![t] = NULL]
  /\ IF s \in Lock
     THEN /\ owner[s] = NULL
          /\ owner' = [owner EXCEPT ![s] = t]
     ELSE UNCHANGED owner

(* A unit is added to a semaphore that is not a lock.                      *)
Up(s) ==
  /\ s \notin Lock
  /\ avail' = [avail EXCEPT ![s] = @ + 1]
  /\ UNCHANGED <<pending, owner>>

(* Only its owner gives a lock back.                                       *)
Release(t, l) ==
  /\ owner[l] = t
  /\ pending[t] = NULL
  /\ owner' = [owner EXCEPT ![l] = NULL]
  /\ avail' = [avail EXCEPT ![l] = 1]
  /\ UNCHANGED pending

(* The semaphore that a thread c ups when it ends is made anew with the    *)
(* thread: no thread may be downing it or still count on a unit of it.     *)
Renew(c) ==
  /\ \A t \in Thread : pending[t] # c
  /\ pending[c] = NULL
  /\ avail' = [avail EXCEPT ![c] = 0]
  /\ UNCHANGED <<pending, owner>>

Next ==
  \/ \E t \in Thread, s \in Sema : Request(t, s) \/ Grant(t, s)
  \/ \E s \in Sema : Up(s)
  \/ \E t \in Thread, l \in Lock : Release(t, l)
  \/ \E c \in Thread : Renew(c)

Spec == Init /\ [][Next]_vars
=============================================================================
