--------------------------------- MODULE Mesa --------------------------------
(***************************************************************************)
(* What the comments of threads/synch.c promise of a condition variable: a *)
(* thread gives the lock back and begins to wait in one step; a signal     *)
(* wakes one of the threads that wait at that moment, a broadcast all of   *)
(* them; and a thread that was woken has the lock again before it goes on. *)
(***************************************************************************)
CONSTANTS Thread, NULL

VARIABLES
  owner,   \* the thread inside the monitor, or NULL
  waiting, \* threads that wait for a signal
  woken    \* threads that were woken and do not have the lock yet

vars == <<owner, waiting, woken>>

Init == owner = NULL /\ waiting = {} /\ woken = {}

Enter(t) ==
  /\ owner = NULL /\ t \notin waiting \cup woken
  /\ owner' = t
  /\ UNCHANGED <<waiting, woken>>

Leave(t) ==
  /\ owner = t
  /\ owner' = NULL
  /\ UNCHANGED <<waiting, woken>>

Wait(t) ==
  /\ owner = t
  /\ owner' = NULL
  /\ waiting' = waiting \cup {t}
  /\ UNCHANGED woken

(* The owner wakes the threads S.                                          *)
Wake(S) ==
  /\ owner # NULL /\ S \subseteq waiting
  /\ waiting' = waiting \ S
  /\ woken' = woken \cup S
  /\ UNCHANGED owner

Return(t) ==
  /\ owner = NULL /\ t \in woken
  /\ owner' = t
  /\ woken' = woken \ {t}
  /\ UNCHANGED waiting

Next ==
  \/ \E t \in Thread : Enter(t) \/ Leave(t) \/ Wait(t) \/ Return(t) \/ Wake({t})

Spec == Init /\ [][Next]_vars
=============================================================================
