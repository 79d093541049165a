------------------------------- MODULE AllList -------------------------------
(***************************************************************************)
(* The list of all threads of threads/thread.c, pointer by pointer.        *)
(* init_thread() appends to it with interrupts on, so that other threads   *)
(* run between the assignments of list_insert(); thread_exit() removes     *)
(* from it with interrupts off.  A thread is named by its page, which can  *)
(* become another thread when it has been freed.                           *)
(***************************************************************************)
EXTENDS Integers, FiniteSets

CONSTANTS Thread, HEAD, TAIL

VARIABLES
  prev, next,  \* the pointers of all list elements
  state,       \* of each thread's element, see below
  raced        \* history: what the code leaves unprotected has happened

vars == <<prev, next, state, raced>>

Element == Thread \cup {HEAD, TAIL}

(***************************************************************************)
(* "none"    the page holds no thread, or one that has been removed        *)
(* "pointed" its own pointers are set, nothing points to it yet            *)
(* "linked"  the element before it points to it, the tail does not yet     *)
(* "listed"  list_insert() has ended                                       *)
(***************************************************************************)
Inserting == {t \in Thread : state[t] \in {"pointed", "linked"}}

(* list_init(); an element that is not used points to itself here.         *)
Init ==
  /\ prev = [e \in Element |-> IF e = TAIL THEN HEAD ELSE e]
  /\ next = [e \in Element |-> IF e = HEAD THEN TAIL ELSE e]
  /\ state = [t \in Thread |-> "none"]
  /\ raced = FALSE

(* list_push_back(): elem->prev = before->prev, elem->next = before.       *)
Point(t) ==
  /\ state[t] = "none"
  /\ prev' = [prev EXCEPT ![t] = prev[TAIL]]
  /\ next' = [next EXCEPT ![t] = TAIL]
  /\ state' = [state EXCEPT ![t] = "pointed"]
  /\ raced' = (raced \/ Inserting # {})

(* before->prev->next = elem.  The compiler may read before->prev again,   *)
(* or use the value it has read for elem->prev.                            *)
Link(t) ==
  /\ state[t] = "pointed"
  /\ \E before \in {prev[TAIL], prev[t]} : next' = [next EXCEPT ![before] = t]
  /\ state' = [state EXCEPT ![t] = "linked"]
  /\ UNCHANGED <<prev, raced>>

(* before->prev = elem.                                                    *)
LinkBack(t) ==
  /\ state[t] = "linked"
  /\ prev' = [prev EXCEPT ![TAIL] = t]
  /\ state' = [state EXCEPT ![t] = "listed"]
  /\ UNCHANGED <<next, raced>>

(* Mutant: list_remove() leaves the pointer back to the element.           *)
Remove_half(t) ==
  /\ state[t] = "listed"
  /\ next' = [next EXCEPT ![prev[t]] = next[t]]
  /\ state' = [state EXCEPT ![t] = "none"]
  /\ raced' = (raced \/ \E u \in Inserting : state[u] = "pointed" /\ prev[u] = t)
  /\ UNCHANGED prev

(* list_remove() in thread_exit(); the page is freed later.                *)
Remove(t) ==
  /\ state[t] = "listed"
  /\ next' = [next EXCEPT ![prev[t]] = next[t]]
  /\ prev' = [prev EXCEPT ![next[t]] = prev[t]]
  /\ state' = [state EXCEPT ![t] = "none"]
  /\ raced' = (raced \/ \E u \in Inserting : state[u] = "pointed" /\ prev[u] = t)

(* What follows a race is not explored.                                    *)
Next ==
  /\ ~raced
  /\ \E t \in Thread : Point(t) \/ Link(t) \/ LinkBack(t) \/ Remove(t)

Spec == Init /\ [][Next]_vars

-----------------------------------------------------------------------------
(* Properties.                                                             *)

(* The elements that thread_foreach() passes, starting from the head.      *)
Passed ==
  LET walk[n \in 0 .. Cardinality(Thread) + 1] ==
        IF n = 0 THEN HEAD ELSE next[walk[n - 1]]
  IN {walk[n] : n \in DOMAIN walk}

Listed == {t \in Thread : state[t] = "listed"}

(* Although any thread may run between two assignments of list_insert(),   *)
(* two things alone can damage the list: that a second thread is created   *)
(* meanwhile, and that the thread exits that the new element has taken for *)
(* its predecessor.  Otherwise a walk over the list passes every thread,   *)
(* and no element points to a page that holds no thread.                   *)
ListSurvives ==
  ~raced =>
    /\ Listed \cup {HEAD, TAIL} \subseteq Passed
    /\ Passed \subseteq Listed \cup Inserting \cup {HEAD, TAIL}
    /\ \A t \in Listed :
         /\ next[prev[t]] = t
         /\ prev[next[t]] = t \/ (next[t] = TAIL /\ Inserting # {})
         /\ {prev[t], next[t]} \cap Thread \subseteq Listed \cup Inserting
=============================================================================
