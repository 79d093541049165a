------------------------------- MODULE Console -------------------------------
(***************************************************************************)
(* The console lock of lib/kernel/console.c.  printf() may be called again *)
(* by code that runs while a thread prints (the comment before             *)
(* console_lock_depth has an example), so that the lock is made recursive, *)
(* with one counter for all threads.  After a panic nobody takes the lock  *)
(* any more.  Interrupt handlers print without it and change nothing here. *)
(***************************************************************************)
EXTENDS Integers

CONSTANTS
  Thread, NULL,
  MaxNested   \* bound of the model on printf() inside printf()

VARIABLES
  printing,  \* of each thread: how many of its printf()s are under way
  holder,    \* console_lock.holder
  depth,     \* console_lock_depth
  use_lock   \* use_console_lock

vars == <<printing, holder, depth, use_lock>>

Init ==
  /\ printing = [t \in Thread |-> 0]
  /\ holder = NULL
  /\ depth = 0
  /\ use_lock = TRUE

(* acquire_console(); lock_acquire() waits until the lock is free.         *)
acquire_console(t) ==
  \/ ~use_lock /\ UNCHANGED <<holder, depth>>
  \/ use_lock /\ holder = t /\ depth' = depth + 1 /\ UNCHANGED holder
  \/ use_lock /\ holder = NULL /\ holder' = t /\ UNCHANGED depth

(* printf(), puts(), putbuf() or putchar() begins.                         *)
Begin(t) ==
  /\ printing[t] <= MaxNested
  /\ acquire_console(t)
  /\ printing' = [printing EXCEPT ![t] = @ + 1]
  /\ UNCHANGED use_lock

(* Mutant: the end of an inner printf() gives the lock back.               *)
release_console_always ==
  \/ ~use_lock /\ UNCHANGED <<holder, depth>>
  \/ use_lock /\ holder' = NULL /\ UNCHANGED depth

release_console ==
  \/ ~use_lock /\ UNCHANGED <<holder, depth>>
  \/ use_lock /\ depth > 0 /\ depth' = depth - 1 /\ UNCHANGED holder
  \/ use_lock /\ depth = 0 /\ holder' = NULL /\ UNCHANGED depth

End(t) ==
  /\ printing[t] > 0
  /\ release_console
  /\ printing' = [printing EXCEPT ![t] = @ - 1]
  /\ UNCHANGED use_lock

(* console_panic().                                                        *)
Panic ==
  /\ use_lock
  /\ use_lock' = FALSE
  /\ UNCHANGED <<printing, holder, depth>>

Next ==
  \/ \E t \in Thread : Begin(t) \/ End(t)
  \/ Panic

Spec == Init /\ [][Next]_vars

-----------------------------------------------------------------------------
(* Properties.                                                             *)

(* The assertion of putchar_have_lock() for a character that t writes.     *)
console_locked_by(t) == ~use_lock \/ holder = t

(* Until the kernel panics only the holder of the lock prints, and the one *)
(* counter is right for whoever holds it; the lock is free when nobody     *)
(* prints.  The assertion of putchar_have_lock() holds for each character, *)
(* before and after a panic.                                               *)
OutputIsNotMixed ==
  /\ \A t \in Thread : printing[t] > 0 => console_locked_by(t)
  /\ use_lock => \A t \in Thread :
       holder = t => printing[t] = depth + 1
  /\ use_lock /\ holder = NULL => depth = 0
=============================================================================
