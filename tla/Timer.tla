-------------------------------- MODULE Timer --------------------------------
(***************************************************************************)
(* timer_sleep() of devices/timer.c, which spins over the counter of timer *)
(* ticks.  The counter has two words, and the processor reads one at a     *)
(* time; timer_ticks() reads it with interrupts off.                       *)
(***************************************************************************)
EXTENDS Integers

CONSTANTS
  Thread,
  Word,     \* values of a word of the counter: 2^32 in the code
  MaxTicks, \* bound of the model on the ticks counted
  MaxSleep  \* bound of the model on the argument of timer_sleep()

VARIABLES
  ticks,   \* the counter
  enabled, \* interrupts
  at,      \* where each thread is in timer_sleep()
  low,     \* the lower word that timer_ticks() has read
  start,   \* the local variable start
  wanted,  \* the argument of timer_sleep()
  called   \* history: the counter when timer_sleep() was called

vars == <<ticks, enabled, at, low, start, wanted, called>>

(***************************************************************************)
(* "awake"; in timer_ticks() for the variable start or for                 *)
(* timer_elapsed(), before the first and before the second word is read    *)
(***************************************************************************)
At == {"awake", "start", "start_high", "elapsed", "elapsed_high"}

Init ==
  /\ ticks = 0
  /\ enabled = TRUE
  /\ at = [t \in Thread |-> "awake"]
  /\ low = [t \in Thread |-> 0]
  /\ start = [t \in Thread |-> 0]
  /\ wanted = [t \in Thread |-> 0]
  /\ called = [t \in Thread |-> 0]

(* timer_interrupt().                                                      *)
Tick ==
  /\ enabled /\ ticks < MaxTicks
  /\ ticks' = ticks + 1
  /\ UNCHANGED <<enabled, at, low, start, wanted, called>>

timer_sleep(t) ==
  /\ enabled /\ at[t] = "awake"
  /\ \E n \in 0 .. MaxSleep : wanted' = [wanted EXCEPT ![t] = n]
  /\ called' = [called EXCEPT ![t] = ticks]
  /\ at' = [at EXCEPT ![t] = "start"]
  /\ UNCHANGED <<ticks, enabled, low, start>>

(* Mutant: timer_ticks() leaves interrupts on.                             *)
ReadLow_enabled(t) ==
  /\ enabled /\ at[t] \in {"start", "elapsed"}
  /\ low' = [low EXCEPT ![t] = ticks % Word]
  /\ at' = [at EXCEPT ![t] = IF @ = "start" THEN "start_high" ELSE "elapsed_high"]
  /\ UNCHANGED <<ticks, enabled, start, wanted, called>>

(* timer_ticks(): intr_disable(), the first word.                          *)
ReadLow(t) ==
  /\ enabled /\ at[t] \in {"start", "elapsed"}
  /\ enabled' = FALSE
  /\ low' = [low EXCEPT ![t] = ticks % Word]
  /\ at' = [at EXCEPT ![t] = IF @ = "start" THEN "start_high" ELSE "elapsed_high"]
  /\ UNCHANGED <<ticks, start, wanted, called>>

(* The counter as timer_ticks() returns it.                                *)
Read(t) == (ticks \div Word) * Word + low[t]

(* The second word and intr_set_level(), for start.                        *)
ReadStart(t) ==
  /\ at[t] = "start_high"
  /\ enabled' = TRUE
  /\ start' = [start EXCEPT ![t] = Read(t)]
  /\ low' = [low EXCEPT ![t] = 0]
  /\ at' = [at EXCEPT ![t] = "elapsed"]
  /\ UNCHANGED <<ticks, wanted, called>>

(* The same for timer_elapsed(), and the test of the loop.                 *)
ReadElapsed(t) ==
  /\ at[t] = "elapsed_high"
  /\ enabled' = TRUE
  /\ at' = [at EXCEPT ![t] = IF Read(t) - start[t] < wanted[t] THEN "elapsed"
                             ELSE "awake"]
  /\ low' = [low EXCEPT ![t] = 0]
  /\ UNCHANGED <<ticks, start, wanted, called>>

Next ==
  \/ Tick
  \/ \E t \in Thread :
       timer_sleep(t) \/ ReadLow(t) \/ ReadStart(t) \/ ReadElapsed(t)

Spec == Init /\ [][Next]_vars

-----------------------------------------------------------------------------
(* Properties.                                                             *)

(* Nobody wakes before the ticks asked for have passed, or long after they *)
(* have: a thread that tests the counter later than that returns.          *)
SleepsAsLongAsAsked ==
  /\ \A t \in Thread :
       at[t] = "awake" => ticks - called[t] >= wanted[t]
  /\ \A t \in Thread :
       at[t] \in {"elapsed", "elapsed_high"} =>
         start[t] \in called[t] .. ticks
=============================================================================
