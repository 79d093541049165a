--------------------------------- MODULE Rtc ---------------------------------
(***************************************************************************)
(* rtc_get_time() of devices/rtc.c reads the registers of a clock that     *)
(* goes on in the meantime, and reads them again when the seconds have     *)
(* changed.  Seconds, minutes and hours stand for all components.          *)
(***************************************************************************)
EXTENDS Integers

CONSTANTS
  Second, Minute, Hour \* seconds in a minute, minutes in an hour, hours

VARIABLES
  time,  \* of the clock, in seconds
  at,    \* the register to be read next
  read,  \* the components read
  passed \* seconds since the first register was read in this round

vars == <<time, at, read, passed>>

Register == <<"sec", "min", "hour">>

(* cmos_read().                                                            *)
cmos_read(r) ==
  CASE r = "sec"  -> time % Second
    [] r = "min"  -> (time \div Second) % Minute
    [] r = "hour" -> (time \div (Second * Minute)) % Hour

Init ==
  /\ time = 0
  /\ at = 1
  /\ read = [r \in {"sec", "min", "hour"} |-> 0]
  /\ passed = 0

(* The clock goes on; a round of reading takes less than a minute.         *)
Advance ==
  /\ at # 1 => passed < Second - 1
  /\ time' = (time + 1) % (Second * Minute * Hour)
  /\ passed' = IF at = 1 THEN 0 ELSE passed + 1
  /\ UNCHANGED <<at, read>>

Read ==
  /\ at <= 3
  /\ read' = [read EXCEPT ![Register[at]] = cmos_read(Register[at])]
  /\ at' = at + 1
  /\ passed' = IF at = 1 THEN 0 ELSE passed
  /\ UNCHANGED time

(* Mutant: the seconds are not read again.                                 *)
Stable_always == TRUE

Stable == cmos_read("sec") = read["sec"]

(* The condition of the loop.  at = 5: the components are used.            *)
Again ==
  /\ at = 4
  /\ at' = IF Stable THEN 5 ELSE 1
  /\ passed' = IF Stable THEN 0 ELSE passed
  /\ UNCHANGED <<time, read>>

(* rtc_get_time() returns, and is called again.                            *)
Return ==
  /\ at = 5
  /\ at' = 1
  /\ UNCHANGED <<time, read, passed>>

Next == Advance \/ Read \/ Again \/ Return

Spec == Init /\ [][Next]_vars

-----------------------------------------------------------------------------
(* Properties.                                                             *)

(* The components that are used belong to one moment: the time of the      *)
(* clock when the seconds were read for the last time.                     *)
TimeIsOneMoment ==
  at = 5 /\ passed = 0 =>
    \A r \in {"sec", "min", "hour"} : read[r] = cmos_read(r)
=============================================================================
