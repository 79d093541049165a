------------------------------ MODULE Interrupts -----------------------------
(***************************************************************************)
(* External interrupts, threads/interrupt.c: the common handler            *)
(* intr_handler() and its dialogue with the two interrupt controllers.     *)
(*                                                                         *)
(* The controllers are modelled from how pic_init() and                    *)
(* pic_end_of_interrupt() use them: a request is held back while one of    *)
(* the same or a higher priority is in service, an end of interrupt ends   *)
(* the one in service that has the highest priority, and a request that    *)
(* goes away too early is delivered as the last line, 7 or 15, without     *)
(* being in service.                                                       *)
(***************************************************************************)
EXTENDS Integers, FiniteSets, FiniteSetsExt

CONSTANTS
  Irq,  \* the interrupts that devices raise: 0..7 at the master, 8..15
  NONE  \* no interrupt

Timer == 0
Cascade == 2  \* the line of the master that the slave is connected to

VARIABLES
  requested,  \* interrupts raised and not delivered yet
  in_service, \* lines of the master and interrupts of the slave in service
  enabled,    \* whether the processor accepts interrupts
  vec_no,     \* the interrupt that intr_handler() was entered for, or NONE
  in_external_intr,
  yield_on_return

vars == <<requested, in_service, enabled, vec_no, in_external_intr,
          yield_on_return>>

Lines(irq) == IF irq >= 8 THEN {Cascade, irq} ELSE {irq}
Master == {l \in in_service : l < 8}
Slave == in_service \ Master

Init ==
  /\ requested = {}
  /\ in_service = {}
  /\ enabled = TRUE
  /\ vec_no = NONE
  /\ in_external_intr = FALSE
  /\ yield_on_return = FALSE

(* A device raises an interrupt.                                           *)
Raise(irq) ==
  /\ irq \notin requested
  /\ requested' = requested \cup {irq}
  /\ UNCHANGED <<in_service, enabled, vec_no, in_external_intr, yield_on_return>>

(* The controllers let irq through.                                        *)
Deliverable(irq) ==
  /\ \A l \in Master : Min(Lines(irq)) < l
  /\ irq >= 8 => \A s \in Slave : irq < s

(* The processor goes through the interrupt gate, intr_handler() begins.   *)
Enter(irq) ==
  /\ enabled
  /\ enabled' = FALSE
  /\ vec_no' = irq
  /\ in_external_intr' = TRUE
  /\ yield_on_return' = FALSE

Deliver(irq) ==
  /\ irq \in requested /\ Deliverable(irq)
  /\ requested' = requested \ {irq}
  /\ in_service' = in_service \cup Lines(irq)
  /\ Enter(irq)

Spurious(irq) ==
  /\ Deliverable(irq)
  /\ in_service' = in_service \cup (Lines(irq) \ {irq})
  /\ Enter(irq)
  /\ UNCHANGED requested

(* intr_yield_on_return(), called by the timer's handler.                  *)
intr_yield_on_return ==
  /\ in_external_intr /\ vec_no = Timer
  /\ yield_on_return' = TRUE
  /\ UNCHANGED <<requested, in_service, enabled, vec_no, in_external_intr>>

(* Mutant: the slave is not told.                                          *)
pic_end_of_interrupt_master(irq) ==
  in_service' = in_service \ {l \in Master : l = Min(Master)}

(* To the master, and to the slave if the interrupt is one of its own.     *)
pic_end_of_interrupt(irq) ==
  in_service' = in_service \ ({l \in Master : l = Min(Master)} \cup
                              {s \in Slave : irq >= 8 /\ s = Min(Slave)})

(* The end of intr_handler(), when the handler has returned.               *)
EndOfInterrupt ==
  /\ in_external_intr
  /\ in_external_intr' = FALSE
  /\ pic_end_of_interrupt(vec_no)
  /\ UNCHANGED <<requested, enabled, vec_no, yield_on_return>>

(* Back to the interrupted thread, or thread_yield() to another one: that  *)
(* one returns from the interrupt that made it yield.                      *)
Return ==
  /\ vec_no # NONE /\ ~in_external_intr
  /\ vec_no' = NONE
  /\ enabled' = TRUE
  /\ UNCHANGED <<requested, in_service, in_external_intr, yield_on_return>>

(* intr_disable() and intr_enable() in the running thread.                 *)
intr_set_level ==
  /\ vec_no = NONE
  /\ enabled' = ~enabled
  /\ UNCHANGED <<requested, in_service, vec_no, in_external_intr, yield_on_return>>

Next ==
  \/ \E irq \in Irq : Raise(irq) \/ Deliver(irq)
  \/ \E irq \in {7, 15} : Spurious(irq)
  \/ intr_yield_on_return \/ EndOfInterrupt \/ Return \/ intr_set_level

Spec == Init /\ [][Next]_vars

-----------------------------------------------------------------------------
(* Properties.                                                             *)

(* "If we don't acknowledge the IRQ, it will never be delivered to us      *)
(* again" (interrupt.c:262): whenever a thread runs, the one that was      *)
(* interrupted or another one after a yield, every interrupt of both       *)
(* controllers can be delivered, also after a spurious one, and no handler *)
(* is still under way.                                                     *)
EveryInterruptAcknowledged ==
  /\ in_external_intr => ~enabled /\ vec_no # NONE
  /\ ~in_external_intr => in_service = {}
=============================================================================
