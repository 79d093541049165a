------------------------------- MODULE IdeProof -------------------------------
(***************************************************************************)
(* Proofs about Ide for any threads, sectors and data, with and without    *)
(* spurious interrupts.  IInv is inductive; the theorems at the end follow *)
(* from it.                                                                *)
(***************************************************************************)
EXTENDS Ide, TLAPS

InChannel == {"issue", "wait", "transfer", "release"}

(* One thread is between lock_acquire() and lock_release(), the holder.    *)
HolderOK ==
  \A t \in Thread :
    /\ pc[t] \in InChannel <=> holder = t
    /\ pc[t] = "out" <=> request[t] = NULL

(* The controller works on the command of the thread that has the channel, *)
(* until it has the data of a write: that it may still store after its     *)
(* caller has been woken by a spurious interrupt and left.                 *)
CommandOK ==
  /\ status = "idle" <=> command = NULL
  /\ status = "drq" => command \in Request
  /\ \A t \in Thread :
       \/ pc[t] = "transfer"
       \/ pc[t] = "wait" /\ request[t].op = "read"
       => command = request[t]
  /\ command \in Request =>
       \E t \in Thread :
         \/ pc[t] = "transfer"
         \/ pc[t] = "wait" /\ request[t].op = "read"

(* What the thread in sema_down() waits for has happened.                  *)
Due ==
  \E t \in Thread :
    /\ pc[t] = "wait"
    /\ status = IF request[t].op = "read" THEN "drq" ELSE "idle"

(* Without spurious interrupts exactly one thing tells the waiting thread  *)
(* so: the interrupt line or a unit of completion_wait, and not too early. *)
SignalsOK ==
  ~spurious =>
    /\ Due <=> irq \/ completion_wait > 0
    /\ completion_wait <= IF irq THEN 0 ELSE 1
    /\ command \in Storing => \E t \in Thread : pc[t] = "wait"
    /\ \A t \in Thread :
         pc[t] = "transfer" /\ request[t].op = "read" => status = "drq"
    /\ \A t \in Thread : pc[t] \in {"wait", "transfer"} => expecting_interrupt

IInv == TypeOK /\ HolderOK /\ CommandOK /\ SignalsOK

USE IdeAssumption

-----------------------------------------------------------------------------
(* Threads.                                                                *)

LEMMA CallStep == \A t \in Thread : IInv /\ Call(t) => IInv'
<1> SUFFICES ASSUME NEW t \in Thread, IInv, Call(t) PROVE IInv'
  OBVIOUS
<1> USE DEF Call, Goto, chanVars, ctlVars, devVars
<1>1. TypeOK'
  BY DEF IInv, TypeOK, PC
<1>2. HolderOK'
  BY DEF IInv, TypeOK, HolderOK, InChannel
<1>3. CommandOK'
  BY DEF IInv, TypeOK, HolderOK, CommandOK, InChannel
<1>4. SignalsOK'
  BY DEF IInv, TypeOK, HolderOK, SignalsOK, Due, InChannel
<1> QED
  BY <1>1, <1>2, <1>3, <1>4 DEF IInv

LEMMA LockAcquireStep == \A t \in Thread : IInv /\ LockAcquire(t) => IInv'
<1> SUFFICES ASSUME NEW t \in Thread, IInv, LockAcquire(t) PROVE IInv'
  OBVIOUS
<1> USE DEF LockAcquire, Goto, ctlVars, devVars
<1>1. TypeOK'
  BY DEF IInv, TypeOK, PC
<1>2. HolderOK'
  BY DEF IInv, TypeOK, HolderOK, InChannel
<1>3. CommandOK'
  BY DEF IInv, TypeOK, HolderOK, CommandOK, InChannel
<1>4. SignalsOK'
  BY DEF IInv, TypeOK, HolderOK, SignalsOK, Due, InChannel
<1> QED
  BY <1>1, <1>2, <1>3, <1>4 DEF IInv

(* The controller is idle and owes nobody an interrupt.                    *)
LEMMA IssueStep == \A t \in Thread : IInv /\ Issue(t) => IInv'
<1> SUFFICES ASSUME NEW t \in Thread, IInv, Issue(t) PROVE IInv'
  OBVIOUS
<1> USE DEF Issue, Goto
<1>1. request[t] \in Request /\ holder = t
  BY DEF IInv, TypeOK, HolderOK, InChannel
<1>2. \A u \in Thread : u # t => pc[u] \notin InChannel
  BY DEF IInv, HolderOK, InChannel
<1>3. TypeOK'
  BY <1>1 DEF IInv, TypeOK, PC
<1>4. HolderOK'
  BY <1>1 DEF IInv, TypeOK, HolderOK, InChannel
<1>5. request[t].op \in {"read", "write"}
  BY <1>1 DEF Request
<1>6. CommandOK'
  BY <1>1, <1>2, <1>5 DEF IInv, TypeOK, HolderOK, CommandOK, InChannel
<1>7. SignalsOK'
  <2>1. request[t] \notin Storing
    BY <1>1 DEF Request, Storing
  <2> QED
    BY <1>1, <1>2, <1>5, <2>1 DEF IInv, TypeOK, SignalsOK, Due, InChannel
<1> QED
  BY <1>3, <1>4, <1>6, <1>7 DEF IInv

LEMMA CompleteStep == \A t \in Thread : IInv /\ Complete(t) => IInv'
<1> SUFFICES ASSUME NEW t \in Thread, IInv, Complete(t) PROVE IInv'
  OBVIOUS
<1> USE DEF Complete, Goto, ctlVars, devVars
<1>1. request[t] \in Request /\ holder = t
  BY DEF IInv, TypeOK, HolderOK, InChannel
<1>2. \A u \in Thread : u # t => pc[u] \notin InChannel
  BY DEF IInv, HolderOK, InChannel
<1>3. TypeOK'
  BY DEF IInv, TypeOK, PC
<1>4. HolderOK'
  BY <1>1 DEF IInv, TypeOK, HolderOK, InChannel
<1>5. CommandOK'
  BY <1>1, <1>2 DEF IInv, TypeOK, HolderOK, CommandOK, InChannel
<1>6. SignalsOK'
  <2>1. ~spurious => /\ Due /\ completion_wait = 1 /\ ~irq
                     /\ status = IF request[t].op = "read" THEN "drq" ELSE "idle"
    BY <1>2 DEF IInv, TypeOK, SignalsOK, Due, InChannel
  <2>2. status = "idle" => command \notin Storing
    BY DEF IInv, CommandOK
  <2>3. status = "drq" => command \notin Storing
    BY DEF IInv, CommandOK, Request, Storing
  <2> QED
    BY <1>1, <1>2, <2>1, <2>2, <2>3 DEF IInv, TypeOK, SignalsOK, Due, InChannel
<1> QED
  BY <1>3, <1>4, <1>5, <1>6 DEF IInv

LEMMA ReadSectorStep == \A t \in Thread : IInv /\ ReadSector(t) => IInv'
<1> SUFFICES ASSUME NEW t \in Thread, IInv, ReadSector(t) PROVE IInv'
  OBVIOUS
<1> USE DEF ReadSector, Goto, chanVars
<1>1. request[t] \in Request /\ holder = t /\ command = request[t]
  BY DEF IInv, TypeOK, HolderOK, CommandOK, InChannel
<1>2. \A u \in Thread : u # t => pc[u] \notin InChannel
  BY DEF IInv, HolderOK, InChannel
<1>3. disk[command.sec] \in Data
  BY <1>1 DEF IInv, TypeOK, Request
<1>4. TypeOK'
  BY <1>3 DEF IInv, TypeOK, PC
<1>5. HolderOK'
  BY <1>1 DEF IInv, TypeOK, HolderOK, InChannel
<1>6. CommandOK'
  BY <1>1, <1>2 DEF IInv, TypeOK, HolderOK, CommandOK, InChannel
<1>7. SignalsOK'
  BY <1>1, <1>2 DEF IInv, TypeOK, SignalsOK, Due, InChannel, Storing
<1> QED
  BY <1>4, <1>5, <1>6, <1>7 DEF IInv

LEMMA WriteSectorStep == \A t \in Thread : IInv /\ WriteSector(t) => IInv'
<1> SUFFICES ASSUME NEW t \in Thread, IInv, WriteSector(t) PROVE IInv'
  OBVIOUS
<1> USE DEF WriteSector, Goto, chanVars
<1>1. request[t] \in Request /\ holder = t /\ command = request[t]
  BY DEF IInv, TypeOK, HolderOK, CommandOK, InChannel
<1>2. \A u \in Thread : u # t => pc[u] \notin InChannel
  BY DEF IInv, HolderOK, InChannel
<1>3. command' \in Storing /\ command' # NULL /\ command' \notin Request
  BY <1>1 DEF Request, Storing
<1>4. TypeOK'
  BY <1>3 DEF IInv, TypeOK, PC
<1>5. HolderOK'
  BY <1>1 DEF IInv, TypeOK, HolderOK, InChannel
<1>6. CommandOK'
  BY <1>1, <1>2, <1>3 DEF IInv, TypeOK, HolderOK, CommandOK, InChannel
<1>7. SignalsOK'
  BY <1>1, <1>2, <1>3 DEF IInv, TypeOK, SignalsOK, Due, InChannel
<1> QED
  BY <1>4, <1>5, <1>6, <1>7 DEF IInv

LEMMA LockReleaseStep == \A t \in Thread : IInv /\ LockRelease(t) => IInv'
<1> SUFFICES ASSUME NEW t \in Thread, IInv, LockRelease(t) PROVE IInv'
  OBVIOUS
<1> USE DEF LockRelease, Goto, ctlVars, devVars
<1>1. TypeOK'
  BY DEF IInv, TypeOK, PC
<1>2. HolderOK'
  BY DEF IInv, TypeOK, HolderOK, InChannel
<1>3. CommandOK'
  BY DEF IInv, TypeOK, HolderOK, CommandOK, InChannel
<1>4. SignalsOK'
  BY DEF IInv, TypeOK, HolderOK, SignalsOK, Due, InChannel
<1> QED
  BY <1>1, <1>2, <1>3, <1>4 DEF IInv

-----------------------------------------------------------------------------
(* The interrupt handler and the controller.                               *)

LEMMA InterruptHandlerStep == IInv /\ InterruptHandler => IInv'
<1> SUFFICES ASSUME IInv, InterruptHandler PROVE IInv'
  OBVIOUS
<1> USE DEF InterruptHandler, callVars
<1>1. TypeOK'
  <2>1. completion_wait' \in 0 .. MaxPending
    BY DEF IInv, TypeOK
  <2>2. irq' \in BOOLEAN
    OBVIOUS
  <2> QED
    BY <2>1, <2>2 DEF IInv, TypeOK
<1>2. HolderOK' /\ CommandOK'
  BY DEF IInv, HolderOK, CommandOK
<1>3. ~spurious => Due /\ completion_wait = 0 /\ expecting_interrupt
  BY DEF IInv, TypeOK, SignalsOK, Due
<1>4. SignalsOK'
  BY <1>3 DEF IInv, TypeOK, SignalsOK, Due
<1> QED
  BY <1>1, <1>2, <1>4 DEF IInv

LEMMA ReadyStep == IInv /\ Ready => IInv'
<1> SUFFICES ASSUME IInv, Ready PROVE IInv'
  OBVIOUS
<1> USE DEF Ready, callVars, chanVars
<1>1. command \in Request /\ command \notin Storing
  BY DEF IInv, TypeOK, CommandOK, Storing
<1>2. PICK t \in Thread : /\ command = request[t] /\ holder = t
                          /\ \/ pc[t] = "transfer"
                             \/ pc[t] = "wait" /\ request[t].op = "read"
  BY <1>1 DEF IInv, HolderOK, CommandOK, InChannel
<1>3. \A u \in Thread : u # t => pc[u] \notin InChannel
  BY <1>2 DEF IInv, HolderOK, InChannel
<1>4. TypeOK' /\ HolderOK'
  BY DEF IInv, TypeOK, HolderOK
<1>5. CommandOK'
  BY <1>1 DEF IInv, TypeOK, CommandOK
<1>6. SignalsOK'
  BY <1>1, <1>2, <1>3 DEF IInv, TypeOK, SignalsOK, Due, InChannel
<1> QED
  BY <1>4, <1>5, <1>6 DEF IInv

LEMMA StoreStep == IInv /\ Store => IInv'
<1> SUFFICES ASSUME IInv, Store PROVE IInv'
  OBVIOUS
<1> USE DEF Store, callVars, chanVars
<1>1. command \in Storing /\ command \notin Request
  BY DEF IInv, TypeOK, CommandOK, Storing, Request
<1>2. command.sec \in Sector /\ command.data \in Data
  BY <1>1 DEF Storing
<1>3. TypeOK' /\ HolderOK'
  BY <1>2 DEF IInv, TypeOK, HolderOK
<1>4. CommandOK'
  BY <1>1 DEF IInv, TypeOK, HolderOK, CommandOK
<1>5. \A t \in Thread : ~ (pc[t] = "wait" /\ request[t].op = "read")
  BY <1>1 DEF IInv, TypeOK, CommandOK
<1>6. SignalsOK'
  BY <1>1, <1>5 DEF IInv, TypeOK, CommandOK, SignalsOK, Due
<1> QED
  BY <1>3, <1>4, <1>6 DEF IInv

LEMMA SpuriousStep == IInv /\ SpuriousInterrupt => IInv'
BY DEF SpuriousInterrupt, callVars, chanVars, IInv, TypeOK, HolderOK, CommandOK,
   SignalsOK

-----------------------------------------------------------------------------
(* The theorems.                                                           *)

LEMMA IInvInit == Init => IInv
<1> SUFFICES ASSUME Init PROVE IInv
  OBVIOUS
<1> USE DEF Init
<1>1. TypeOK
  <2>1. completion_wait \in 0 .. MaxPending
    OBVIOUS
  <2>2. expecting_interrupt \in BOOLEAN /\ irq \in BOOLEAN
    OBVIOUS
  <2> QED
    BY <2>1, <2>2 DEF TypeOK, PC
<1>2. HolderOK /\ CommandOK /\ SignalsOK
  BY DEF HolderOK, CommandOK, SignalsOK, Due, InChannel
<1> QED
  BY <1>1, <1>2 DEF IInv

LEMMA IInvNext == IInv /\ [Next]_vars => IInv'
<1> SUFFICES ASSUME IInv, [Next]_vars PROVE IInv'
  OBVIOUS
<1>1. ASSUME NEW t \in Thread, Call(t) \/ LockAcquire(t) \/ Issue(t) \/ Complete(t)
      PROVE  IInv'
  BY <1>1, CallStep, LockAcquireStep, IssueStep, CompleteStep
<1>2. ASSUME NEW t \in Thread, ReadSector(t) \/ WriteSector(t) \/ LockRelease(t)
      PROVE  IInv'
  BY <1>2, ReadSectorStep, WriteSectorStep, LockReleaseStep
<1>3. CASE InterruptHandler \/ Ready \/ Store \/ SpuriousInterrupt
  BY <1>3, InterruptHandlerStep, ReadyStep, StoreStep, SpuriousStep
<1>4. CASE UNCHANGED vars
  BY <1>4 DEF vars, callVars, chanVars, ctlVars, devVars, IInv, TypeOK, HolderOK,
     CommandOK, SignalsOK, Due
<1> QED
  BY <1>1, <1>2, <1>3, <1>4 DEF Next

(* IInv is an invariant of the driver and its controller.                  *)
THEOREM Invariance == Spec => []IInv
BY IInvInit, IInvNext, PTL DEF Spec

(* Without spurious interrupts no interrupt and no unit of completion_wait *)
(* is left over for the next command, and the caller of ide_write() goes on*)
(* only after the data is on the disk (ide.c:360).                         *)
THEOREM CompletionsAreMatched == Spec => []CommandsAreMatched
<1>1. ASSUME IInv PROVE CommandsAreMatched
  <2>1. CompletionsMatch
    BY <1>1 DEF IInv, TypeOK, SignalsOK, Due, CompletionsMatch
  <2>2. ASSUME NEW t \in Thread, pc[t] = "release", ~spurious
        PROVE  command = NULL
    <3>1. \A u \in Thread : pc[u] \notin {"wait", "transfer"}
      BY <1>1, <2>2 DEF IInv, HolderOK, InChannel
    <3>2. command \notin Storing /\ command \notin Request
      BY <1>1, <2>2, <3>1 DEF IInv, CommandOK, SignalsOK
    <3> QED
      BY <1>1, <3>2 DEF IInv, TypeOK
  <2> QED
    BY <2>1, <2>2 DEF CommandsAreMatched, WriteAcknowledged
<1> QED
  BY <1>1, Invariance, PTL

-----------------------------------------------------------------------------
(* The driver implements BlockDevice.                                      *)

LEMMA InitRefines == Init => Block!Init
<1> SUFFICES ASSUME Init PROVE Block!Init
  OBVIOUS
<1>1. Transferred = disk /\ \A t \in Thread : Pending(t) = NULL
  BY DEF Init, Transferred, Pending
<1> QED
  BY <1>1 DEF Init, Block!Init

(* What BlockDevice sees of the calls and of the disk.                     *)
Requested == [t \in Thread |-> Pending(t)]
Active    == {t \in Thread : pc[t] # "out"}

LEMMA BlockIsUnchanged ==
  ASSUME UNCHANGED <<Transferred, Requested, Active, buffer>>
  PROVE  [Block!Next]_(Block!vars)
BY DEF Block!vars, Requested, Active

(* A read takes effect in input_sector(), a write in output_sector(); of   *)
(* the other steps only the beginning and the end of a call can be seen.   *)
LEMMA CallRefines ==
  \A t \in Thread : IInv /\ Call(t) => [Block!Next]_(Block!vars)
<1> SUFFICES ASSUME NEW t \in Thread, IInv, Call(t) PROVE Block!Begin(t)
  BY DEF Block!Next
<1> USE DEF Call, Goto, chanVars, ctlVars, devVars
<1>1. PICK r \in Request : request' = [request EXCEPT ![t] = r]
  OBVIOUS
<1>2. Transferred' = Transferred
  BY DEF Transferred
<1>3. Requested' = [Requested EXCEPT ![t] = r]
  BY <1>1 DEF Requested, Pending, IInv, TypeOK
<1>4. t \notin Active /\ Active' = Active \cup {t}
  BY DEF Active, IInv, TypeOK
<1>5. r \in Block!Request
  BY DEF Request, Block!Request
<1> QED
  BY <1>2, <1>3, <1>4, <1>5 DEF Block!Begin, Requested, Active

LEMMA ReadSectorRefines ==
  \A t \in Thread : IInv /\ ReadSector(t) => [Block!Next]_(Block!vars)
<1> SUFFICES ASSUME NEW t \in Thread, IInv, ReadSector(t) PROVE Block!Serve(t)
  BY DEF Block!Next
<1> USE DEF ReadSector, Goto, chanVars
<1>1. request[t] \in Request /\ command = request[t]
  BY DEF IInv, TypeOK, HolderOK, CommandOK
<1>2. Transferred = disk /\ Transferred' = disk
  BY <1>1 DEF Transferred
<1>3. Requested[t] = request[t] /\ request[t] # NULL
  BY <1>1 DEF Requested, Pending
<1>4. Requested' = [Requested EXCEPT ![t] = NULL]
  BY DEF Requested, Pending, IInv, TypeOK
<1>5. Active' = Active
  BY DEF Active, IInv, TypeOK
<1> QED
  BY <1>1, <1>2, <1>3, <1>4, <1>5 DEF Block!Serve, Requested, Active

LEMMA WriteSectorRefines ==
  \A t \in Thread : IInv /\ WriteSector(t) => [Block!Next]_(Block!vars)
<1> SUFFICES ASSUME NEW t \in Thread, IInv, WriteSector(t) PROVE Block!Serve(t)
  BY DEF Block!Next
<1> USE DEF WriteSector, Goto, chanVars
<1>1. request[t] \in Request /\ command = request[t]
  BY DEF IInv, TypeOK, HolderOK, CommandOK
<1>2. /\ Transferred = disk
      /\ Transferred' = [disk EXCEPT ![request[t].sec] = request[t].data]
  <2>1. command' \in Storing
    BY <1>1 DEF Request, Storing
  <2> QED
    BY <1>1, <2>1 DEF Transferred
<1>3. Requested[t] = request[t] /\ request[t] # NULL /\ request[t].op # "read"
  BY <1>1 DEF Requested, Pending
<1>4. Requested' = [Requested EXCEPT ![t] = NULL]
  BY DEF Requested, Pending, IInv, TypeOK
<1>5. Active' = Active
  BY DEF Active, IInv, TypeOK
<1> QED
  BY <1>1, <1>2, <1>3, <1>4, <1>5 DEF Block!Serve, Requested, Active

LEMMA LockReleaseRefines ==
  \A t \in Thread : IInv /\ LockRelease(t) => [Block!Next]_(Block!vars)
<1> SUFFICES ASSUME NEW t \in Thread, IInv, LockRelease(t) PROVE Block!End(t)
  BY DEF Block!Next
<1> USE DEF LockRelease, Goto, ctlVars, devVars
<1>1. Transferred' = Transferred
  BY DEF Transferred
<1>2. Requested[t] = NULL /\ Requested' = Requested
  BY DEF Requested, Pending, IInv, TypeOK
<1>3. t \in Active /\ Active' = Active \ {t}
  BY DEF Active, IInv, TypeOK
<1> QED
  BY <1>1, <1>2, <1>3 DEF Block!End, Requested, Active

LEMMA QuietRefines ==
  ASSUME IInv, NEW t \in Thread, LockAcquire(t) \/ Issue(t) \/ Complete(t)
  PROVE  [Block!Next]_(Block!vars)
<1>1. pc[t] = "issue" => request[t] \in Request
  BY DEF IInv, TypeOK, HolderOK
<1>2. request[t] \in Request => request[t].op \in {"read", "write"}
  BY DEF Request
<1>3. Transferred' = Transferred
  BY <1>1, <1>2 DEF LockAcquire, Issue, Complete, Transferred, IInv, CommandOK,
     ctlVars, devVars
<1>4. Requested' = Requested /\ Active' = Active /\ buffer' = buffer
  BY <1>1, <1>2 DEF LockAcquire, Issue, Complete, Goto, Requested, Pending, Active,
     IInv, TypeOK
<1> QED
  BY <1>3, <1>4, BlockIsUnchanged

(* The disk may store a write long after it took effect for BlockDevice.   *)
LEMMA DeviceRefines ==
  ASSUME IInv, InterruptHandler \/ Ready \/ Store \/ SpuriousInterrupt
  PROVE  [Block!Next]_(Block!vars)
<1> USE DEF InterruptHandler, Ready, Store, SpuriousInterrupt, callVars, chanVars
<1>1. Transferred' = Transferred
  BY DEF Transferred, IInv, TypeOK, CommandOK
<1>2. Requested' = Requested /\ Active' = Active /\ buffer' = buffer
  BY DEF Requested, Pending, Active
<1> QED
  BY <1>1, <1>2, BlockIsUnchanged

LEMMA StepRefines == IInv /\ [Next]_vars => [Block!Next]_(Block!vars)
<1> SUFFICES ASSUME IInv, [Next]_vars PROVE [Block!Next]_(Block!vars)
  OBVIOUS
<1>1. ASSUME NEW t \in Thread,
             Call(t) \/ ReadSector(t) \/ WriteSector(t) \/ LockRelease(t)
      PROVE  [Block!Next]_(Block!vars)
  BY <1>1, CallRefines, ReadSectorRefines, WriteSectorRefines, LockReleaseRefines
<1>2. ASSUME NEW t \in Thread, LockAcquire(t) \/ Issue(t) \/ Complete(t)
      PROVE  [Block!Next]_(Block!vars)
  BY <1>2, QuietRefines
<1>3. CASE InterruptHandler \/ Ready \/ Store \/ SpuriousInterrupt
  BY <1>3, DeviceRefines
<1>4. CASE UNCHANGED vars
  BY <1>4, BlockIsUnchanged DEF vars, callVars, chanVars, ctlVars, devVars,
     Transferred, Requested, Pending, Active
<1> QED
  BY <1>1, <1>2, <1>3, <1>4 DEF Next

(* The driver is the disk that the block layer counts on: each call of     *)
(* ide_read() or ide_write() takes effect at one moment, with any number   *)
(* of callers, and even when a spurious interrupt wakes a caller too early *)
(* (ide.c:337-366).                                                        *)
THEOREM DriverIsBlockDevice == Spec => ImplementsBlockDevice
BY InitRefines, StepRefines, Invariance, PTL
DEF Spec, ImplementsBlockDevice, Block!Spec
=============================================================================
