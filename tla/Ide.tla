--------------------------------- MODULE Ide ---------------------------------
(***************************************************************************)
(* devices/ide.c: one ATA channel.  Threads take the channel's lock, issue *)
(* a command, and sleep on completion_wait until the interrupt handler     *)
(* ups it.  The controller works on its own between these steps.           *)
(*                                                                         *)
(* A sector stands for a disk of the channel and a sector number on it.    *)
(* Commands do not fail, and the controller becomes idle before            *)
(* wait_until_idle() gives up.                                             *)
(***************************************************************************)
EXTENDS Naturals

CONSTANTS
  Thread, Sector, Data,
  NULL,       \* no thread, no command
  MaxPending  \* bound of the model on the value of completion_wait

Request ==
  [op : {"read"}, sec : Sector] \cup [op : {"write"}, sec : Sector, data : Data]

(* What the controller is doing once it has the data of a write.           *)
Storing == [op : {"store"}, sec : Sector, data : Data]

ASSUME IdeAssumption ==
  /\ NULL \notin Thread /\ NULL \notin Request \cup Storing
  /\ MaxPending \in Nat

VARIABLES
  pc,                  \* where each thread is
  request,             \* the arguments of its call, NULL outside of a call
  buffer,              \* what it last read
  holder,              \* of c->lock
  expecting_interrupt, \* c->expecting_interrupt
  completion_wait,     \* value of the semaphore c->completion_wait
  status,              \* controller: "idle", "busy" (BSY) or "drq" (DRQ)
  command,             \* controller: the command in progress, or NULL
  irq,                 \* the interrupt line is raised
  disk,                \* what the sectors hold
  spurious             \* the controller raises interrupts nobody asked for

callVars == <<pc, request, buffer>>
chanVars == <<holder, expecting_interrupt, completion_wait>>
devVars  == <<status, command, irq, disk>>
ctlVars  == <<devVars, spurious>>
vars     == <<callVars, chanVars, ctlVars>>

(***************************************************************************)
(* "out"      not in a call           "lock"     in lock_acquire()         *)
(* "issue"    has the lock            "wait"     in sema_down()            *)
(* "transfer" in wait_while_busy() before the sector is moved              *)
(* "release"  in lock_release()                                            *)
(***************************************************************************)
PC == {"out", "lock", "issue", "wait", "transfer", "release"}

(* ide_init() is over.                                                     *)
Init ==
  /\ pc = [t \in Thread |-> "out"]
  /\ request = [t \in Thread |-> NULL]
  /\ buffer \in [Thread -> Data]
  /\ holder = NULL
  /\ expecting_interrupt = FALSE
  /\ completion_wait = 0
  /\ status = "idle" /\ command = NULL /\ irq = FALSE
  /\ disk \in [Sector -> Data]
  /\ spurious \in BOOLEAN

Goto(t, l) == pc' = [pc EXCEPT ![t] = l]

-----------------------------------------------------------------------------
(* Threads: ide_read() and ide_write().                                    *)

Call(t) ==
  /\ pc[t] = "out"
  /\ \E r \in Request : request' = [request EXCEPT ![t] = r]
  /\ Goto(t, "lock")
  /\ UNCHANGED <<buffer, chanVars, ctlVars>>

LockAcquire(t) ==
  /\ pc[t] = "lock" /\ holder = NULL
  /\ holder' = t
  /\ Goto(t, "issue")
  /\ UNCHANGED <<request, buffer, expecting_interrupt, completion_wait, ctlVars>>

(* Mutant: the handler is not told to expect an interrupt.                 *)
Issue_unannounced(t) ==
  /\ pc[t] = "issue" /\ status = "idle"
  /\ status' = "busy" /\ command' = request[t] /\ irq' = FALSE
  /\ Goto(t, IF request[t].op = "read" THEN "wait" ELSE "transfer")
  /\ UNCHANGED <<request, buffer, holder, expecting_interrupt, completion_wait, disk, spurious>>

(* select_sector(), whose wait_until_idle() reads the status register and  *)
(* so clears the interrupt line, and issue_pio_command().                  *)
Issue(t) ==
  /\ pc[t] = "issue" /\ status = "idle"
  /\ expecting_interrupt' = TRUE
  /\ status' = "busy" /\ command' = request[t] /\ irq' = FALSE
  /\ Goto(t, IF request[t].op = "read" THEN "wait" ELSE "transfer")
  /\ UNCHANGED <<request, buffer, holder, completion_wait, disk, spurious>>

(* sema_down(&c->completion_wait).                                         *)
Complete(t) ==
  /\ pc[t] = "wait" /\ completion_wait > 0
  /\ completion_wait' = completion_wait - 1
  /\ Goto(t, IF request[t].op = "read" THEN "transfer" ELSE "release")
  /\ UNCHANGED <<request, buffer, holder, expecting_interrupt, ctlVars>>

(* Mutant: the sector is read without waiting for the controller.          *)
ReadSector_early(t) ==
  /\ pc[t] = "transfer" /\ request[t].op = "read"
  /\ \E d \in Data : buffer' = [buffer EXCEPT ![t] = d]
  /\ status' = "idle" /\ command' = NULL
  /\ Goto(t, "release")
  /\ UNCHANGED <<request, chanVars, irq, disk, spurious>>

(* wait_while_busy() and input_sector().                                   *)
ReadSector(t) ==
  /\ pc[t] = "transfer" /\ request[t].op = "read" /\ status = "drq"
  /\ buffer' = [buffer EXCEPT ![t] = disk[command.sec]]
  /\ status' = "idle" /\ command' = NULL
  /\ Goto(t, "release")
  /\ UNCHANGED <<request, chanVars, irq, disk, spurious>>

(* Mutant: the writer does not wait for the disk to acknowledge.           *)
WriteSector_unacknowledged(t) ==
  /\ pc[t] = "transfer" /\ request[t].op = "write" /\ status = "drq"
  /\ status' = "busy"
  /\ command' = [op |-> "store", sec |-> command.sec, data |-> request[t].data]
  /\ Goto(t, "release")
  /\ UNCHANGED <<request, buffer, chanVars, irq, disk, spurious>>

(* wait_while_busy() and output_sector().                                  *)
WriteSector(t) ==
  /\ pc[t] = "transfer" /\ request[t].op = "write" /\ status = "drq"
  /\ status' = "busy"
  /\ command' = [op |-> "store", sec |-> command.sec, data |-> request[t].data]
  /\ Goto(t, "wait")
  /\ UNCHANGED <<request, buffer, chanVars, irq, disk, spurious>>

LockRelease(t) ==
  /\ pc[t] = "release"
  /\ holder' = NULL
  /\ Goto(t, "out")
  /\ request' = [request EXCEPT ![t] = NULL]
  /\ UNCHANGED <<buffer, expecting_interrupt, completion_wait, ctlVars>>

-----------------------------------------------------------------------------
(* The interrupt handler and the controller.                               *)

(* Mutant: the handler does not acknowledge the interrupt.                 *)
InterruptHandlerKeepsLine ==
  /\ irq /\ expecting_interrupt
  /\ completion_wait' = completion_wait + 1
  /\ UNCHANGED <<callVars, holder, expecting_interrupt, ctlVars>>

InterruptHandler ==
  /\ irq
  /\ irq' = FALSE
  /\ IF expecting_interrupt
     THEN completion_wait < MaxPending /\ completion_wait' = completion_wait + 1
     ELSE UNCHANGED completion_wait
  /\ UNCHANGED <<callVars, holder, expecting_interrupt, status, command, disk,
                 spurious>>

(* A sector was read: its data is ready.  A write command wants its data.  *)
Ready ==
  /\ status = "busy" /\ command.op \in {"read", "write"}
  /\ status' = "drq"
  /\ irq' = (irq \/ command.op = "read")
  /\ UNCHANGED <<callVars, chanVars, command, disk, spurious>>

(* The data of a write command is on the disk.                             *)
Store ==
  /\ status = "busy" /\ command.op = "store"
  /\ disk' = [disk EXCEPT ![command.sec] = command.data]
  /\ status' = "idle" /\ command' = NULL
  /\ irq' = TRUE
  /\ UNCHANGED <<callVars, chanVars, spurious>>

SpuriousInterrupt ==
  /\ spurious /\ ~irq
  /\ irq' = TRUE
  /\ UNCHANGED <<callVars, chanVars, status, command, disk, spurious>>

Step(t) ==
  \/ Issue(t) \/ Complete(t) \/ ReadSector(t) \/ WriteSector(t) \/ LockRelease(t)

Next ==
  \/ \E t \in Thread :
       \/ Call(t) \/ LockAcquire(t)
       \/ Issue(t) \/ Complete(t) \/ ReadSector(t) \/ WriteSector(t) \/ LockRelease(t)
  \/ InterruptHandler \/ Ready \/ Store \/ SpuriousInterrupt

Spec == Init /\ [][Next]_vars

(* Threads run, the controller works and its interrupts are taken.         *)
FairSpec ==
  /\ Spec
  /\ \A t \in Thread : WF_vars(LockAcquire(t)) /\ WF_vars(Step(t))
  /\ WF_vars(InterruptHandler) /\ WF_vars(Ready) /\ WF_vars(Store)

-----------------------------------------------------------------------------
(* Properties.                                                             *)

TypeOK ==
  /\ pc \in [Thread -> PC]
  /\ request \in [Thread -> Request \cup {NULL}]
  /\ buffer \in [Thread -> Data]
  /\ holder \in Thread \cup {NULL}
  /\ expecting_interrupt \in BOOLEAN
  /\ completion_wait \in 0 .. MaxPending
  /\ status \in {"idle", "busy", "drq"}
  /\ command \in Request \cup Storing \cup {NULL}
  /\ irq \in BOOLEAN
  /\ disk \in [Sector -> Data]
  /\ spurious \in BOOLEAN

(* Each completion is for the thread that waits: when no command is in     *)
(* progress and nobody waits there is neither an interrupt nor an up left  *)
(* over for the next command.                                              *)
CompletionsMatch ==
  (\A t \in Thread : pc[t] # "wait") /\ command = NULL /\ ~spurious
    => ~irq /\ completion_wait = 0

(* A caller of ide_write() returns after the disk has acknowledged         *)
(* receiving the data (ide.c:360-361), unless the channel raises spurious  *)
(* interrupts: expecting_interrupt is never cleared, so that the handler   *)
(* wakes a waiter for those too.                                           *)
WriteAcknowledged ==
  \A t \in Thread : pc[t] = "release" /\ ~spurious => command = NULL

(* Each command has its own completion, and a write has reached the disk   *)
(* when its caller goes on.                                                *)
CommandsAreMatched == CompletionsMatch /\ WriteAcknowledged

(* Each call takes effect at one moment, as if the disk had no controller, *)
(* and every read returns what the last write stored: a write counts from  *)
(* the moment the controller has its data, whether or not its caller was   *)
(* woken too early.                                                        *)
Transferred ==
  IF command # NULL /\ command.op = "store"
  THEN [disk EXCEPT ![command.sec] = command.data] ELSE disk

Pending(t) ==
  IF \/ pc[t] = "release"
     \/ pc[t] = "wait" /\ request[t].op = "write"
  THEN NULL ELSE request[t]

Block == INSTANCE BlockDevice WITH
  content <- Transferred,
  request <- [t \in Thread |-> Pending(t)],
  active  <- {t \in Thread : pc[t] # "out"}

ImplementsBlockDevice == Block!Spec

(* A thread that has the channel gives it up: its command completes.       *)
CommandCompletes == \A t \in Thread : holder = t ~> holder # t
=============================================================================
