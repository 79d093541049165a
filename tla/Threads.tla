------------------------------- MODULE Threads -------------------------------
(***************************************************************************)
(* The Pintos kernel-thread core: the round-robin scheduler of             *)
(* threads/thread.c, the semaphores and locks of threads/synch.c, and the  *)
(* part of userprog/process.c by which a parent reaps a child.             *)
(*                                                                         *)
(* The machine has one processor.  A stretch of code that runs with        *)
(* interrupts off is one action; between two actions the running thread    *)
(* has interrupts on and the timer may preempt it, unless its pc is one of *)
(* InterruptsOff.  A thread that sleeps in sema_down() resumes there with  *)
(* interrupts still off and rechecks the value before it goes on.          *)
(*                                                                         *)
(* What threads compute is abstracted: a thread at pc "run" may make any   *)
(* legal call.  A thread is identified by the page its struct thread lives *)
(* in, so that freeing and reusing the page is visible; t->exit_program is *)
(* the semaphore named by the thread t itself.                             *)
(***************************************************************************)
EXTENDS Integers, Sequences, FiniteSets, Functions, TLC

CONSTANTS
  Thread,      \* pages that can hold a struct thread
  Main,        \* initial_thread
  Idle,        \* idle_thread
  Semaphore,   \* counting semaphores, initially 0
  Lock,        \* locks; each is named like the semaphore it contains
  NULL,        \* the null pointer
  TIME_SLICE,  \* timer ticks given to a thread
  MaxValue     \* bound of the model on the value of a counting semaphore

Sema == Semaphore \cup Lock \cup Thread

ASSUME ThreadsAssumption ==
  /\ IsFiniteSet(Thread)
  /\ Main \in Thread /\ Idle \in Thread /\ Main # Idle
  /\ NULL \notin Sema
  /\ Semaphore \cap Lock = {}
  /\ Semaphore \cap Thread = {}
  /\ Lock \cap Thread = {}
  /\ TIME_SLICE \in Nat \ {0}
  /\ MaxValue \in Nat \ {0}

(* The pages of created threads are interchangeable.                       *)
Pages == Permutations(Thread \ {Main, Idle})

VARIABLES
  status,       \* t->status, "NONE" for a free page
  current,      \* running_thread()
  ready_list,   \* the run queue
  thread_ticks, \* timer ticks since the last switch
  value,        \* sema->value
  waiters,      \* sema->waiters
  holder,       \* lock->holder
  child_list,   \* t->child_list
  pc,           \* where a thread is or resumes
  arg           \* the semaphore, lock or child of the call in progress

schedVars == <<status, current, ready_list, thread_ticks>>
syncVars  == <<value, waiters, holder>>
vars      == <<schedVars, syncVars, child_list, pc, arg>>

Status == {"NONE", "RUNNING", "READY", "BLOCKED", "DYING"}

(***************************************************************************)
(* "start"      has not run yet: switch_entry() enters kernel_thread()     *)
(* "run"        between calls, interrupts on                               *)
(* "sema_down"  asleep in sema_down(arg), or just switched to from there   *)
(* "set_holder" in lock_acquire(arg), semaphore downed, holder not yet set *)
(* "release"    in lock_release(arg), holder cleared, semaphore not upped  *)
(* "create"     in thread_create(), init_thread(arg) done, not unblocked   *)
(* "reap"       in process_wait(), back from sema_down(&arg->exit_program) *)
(* "idle"       the loop of idle()                                         *)
(* "gone"       past thread_exit(), or no thread at all                    *)
(***************************************************************************)
PC == {"start", "run", "sema_down", "set_holder", "release", "create",
       "reap", "idle", "gone"}

InterruptsOff == pc[current] \in {"start", "sema_down"}

(* thread_start() has returned in Main: the idle thread has run once and   *)
(* blocked itself, and only Main exists beside it.                         *)
Init ==
  /\ status = [t \in Thread |-> IF t = Main THEN "RUNNING"
                                ELSE IF t = Idle THEN "BLOCKED" ELSE "NONE"]
  /\ current = Main
  /\ ready_list = <<>>
  /\ thread_ticks = 0
  /\ value = [s \in Sema |-> IF s \in Lock THEN 1 ELSE 0]
  /\ waiters = [s \in Sema |-> <<>>]
  /\ holder = [l \in Lock |-> NULL]
  /\ child_list = [t \in Thread |-> IF t = Main THEN {Idle} ELSE {}]
  /\ pc = [t \in Thread |-> IF t = Main THEN "run"
                            ELSE IF t = Idle THEN "idle" ELSE "gone"]
  /\ arg = [t \in Thread |-> NULL]

-----------------------------------------------------------------------------
(* Scheduling.                                                             *)

next_thread_to_run(queue) == IF queue = <<>> THEN Idle ELSE Head(queue)

(* schedule() and thread_schedule_tail(): st and queue are what the caller *)
(* left in status and ready_list.                                          *)
schedule(st, queue) ==
  /\ current' = next_thread_to_run(queue)
  /\ status' = [st EXCEPT ![next_thread_to_run(queue)] = "RUNNING"]
  /\ ready_list' = IF queue = <<>> THEN queue ELSE Tail(queue)
  /\ thread_ticks' = 0

(* Mutant: the idle thread is queued like any other.                       *)
thread_yield_queues_idle ==
  schedule([status EXCEPT ![current] = "READY"], Append(ready_list, current))

(* thread_yield() with the idle thread kept off the run queue.             *)
thread_yield ==
  schedule([status EXCEPT ![current] = "READY"],
           IF current = Idle THEN ready_list ELSE Append(ready_list, current))

(* The running thread yields voluntarily.                                  *)
Yield ==
  /\ pc[current] = "run"
  /\ thread_yield
  /\ UNCHANGED <<syncVars, child_list, pc, arg>>

(* Mutant: the end of the time slice does not preempt.                     *)
TimerTickCountsOnly ==
  /\ ~InterruptsOff
  /\ thread_ticks' = thread_ticks + 1
  /\ thread_ticks < 2 * TIME_SLICE
  /\ UNCHANGED <<status, current, ready_list, syncVars, child_list, pc, arg>>

(* timer_interrupt() -> thread_tick(); at the end of the time slice        *)
(* intr_handler() yields on return.                                        *)
TimerTick ==
  /\ ~InterruptsOff
  /\ IF thread_ticks + 1 >= TIME_SLICE
     THEN thread_yield
     ELSE /\ thread_ticks' = thread_ticks + 1
          /\ UNCHANGED <<status, current, ready_list>>
  /\ UNCHANGED <<syncVars, child_list, pc, arg>>

(* An interrupt has woken the idle thread from hlt: it blocks itself.      *)
IdleBlock ==
  /\ pc[current] = "idle"
  /\ schedule([status EXCEPT ![current] = "BLOCKED"], ready_list)
  /\ UNCHANGED <<syncVars, child_list, pc, arg>>

-----------------------------------------------------------------------------
(* Semaphores.                                                             *)

(* Where the caller of sema_down(s) continues.                             *)
AfterDown(s) ==
  CASE s \in Lock   -> "set_holder"
    [] s \in Thread -> "reap"
    [] OTHER        -> "run"

(* One turn of the loop of sema_down(s), run by the current thread with    *)
(* interrupts off.                                                         *)
sema_down(s) ==
  /\ IF value[s] = 0
     THEN /\ waiters' = [waiters EXCEPT ![s] = Append(@, current)]
          /\ pc' = [pc EXCEPT ![current] = "sema_down"]
          /\ schedule([status EXCEPT ![current] = "BLOCKED"], ready_list)
          /\ UNCHANGED value
     ELSE /\ value' = [value EXCEPT ![s] = @ - 1]
          /\ pc' = [pc EXCEPT ![current] = AfterDown(s)]
          /\ UNCHANGED <<waiters, schedVars>>
  /\ arg' = [arg EXCEPT ![current] = s]
  /\ UNCHANGED <<holder, child_list>>

(* sema_up(s) moves the longest waiter from the waiters to the run queue.  *)
(* Woken(s) are the status and run queue it leaves to st.                  *)
Woken(s, st) ==
  IF waiters[s] = <<>>
  THEN [status |-> st, ready_list |-> ready_list]
  ELSE [status |-> [st EXCEPT ![Head(waiters[s])] = "READY"],
        ready_list |-> Append(ready_list, Head(waiters[s]))]

sema_up(s) ==
  /\ waiters' = [waiters EXCEPT ![s] = IF @ = <<>> THEN @ ELSE Tail(@)]
  /\ value' = [value EXCEPT ![s] = @ + 1]

SemaDown(s) ==
  /\ s \in Semaphore
  /\ pc[current] = "run"
  /\ sema_down(s)

(* Mutant: sema_down() tests the value with if instead of while.           *)
ResumeWithoutRecheck ==
  /\ pc[current] = "sema_down"
  /\ value' = [value EXCEPT ![arg[current]] = @ - 1]
  /\ pc' = [pc EXCEPT ![current] = AfterDown(arg[current])]
  /\ UNCHANGED <<schedVars, waiters, holder, child_list, arg>>

(* The running thread is back in sema_down() and rechecks the value.       *)
Resume ==
  /\ pc[current] = "sema_down"
  /\ sema_down(arg[current])

SemaTryDown(s) ==
  /\ s \in Semaphore
  /\ pc[current] = "run"
  /\ value[s] > 0
  /\ value' = [value EXCEPT ![s] = @ - 1]
  /\ UNCHANGED <<schedVars, waiters, holder, child_list, pc, arg>>

(* Mutant: nobody is woken when the value was already positive.            *)
SemaUpWakesAtZero(s) ==
  /\ s \in Semaphore
  /\ ~InterruptsOff
  /\ value[s] < MaxValue
  /\ IF value[s] = 0
     THEN /\ sema_up(s)
          /\ status' = Woken(s, status).status
          /\ ready_list' = Woken(s, status).ready_list
     ELSE /\ value' = [value EXCEPT ![s] = @ + 1]
          /\ UNCHANGED <<waiters, status, ready_list>>
  /\ UNCHANGED <<current, thread_ticks, holder, child_list, pc, arg>>

(* sema_up() by the running thread or by an interrupt handler that         *)
(* interrupts it.                                                          *)
SemaUp(s) ==
  /\ s \in Semaphore
  /\ ~InterruptsOff
  /\ value[s] < MaxValue
  /\ sema_up(s)
  /\ status' = Woken(s, status).status
  /\ ready_list' = Woken(s, status).ready_list
  /\ UNCHANGED <<current, thread_ticks, holder, child_list, pc, arg>>

-----------------------------------------------------------------------------
(* Locks.  The assertions of lock_acquire() and lock_release() on the      *)
(* holder are obligations of the caller, hence guards.                     *)

LockAcquire(l) ==
  /\ l \in Lock
  /\ pc[current] = "run"
  /\ holder[l] # current
  /\ sema_down(l)

(* Mutant: lock_try_acquire() ignores that sema_try_down() failed.         *)
LockTryAcquireUnchecked(l) ==
  /\ l \in Lock
  /\ pc[current] = "run"
  /\ holder[l] # current
  /\ value' = [value EXCEPT ![l] = IF @ > 0 THEN @ - 1 ELSE @]
  /\ pc' = [pc EXCEPT ![current] = "set_holder"]
  /\ arg' = [arg EXCEPT ![current] = l]
  /\ UNCHANGED <<schedVars, waiters, holder, child_list>>

LockTryAcquire(l) ==
  /\ l \in Lock
  /\ pc[current] = "run"
  /\ holder[l] # current
  /\ value[l] > 0
  /\ value' = [value EXCEPT ![l] = @ - 1]
  /\ pc' = [pc EXCEPT ![current] = "set_holder"]
  /\ arg' = [arg EXCEPT ![current] = l]
  /\ UNCHANGED <<schedVars, waiters, holder, child_list>>

(* The assignment that follows sema_down() in lock_acquire().              *)
SetHolder ==
  /\ pc[current] = "set_holder"
  /\ holder' = [holder EXCEPT ![arg[current]] = current]
  /\ pc' = [pc EXCEPT ![current] = "run"]
  /\ UNCHANGED <<schedVars, value, waiters, child_list, arg>>

LockRelease(l) ==
  /\ l \in Lock
  /\ pc[current] = "run"
  /\ holder[l] = current
  /\ holder' = [holder EXCEPT ![l] = NULL]
  /\ pc' = [pc EXCEPT ![current] = "release"]
  /\ arg' = [arg EXCEPT ![current] = l]
  /\ UNCHANGED <<schedVars, value, waiters, child_list>>

(* The sema_up() that ends lock_release().                                 *)
LockReleaseUp ==
  /\ pc[current] = "release"
  /\ sema_up(arg[current])
  /\ status' = Woken(arg[current], status).status
  /\ ready_list' = Woken(arg[current], status).ready_list
  /\ pc' = [pc EXCEPT ![current] = "run"]
  /\ UNCHANGED <<current, thread_ticks, holder, child_list, arg>>

-----------------------------------------------------------------------------
(* Thread life cycle.                                                      *)

(* thread_create() up to the end of init_thread(c): a page is allocated    *)
(* and holds a blocked thread with its semaphore and child list empty.     *)
ThreadCreate(c) ==
  /\ pc[current] = "run"
  /\ status[c] = "NONE"
  /\ status' = [status EXCEPT ![c] = "BLOCKED"]
  /\ value' = [value EXCEPT ![c] = 0]
  /\ waiters' = [waiters EXCEPT ![c] = <<>>]
  /\ child_list' = [child_list EXCEPT ![c] = {}]
  /\ pc' = [pc EXCEPT ![current] = "create", ![c] = "start"]
  /\ arg' = [arg EXCEPT ![current] = c]
  /\ UNCHANGED <<current, ready_list, thread_ticks, holder>>

(* The rest of thread_create(): enter the child list, thread_unblock().    *)
ThreadCreateUnblock ==
  /\ pc[current] = "create"
  /\ child_list' = [child_list EXCEPT ![current] = @ \cup {arg[current]}]
  /\ status' = [status EXCEPT ![arg[current]] = "READY"]
  /\ ready_list' = Append(ready_list, arg[current])
  /\ pc' = [pc EXCEPT ![current] = "run"]
  /\ UNCHANGED <<current, thread_ticks, syncVars, arg>>

(* kernel_thread() turns interrupts on and calls the thread function.      *)
KernelThread ==
  /\ pc[current] = "start"
  /\ pc' = [pc EXCEPT ![current] = "run"]
  /\ UNCHANGED <<schedVars, syncVars, child_list, arg>>

(* Mutant: exit_program is upped before the thread is marked as dying and  *)
(* gives up the processor.                                                 *)
ThreadExitUpsFirst ==
  /\ pc[current] = "run"
  /\ \A l \in Lock : holder[l] # current
  /\ IF value[current] = 0
     THEN /\ sema_up(current)
          /\ status' = Woken(current, status).status
          /\ ready_list' = Woken(current, status).ready_list
          /\ UNCHANGED <<current, thread_ticks, pc>>
     ELSE /\ schedule([status EXCEPT ![current] = "DYING"], ready_list)
          /\ pc' = [pc EXCEPT ![current] = "gone"]
          /\ UNCHANGED <<value, waiters>>
  /\ UNCHANGED <<holder, child_list, arg>>

(* Mutant: a thread ends without upping its exit_program.                  *)
ThreadExitSilently ==
  /\ pc[current] = "run"
  /\ \A l \in Lock : holder[l] # current
  /\ schedule([status EXCEPT ![current] = "DYING"], ready_list)
  /\ pc' = [pc EXCEPT ![current] = "gone"]
  /\ UNCHANGED <<syncVars, child_list, arg>>

(* thread_exit() from intr_disable() on.  A thread ends holding no lock.   *)
ThreadExit ==
  /\ pc[current] = "run"
  /\ \A l \in Lock : holder[l] # current
  /\ sema_up(current)
  /\ LET woken == Woken(current, [status EXCEPT ![current] = "DYING"])
     IN  schedule(woken.status, woken.ready_list)
  /\ pc' = [pc EXCEPT ![current] = "gone"]
  /\ UNCHANGED <<holder, child_list, arg>>

(* process_wait(): get_child_process(), then sema_down(exit_program).      *)
(* Main never waits for the idle thread: run_task() waits for the tid that *)
(* process_execute() returned.                                             *)
ProcessWait(c) ==
  /\ pc[current] = "run"
  /\ c \in child_list[current] \ {Idle}
  /\ sema_down(c)

(* The rest of process_wait(): remove_child_process() unlinks the child    *)
(* and frees its page.                                                     *)
Reap ==
  /\ pc[current] = "reap"
  /\ child_list' = [child_list EXCEPT ![current] = @ \ {arg[current]}]
  /\ status' = [status EXCEPT ![arg[current]] = "NONE"]
  /\ pc' = [pc EXCEPT ![current] = "run"]
  /\ UNCHANGED <<current, ready_list, thread_ticks, syncVars, arg>>

-----------------------------------------------------------------------------
Next ==
  \/ Yield \/ TimerTick \/ IdleBlock
  \/ \E s \in Semaphore : SemaDown(s) \/ SemaTryDown(s) \/ SemaUp(s)
  \/ Resume
  \/ \E l \in Lock : LockAcquire(l) \/ LockTryAcquire(l) \/ LockRelease(l)
  \/ SetHolder \/ LockReleaseUp
  \/ \E c \in Thread : ThreadCreate(c) \/ ProcessWait(c)
  \/ ThreadCreateUnblock \/ KernelThread \/ ThreadExit \/ Reap

(* What the running thread does next when it is inside a kernel function.  *)
Completion ==
  \/ Resume \/ KernelThread \/ SetHolder \/ LockReleaseUp
  \/ ThreadCreateUnblock \/ Reap \/ IdleBlock

(* The processor executes the code of the running thread, which needs far  *)
(* less than a tick: a thread that runs again and again inside a kernel    *)
(* function gets past it, however often ticks preempt it.  The timer never *)
(* stops, and a pending tick is taken as soon as interrupts are on, even   *)
(* if they are turned off again and again.  Hence strong fairness of both. *)
Fairness ==
  /\ \A t \in Thread : SF_vars(current = t /\ Completion)
  /\ SF_vars(TimerTick)

Spec == Init /\ [][Next]_vars

FairSpec == Spec /\ Fairness

-----------------------------------------------------------------------------
(* Properties.                                                             *)

(* Type correctness of the scheduler and synchronization state.            *)
TypeOK ==
  /\ status \in [Thread -> Status]
  /\ current \in Thread
  /\ ready_list \in Seq(Thread)
  /\ thread_ticks \in 0 .. TIME_SLICE - 1
  /\ value \in [Sema -> Nat]
  /\ waiters \in [Sema -> Seq(Thread)]
  /\ holder \in [Lock -> Thread \cup {NULL}]
  /\ child_list \in [Thread -> SUBSET Thread]
  /\ pc \in [Thread -> PC]
  /\ arg \in [Thread -> Sema \cup {NULL}]

(* List q holds each member of S once and nothing else.                    *)
Lists(q, S) == IsInjective(q) /\ Range(q) = S

Ready == {t \in Thread \ {Idle} : status[t] = "READY"}
Sleepers(s) == {t \in Thread :
                  pc[t] = "sema_down" /\ arg[t] = s /\ status[t] = "BLOCKED"}

(* thread.h:83-88: t->elem links a thread into the run queue or into one   *)
(* semaphore's waiters, never two lists and never the same list twice.     *)
(* The run queue holds exactly the ready threads (the idle thread apart),  *)
(* the waiters of a semaphore exactly the threads blocked in sema_down()   *)
(* on it: a thread cannot be lost by the queues nor scheduled twice, and   *)
(* the assertion of thread_unblock() never fails.                          *)
QueuesExact ==
  /\ Lists(ready_list, Ready)
  /\ \A s \in Sema : Lists(waiters[s], Sleepers(s))

(* Exactly one thread is RUNNING, the one whose stack the processor uses.  *)
OneRunning == \A t \in Thread : status[t] = "RUNNING" <=> t = current

(* The threads between the sema_down() and the sema_up() of lock l.        *)
Owns(t, l) ==
  \/ holder[l] = t
  \/ pc[t] \in {"set_holder", "release"} /\ arg[t] = l

(* "A lock can be held by at most a single thread at any given time"       *)
(* (synch.c:160), even though holder is assigned outside the atomic part   *)
(* of lock_acquire() and cleared before that of lock_release().  And a     *)
(* lock is never lost: its semaphore is 0 only while somebody owns it.     *)
MutualExclusion ==
  \A l \in Lock :
    /\ \A t, u \in Thread : Owns(t, l) /\ Owns(u, l) => t = u
    /\ value[l] = IF \E t \in Thread : Owns(t, l) THEN 0 ELSE 1

(* No wakeup is lost: while threads sleep on a semaphore, every unit of    *)
(* its value belongs to a thread that sema_up() has already woken and that *)
(* has yet to recheck it.  (Woken threads may still lose the unit to a     *)
(* thread that comes first: they then sleep again.)                        *)
InTransit(s) == {t \in Thread : /\ pc[t] = "sema_down" /\ arg[t] = s
                                /\ status[t] \in {"READY", "RUNNING"}}

NoLostWakeup ==
  \A s \in Sema : waiters[s] # <<>> => value[s] <= Cardinality(InTransit(s))

(* remove_child_process() frees a struct thread whose stack nobody runs on *)
(* and whose semaphore nobody waits for: the child has been switched away  *)
(* from for good, although exit_program is upped before the last schedule. *)
ReapSafe ==
  \A t \in Thread : pc[t] = "reap" =>
    /\ status[arg[t]] = "DYING" /\ arg[t] # current
    /\ waiters[arg[t]] = <<>>
    /\ arg[t] \in child_list[t]
    /\ \A u \in Thread \ {t} : arg[t] \notin child_list[u]

(* The semaphores and locks are those of SyncSpec.  A lock is owned from   *)
(* the atomic part of lock_acquire() to that of lock_release().            *)
Sync == INSTANCE SyncSpec WITH
  avail   <- value,
  pending <- [t \in Thread |-> IF pc[t] = "sema_down" THEN arg[t] ELSE NULL],
  owner   <- [l \in Lock |-> IF \E t \in Thread : Owns(t, l)
                             THEN CHOOSE t \in Thread : Owns(t, l) ELSE NULL]

(* synch.c:36-40, 160-171: down waits for a positive value and takes one   *)
(* unit, up adds one; a lock goes from free to one owner and back to free  *)
(* by that owner; and the exit_program semaphore of a new thread in a      *)
(* recycled page has no leftover waiter.                                   *)
ImplementsSync == Sync!Spec

(* Every ready thread runs again: nobody can keep the processor from it.   *)
ReadyRuns ==
  \A t \in Thread \ {Idle} : status[t] = "READY" ~> status[t] = "RUNNING"

(* A parent that sleeps in process_wait() for a child that exits wakes up  *)
(* and gets past its sema_down().                                          *)
WaitReturns ==
  \A t, c \in Thread :
    /\ pc[t] = "sema_down" /\ arg[t] = c /\ status[c] = "DYING"
    ~> pc[t] = "run"

-----------------------------------------------------------------------------
(* The inductive invariant.                                                *)

(* Status, position in the code and argument of the call in progress agree;*)
(* a thread under construction has one creator and is nobody's child yet.  *)
PcOK ==
  /\ pc[Idle] = "idle"
  /\ \A t \in Thread :
       /\ pc[t] = "idle" => t = Idle
       /\ pc[t] = "gone" <=> status[t] \in {"NONE", "DYING"}
       /\ status[t] = "BLOCKED" => pc[t] \in {"start", "sema_down", "idle"}
       /\ pc[t] = "sema_down" => arg[t] \in Sema
       /\ pc[t] \in {"set_holder", "release"} => arg[t] \in Lock
       /\ pc[t] \in {"create", "reap"} => arg[t] \in Thread
       /\ pc[t] \in {"start", "gone", "idle"} => \A l \in Lock : holder[l] # t
       /\ pc[t] = "release" => holder[arg[t]] # t
  /\ \A t \in Thread : pc[t] = "create" =>
       /\ status[arg[t]] = "BLOCKED" /\ pc[arg[t]] = "start"
       /\ \A u \in Thread : arg[t] \notin child_list[u]
       /\ \A u \in Thread : pc[u] = "create" /\ arg[u] = arg[t] => u = t

(* A thread has one parent that can wait for it; only the parent downs its *)
(* exit_program, which is up only when the thread has ended.               *)
FamilyOK ==
  /\ \A t \in Thread : \A c \in child_list[t] :
       /\ status[c] # "NONE"
       /\ \A u \in Thread : c \in child_list[u] => u = t
  /\ \A t \in Thread : pc[t] \in {"sema_down", "reap"} /\ arg[t] \in Thread
                         => arg[t] \in child_list[t]
  /\ \A t \in Thread : pc[t] = "reap" => status[arg[t]] = "DYING"
  /\ \A c \in Thread : value[c] > 0 => status[c] \in {"NONE", "DYING"}

IInv == /\ TypeOK /\ QueuesExact /\ OneRunning /\ MutualExclusion
        /\ PcOK /\ FamilyOK

=============================================================================
