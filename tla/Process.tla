------------------------------- MODULE Process -------------------------------
(***************************************************************************)
(* User processes: the exec and wait system calls of userprog/syscall.c on *)
(* top of userprog/process.c, with thread creation and exit.               *)
(*                                                                         *)
(* Parent and child talk through two semaphores, the parent's load_program *)
(* and the child's exit_program, and through fields of each other's struct *)
(* thread.  Threads checks that semaphores count and that their waiters    *)
(* are woken; here they are counters.  A process is identified by the page *)
(* of its struct thread, so that a page freed and used again is visible.   *)
(* Exit statuses are values passed along and are left out.                 *)
(***************************************************************************)
EXTENDS Integers, FiniteSets

CONSTANTS
  Process,     \* pages that can hold the struct thread of a process
  Main,        \* the initial thread, which runs the command line's tasks
  NULL,        \* the null pointer
  LoadOutcome, \* what load() may return: a subset of BOOLEAN
  MaxTasks     \* bound of the model on the tasks that Main runs

ASSUME ProcessAssumption ==
  /\ Main \in Process /\ NULL \notin Process
  /\ LoadOutcome \subseteq BOOLEAN
  /\ MaxTasks \in Nat

VARIABLES
  pc,           \* where the process is
  arg,          \* the child of the call in progress; NULL for TID_ERROR
  parent,       \* t->parent
  child_list,   \* t->child_list
  load_program, \* value of the semaphore t->load_program
  exit_program, \* value of the semaphore t->exit_program
  load_status,  \* t->load_status
  known         \* children whose pid exec() has returned to the process

vars == <<pc, arg, parent, child_list, load_program, exit_program,
          load_status, known>>

(***************************************************************************)
(* "free"      no thread                                                   *)
(* "load"      in start_process(), program not loaded yet                  *)
(* "signalled" has upped parent->load_program, load_status not yet set     *)
(* "user"      runs the program (Main: reads the command line)             *)
(* "exec"      in exec() before sema_down(&t->load_program) is passed      *)
(* "exec_read" in exec() before child->load_status is read                 *)
(* "wait"      in process_wait() before sema_down() is passed              *)
(* "dying"     past thread_exit()                                          *)
(* "halted"    the kernel has panicked                                     *)
(***************************************************************************)
PC == {"free", "load", "signalled", "user", "exec", "exec_read", "wait", "dying",
       "halted"}

Init ==
  /\ pc = [p \in Process |-> IF p = Main THEN "user" ELSE "free"]
  /\ arg = [p \in Process |-> NULL]
  /\ parent = [p \in Process |-> NULL]
  /\ child_list = [p \in Process |-> {}]
  /\ load_program = [p \in Process |-> 0]
  /\ exit_program = [p \in Process |-> 0]
  /\ load_status = [p \in Process |-> 0]
  /\ known = [p \in Process |-> {}]

-----------------------------------------------------------------------------
(* exec.                                                                   *)

(* process_execute(): the new thread c, or TID_ERROR when memory is out;   *)
(* p goes on at next.                                                      *)
process_execute(p, next) ==
  \/ \E c \in Process :
       /\ pc[c] = "free"
       /\ pc' = [pc EXCEPT ![p] = next, ![c] = "load"]
       /\ arg' = [arg EXCEPT ![p] = c]
       /\ parent' = [parent EXCEPT ![c] = p]
       /\ child_list' = [child_list EXCEPT ![p] = @ \cup {c}, ![c] = {}]
       /\ load_program' = [load_program EXCEPT ![c] = 0]
       /\ exit_program' = [exit_program EXCEPT ![c] = 0]
       /\ load_status' = [load_status EXCEPT ![c] = 0]
       /\ known' = [known EXCEPT ![c] = {}]
  \/ /\ \A c \in Process : pc[c] # "free"
     /\ pc' = [pc EXCEPT ![p] = next]
     /\ arg' = [arg EXCEPT ![p] = NULL]
     /\ UNCHANGED <<parent, child_list, load_program, exit_program,
                    load_status, known>>

(* Mutant: exec() does not wait for the program to be loaded.              *)
Exec_no_wait(p) ==
  /\ p # Main /\ pc[p] = "user"
  /\ process_execute(p, "exec_read")

Exec(p) ==
  /\ p # Main /\ pc[p] = "user"
  /\ process_execute(p, "exec")

(* sema_down(&t->load_program), on success and on TID_ERROR alike.         *)
ExecDown(p) ==
  /\ pc[p] = "exec" /\ load_program[p] > 0
  /\ load_program' = [load_program EXCEPT ![p] = @ - 1]
  /\ pc' = [pc EXCEPT ![p] = IF arg[p] = NULL THEN "user" ELSE "exec_read"]
  /\ UNCHANGED <<arg, parent, child_list, exit_program, load_status, known>>

(* exec() returns the child's pid unless it sees that loading failed.      *)
ExecReturn(p) ==
  /\ pc[p] = "exec_read"
  /\ pc' = [pc EXCEPT ![p] = "user"]
  /\ known' = [known EXCEPT ![p] = IF load_status[arg[p]] = -1 THEN @
                                   ELSE @ \cup {arg[p]}]
  /\ arg' = [arg EXCEPT ![p] = NULL]
  /\ UNCHANGED <<parent, child_list, load_program, exit_program, load_status>>

(* Mutant: the parent is signalled once more than it waits.                *)
Load_signals_twice(c) ==
  /\ pc[c] = "load"
  /\ load_program' = [load_program EXCEPT ![parent[c]] = @ + 2]
  /\ pc' = [pc EXCEPT ![c] = "signalled"]
  /\ UNCHANGED <<arg, parent, child_list, exit_program, load_status, known>>

(* Mutant: the parent is never told that the program is loaded.            *)
Load_silent(c) ==
  /\ pc[c] = "load"
  /\ pc' = [pc EXCEPT ![c] = "signalled"]
  /\ UNCHANGED <<arg, parent, child_list, load_program, exit_program,
                 load_status, known>>

(* start_process(): load(), argument_stack(), sema_up().  load() leaves    *)
(* the user stack pointer 0 when it fails, and argument_stack() writes     *)
(* below it all the same: a page fault in the kernel.                      *)
Load(c) ==
  /\ pc[c] = "load"
  /\ \E success \in LoadOutcome :
       IF success
       THEN /\ load_program' = [load_program EXCEPT ![parent[c]] = @ + 1]
            /\ pc' = [pc EXCEPT ![c] = "signalled"]
       ELSE /\ pc' = [p \in Process |-> "halted"]
            /\ UNCHANGED load_program
  /\ UNCHANGED <<arg, parent, child_list, exit_program, load_status, known>>

(* The end of start_process(), after a successful load.                    *)
EnterUser(c) ==
  /\ pc[c] = "signalled"
  /\ load_status' = [load_status EXCEPT ![c] = 1]
  /\ pc' = [pc EXCEPT ![c] = "user"]
  /\ UNCHANGED <<arg, parent, child_list, load_program, exit_program, known>>

-----------------------------------------------------------------------------
(* exit and wait.                                                          *)

(* Mutant: a process killed by an exception does not signal its parent.    *)
Exit_silent(p) ==
  /\ p # Main /\ pc[p] = "user"
  /\ pc' = [pc EXCEPT ![p] = "dying"]
  /\ UNCHANGED <<arg, parent, child_list, load_program, exit_program,
                 load_status, known>>

(* exit(), or kill() after an exception in user code: thread_exit().       *)
Exit(p) ==
  /\ p # Main /\ pc[p] = "user"
  /\ pc' = [pc EXCEPT ![p] = "dying"]
  /\ exit_program' = [exit_program EXCEPT ![p] = @ + 1]
  /\ UNCHANGED <<arg, parent, child_list, load_program, load_status, known>>

(* process_wait(): pids that are not of a child return -1 at once.         *)
Wait(p) ==
  /\ p # Main /\ pc[p] = "user"
  /\ \E c \in child_list[p] : arg' = [arg EXCEPT ![p] = c]
  /\ pc' = [pc EXCEPT ![p] = "wait"]
  /\ UNCHANGED <<parent, child_list, load_program, exit_program, load_status,
                 known>>

(* Mutant: the child stays on the child list after its page is freed.      *)
WaitReturn_keeps_child(p) ==
  /\ pc[p] = "wait" /\ exit_program[arg[p]] > 0
  /\ exit_program' = [exit_program EXCEPT ![arg[p]] = @ - 1]
  /\ pc' = [pc EXCEPT ![p] = "user", ![arg[p]] = "free"]
  /\ arg' = [arg EXCEPT ![p] = NULL]
  /\ UNCHANGED <<parent, load_program, child_list, known, load_status>>

(* The rest of process_wait(), with remove_child_process().                *)
WaitReturn(p) ==
  /\ pc[p] = "wait" /\ exit_program[arg[p]] > 0
  /\ exit_program' = [exit_program EXCEPT ![arg[p]] = @ - 1]
  /\ child_list' = [child_list EXCEPT ![p] = @ \ {arg[p]}]
  /\ known' = [known EXCEPT ![p] = @ \ {arg[p]}]
  /\ pc' = [pc EXCEPT ![p] = "user", ![arg[p]] = "free"]
  /\ arg' = [arg EXCEPT ![p] = NULL]
  /\ UNCHANGED <<parent, load_program, load_status>>

(* run_task(): Main waits for the process it executes.  Its load_program   *)
(* is never downed and counts the tasks.                                   *)
RunTask ==
  /\ pc[Main] = "user" /\ load_program[Main] < MaxTasks
  /\ \E c \in Process : pc[c] = "free"
  /\ process_execute(Main, "wait")

Next ==
  \/ RunTask
  \/ \E p \in Process :
       \/ Exec(p) \/ ExecDown(p) \/ ExecReturn(p) \/ Load(p) \/ EnterUser(p)
       \/ Exit(p) \/ Wait(p) \/ WaitReturn(p)

Spec == Init /\ [][Next]_vars

(* A thread that can run does so; user programs may run for ever.          *)
FairSpec ==
  /\ Spec
  /\ \A p \in Process : WF_vars(\/ ExecDown(p) \/ ExecReturn(p) \/ Load(p)
                                \/ EnterUser(p) \/ WaitReturn(p))

-----------------------------------------------------------------------------
(* Properties.                                                             *)

TypeOK ==
  /\ pc \in [Process -> PC]
  /\ arg \in [Process -> Process \cup {NULL}]
  /\ parent \in [Process -> Process \cup {NULL}]
  /\ child_list \in [Process -> SUBSET Process]
  /\ load_program \in [Process -> Nat]
  /\ exit_program \in [Process -> 0 .. 1]
  /\ load_status \in [Process -> {-1, 0, 1}]
  /\ known \in [Process -> SUBSET Process]

Alive(p) == pc[p] \notin {"free", "dying", "halted"}

(* A failed exec must not stop the kernel: the tests expect that exec of a *)
(* missing or corrupt program returns -1.                                  *)
NoPanic == \A p \in Process : pc[p] # "halted"

(* The parent that a loading child signals is alive and is waiting for     *)
(* this very child, so that the pointer t->parent is still good.           *)
ParentAwaitsLoad ==
  \A c \in Process : pc[c] = "load" =>
    /\ parent[c] # NULL
    /\ pc[parent[c]] = (IF parent[c] = Main THEN "wait" ELSE "exec")
    /\ arg[parent[c]] = c

(* load_program carries one signal per exec(): whoever passes sema_down()  *)
(* passes it for its own child's load, and nothing is left over that the   *)
(* next exec() could take for its child's.                                 *)
LoadSignalsMatch ==
  \A p \in Process \ {Main} : Alive(p) =>
    load_program[p] = IF /\ pc[p] = "exec" /\ arg[p] # NULL
                         /\ pc[arg[p]] # "load"
                      THEN 1 ELSE 0

(* A pid that exec() has returned belongs to a process whose program was   *)
(* loaded.                                                                 *)
KnownAreLoaded ==
  \A p \in Process : Alive(p) =>
    \A c \in known[p] : pc[c] \notin {"free", "load"}

(* Parent and child agree about the load, although the child signals       *)
(* before it sets its status (process.c:155).                              *)
LoadHandshake == ParentAwaitsLoad /\ LoadSignalsMatch /\ KnownAreLoaded

(* The child lists of living processes hold existing processes, whose      *)
(* parent they are: no freed page stays on a list, no process has two      *)
(* reapers, and a dead child on a list can still be waited for.            *)
ChildListsExact ==
  \A p \in Process : Alive(p) =>
    \A c \in child_list[p] :
      /\ pc[c] # "free" /\ parent[c] = p
      /\ exit_program[c] = IF pc[c] = "dying" THEN 1 ELSE 0

(* exec() of a process that could be created returns.  One that could not  *)
(* be created leaves its caller in sema_down() for ever, against           *)
(* multi-oom.c:5-7: nobody else ups that semaphore (syscall.c:346).        *)
ExecReturns ==
  \A p \in Process : pc[p] = "exec" /\ arg[p] # NULL ~> pc[p] = "user"

(* wait() for a child that ends returns, and frees the child's page.  A    *)
(* process that nobody waits for keeps its page, against thread.c:309-311. *)
WaitReturns ==
  \A p, c \in Process :
    pc[p] = "wait" /\ arg[p] = c /\ pc[c] = "dying"
      ~> pc[p] = "user" /\ pc[c] = "free"

(* Whoever has called exec() or wait() for a child that exists gets back   *)
(* to user code.                                                           *)
CallersReturn == ExecReturns /\ WaitReturns
=============================================================================
