----------------------------- MODULE ProcessProof -----------------------------
(***************************************************************************)
(* Proofs about Process for every set of pages, every outcome of load()    *)
(* and any number of tasks.  IInv is inductive; the theorems at the end    *)
(* follow from it.                                                         *)
(***************************************************************************)
EXTENDS Process, TLAPS

(* The kernel has panicked: nobody goes on.                                *)
Halted == \A p \in Process : pc[p] = "halted"

(* A process that waits, for a load or an exit, waits for a child of its   *)
(* own that has got as far as the place in exec() says.                    *)
CallsOK ==
  \A p \in Process :
    /\ \/ pc[p] \in {"exec_read", "wait"}
       \/ pc[p] = "exec" /\ arg[p] # NULL
       => arg[p] \in child_list[p]
    /\ pc[p] = "exec_read" => pc[arg[p]] # "load"

(* Only processes on a child list have a pid that exec() returned, so that *)
(* their pages are freed by nobody but the process that knows the pid.     *)
KnownAreChildren ==
  \A p \in Process : Alive(p) => known[p] \subseteq child_list[p]

(* A process ups its exit_program once, when it ends, whether or not       *)
(* anybody will wait for it.                                               *)
ExitsOnce ==
  \A p \in Process :
    pc[p] # "free" => exit_program[p] = IF pc[p] = "dying" THEN 1 ELSE 0

(* Main runs one task at a time and never ends.                            *)
MainOK == pc[Main] \in {"user", "wait"}

Running ==
  /\ NoPanic /\ MainOK /\ CallsOK /\ KnownAreChildren /\ ExitsOnce
  /\ LoadHandshake /\ ChildListsExact

IInv == TypeOK /\ (Halted \/ Running)

(* What IInv says of a kernel that has not panicked, as the steps need it. *)
LEMMA RunningFacts ==
  ASSUME IInv, NEW p \in Process, pc[p] # "halted"
  PROVE  TypeOK /\ Running
BY DEF IInv, Halted

-----------------------------------------------------------------------------
(* exec.                                                                   *)

(* A new process has the page of no other: nobody knows it, nobody waits   *)
(* for it, and its parent is about to wait for it.                         *)
LEMMA ExecuteStep ==
  ASSUME IInv, NEW p \in Process, NEW next, pc[p] = "user",
         IF p = Main THEN next = "wait" /\ (\E c \in Process : pc[c] = "free")
                     ELSE next = "exec",
         process_execute(p, next)
  PROVE  IInv'
<1> USE ProcessAssumption
<1>1. TypeOK /\ Running
  BY RunningFacts
<1>2. ASSUME NEW c \in Process, pc[c] = "free",
             pc' = [pc EXCEPT ![p] = next, ![c] = "load"],
             arg' = [arg EXCEPT ![p] = c],
             parent' = [parent EXCEPT ![c] = p],
             child_list' = [child_list EXCEPT ![p] = @ \cup {c}, ![c] = {}],
             load_program' = [load_program EXCEPT ![c] = 0],
             exit_program' = [exit_program EXCEPT ![c] = 0],
             load_status' = [load_status EXCEPT ![c] = 0],
             known' = [known EXCEPT ![c] = {}]
      PROVE  IInv'
  <2>1. c # p /\ c # Main
    BY <1>1, <1>2 DEF Running, MainOK
  <2>2. TypeOK'
    BY <1>1, <1>2, <2>1 DEF TypeOK, PC
  <2>3. NoPanic' /\ MainOK'
    BY <1>1, <1>2, <2>1 DEF TypeOK, Running, NoPanic, MainOK
  <2>4. ExitsOnce'
    BY <1>1, <1>2, <2>1 DEF TypeOK, Running, ExitsOnce
  <2>5. \A q \in Process : pc[q] \notin {"free", "dying"} => c \notin child_list[q]
    BY <1>1, <1>2 DEF Running, ChildListsExact, Alive, NoPanic
  <2>6. CallsOK'
    BY <1>1, <1>2, <2>1, <2>5 DEF TypeOK, Running, CallsOK
  <2>7. KnownAreChildren'
    BY <1>1, <1>2, <2>1 DEF TypeOK, Running, KnownAreChildren, Alive
  <2>8. ChildListsExact'
    BY <1>1, <1>2, <2>1, <2>5 DEF TypeOK, Running, ChildListsExact, Alive
  <2>9. ParentAwaitsLoad'
    BY <1>1, <1>2, <2>1 DEF TypeOK, Running, LoadHandshake, ParentAwaitsLoad
  <2>10. LoadSignalsMatch'
    BY <1>1, <1>2, <2>1, <2>5 DEF TypeOK, Running, LoadHandshake,
       LoadSignalsMatch, CallsOK, Alive
  <2>11. KnownAreLoaded'
    BY <1>1, <1>2, <2>1, <2>5 DEF TypeOK, Running, LoadHandshake,
       KnownAreLoaded, KnownAreChildren, Alive
  <2> QED
    BY <2>2, <2>3, <2>4, <2>6, <2>7, <2>8, <2>9, <2>10, <2>11
    DEF IInv, Running, LoadHandshake
<1>3. ASSUME \A c \in Process : pc[c] # "free",
             pc' = [pc EXCEPT ![p] = next],
             arg' = [arg EXCEPT ![p] = NULL],
             UNCHANGED <<parent, child_list, load_program, exit_program,
                         load_status, known>>
      PROVE  IInv'
  <2>1. p # Main /\ next = "exec"
    BY <1>3
  <2>2. TypeOK'
    BY <1>1, <1>3, <2>1 DEF TypeOK, PC
  <2>3. NoPanic' /\ MainOK' /\ ExitsOnce'
    BY <1>1, <1>3, <2>1 DEF TypeOK, Running, NoPanic, MainOK, ExitsOnce
  <2>4. CallsOK' /\ KnownAreChildren' /\ ChildListsExact'
    BY <1>1, <1>3, <2>1 DEF TypeOK, Running, CallsOK, KnownAreChildren,
       ChildListsExact, Alive
  <2>5. ParentAwaitsLoad'
    BY <1>1, <1>3, <2>1 DEF TypeOK, Running, LoadHandshake, ParentAwaitsLoad
  <2>6. LoadSignalsMatch'
    BY <1>1, <1>3, <2>1 DEF TypeOK, Running, LoadHandshake, LoadSignalsMatch,
       CallsOK, Alive
  <2>7. KnownAreLoaded'
    BY <1>1, <1>3, <2>1 DEF TypeOK, Running, LoadHandshake, KnownAreLoaded,
       KnownAreChildren, Alive
  <2> QED
    BY <2>2, <2>3, <2>4, <2>5, <2>6, <2>7 DEF IInv, Running, LoadHandshake
<1> QED
  BY <1>2, <1>3 DEF process_execute

(* sema_down(&t->load_program) is passed for the caller's own child.       *)
LEMMA ExecDownStep == \A p \in Process : IInv /\ ExecDown(p) => IInv'
<1> SUFFICES ASSUME NEW p \in Process, IInv, ExecDown(p) PROVE IInv'
  OBVIOUS
<1> USE ProcessAssumption DEF ExecDown
<1>1. TypeOK /\ Running /\ p # Main
  BY RunningFacts DEF Running, MainOK
<1>2. arg[p] # NULL /\ pc[arg[p]] # "load" /\ load_program[p] = 1
  BY <1>1 DEF TypeOK, Running, LoadHandshake, LoadSignalsMatch, Alive
<1>3. TypeOK'
  BY <1>1, <1>2 DEF TypeOK, PC
<1>4. NoPanic' /\ MainOK' /\ ExitsOnce' /\ CallsOK'
  BY <1>1, <1>2 DEF TypeOK, Running, NoPanic, MainOK, ExitsOnce, CallsOK
<1>5. KnownAreChildren' /\ ChildListsExact'
  BY <1>1, <1>2 DEF TypeOK, Running, KnownAreChildren, ChildListsExact, Alive
<1>6. ParentAwaitsLoad'
  BY <1>1, <1>2 DEF TypeOK, Running, LoadHandshake, ParentAwaitsLoad
<1>7. LoadSignalsMatch'
  BY <1>1, <1>2 DEF TypeOK, Running, LoadHandshake, LoadSignalsMatch, Alive
<1>8. KnownAreLoaded'
  BY <1>1, <1>2 DEF TypeOK, Running, LoadHandshake, KnownAreLoaded, Alive
<1> QED
  BY <1>3, <1>4, <1>5, <1>6, <1>7, <1>8 DEF IInv, Running, LoadHandshake

LEMMA ExecReturnStep == \A p \in Process : IInv /\ ExecReturn(p) => IInv'
<1> SUFFICES ASSUME NEW p \in Process, IInv, ExecReturn(p) PROVE IInv'
  OBVIOUS
<1> USE ProcessAssumption DEF ExecReturn
<1>1. TypeOK /\ Running /\ p # Main
  BY RunningFacts DEF Running, MainOK
<1>2. arg[p] \in child_list[p] /\ pc[arg[p]] \notin {"free", "load"}
  BY <1>1 DEF TypeOK, Running, CallsOK, ChildListsExact, Alive
<1>3. TypeOK'
  BY <1>1, <1>2 DEF TypeOK, PC
<1>4. NoPanic' /\ MainOK' /\ ExitsOnce' /\ CallsOK'
  BY <1>1, <1>2 DEF TypeOK, Running, NoPanic, MainOK, ExitsOnce, CallsOK
<1>5. KnownAreChildren' /\ ChildListsExact'
  BY <1>1, <1>2 DEF TypeOK, Running, KnownAreChildren, ChildListsExact, Alive
<1>6. ParentAwaitsLoad'
  BY <1>1, <1>2 DEF TypeOK, Running, LoadHandshake, ParentAwaitsLoad
<1>7. LoadSignalsMatch'
  BY <1>1, <1>2 DEF TypeOK, Running, LoadHandshake, LoadSignalsMatch, Alive
<1>8. KnownAreLoaded'
  BY <1>1, <1>2 DEF TypeOK, Running, LoadHandshake, KnownAreLoaded, Alive
<1> QED
  BY <1>3, <1>4, <1>5, <1>6, <1>7, <1>8 DEF IInv, Running, LoadHandshake

(* start_process(): the child signals the parent that waits for it, or     *)
(* everything stops.                                                       *)
LEMMA LoadStep == \A c \in Process : IInv /\ Load(c) => IInv'
<1> SUFFICES ASSUME NEW c \in Process, IInv, Load(c) PROVE IInv'
  OBVIOUS
<1> USE ProcessAssumption DEF Load
<1> DEFINE p == parent[c]
<1>1. TypeOK /\ Running /\ c # Main
  BY RunningFacts DEF Running, MainOK
<1>2. /\ p \in Process /\ arg[p] = c /\ p # c
      /\ pc[p] = IF p = Main THEN "wait" ELSE "exec"
      /\ c \in child_list[p]
  BY <1>1 DEF TypeOK, Running, LoadHandshake, ParentAwaitsLoad, CallsOK
<1>3. CASE pc' = [q \in Process |-> "halted"]
  <2>1. TypeOK'
    BY <1>1, <1>2, <1>3 DEF TypeOK, PC
  <2> QED
    BY <1>3, <2>1 DEF IInv, Halted
<1>4. CASE /\ load_program' = [load_program EXCEPT ![p] = @ + 1]
           /\ pc' = [pc EXCEPT ![c] = "signalled"]
  <2> HIDE DEF p
  <2>1. TypeOK'
    BY <1>1, <1>2, <1>4 DEF TypeOK, PC
  <2>2. NoPanic' /\ MainOK' /\ ExitsOnce' /\ CallsOK'
    BY <1>1, <1>2, <1>4 DEF TypeOK, Running, NoPanic, MainOK, ExitsOnce, CallsOK
  <2>3. KnownAreChildren' /\ ChildListsExact'
    BY <1>1, <1>2, <1>4 DEF TypeOK, Running, KnownAreChildren, ChildListsExact,
       Alive
  <2>4. ParentAwaitsLoad'
    BY <1>1, <1>2, <1>4 DEF TypeOK, Running, LoadHandshake, ParentAwaitsLoad
  <2>5. \A q \in Process : pc[q] = "exec" /\ arg[q] = c => q = p
    BY <1>1, <1>2 DEF p, Running, NoPanic, CallsOK, ChildListsExact, Alive
  <2>6. LoadSignalsMatch'
    BY <1>1, <1>2, <1>4, <2>5 DEF TypeOK, Running, LoadHandshake,
       LoadSignalsMatch, Alive
  <2>7. KnownAreLoaded'
    BY <1>1, <1>2, <1>4 DEF TypeOK, Running, LoadHandshake, KnownAreLoaded, Alive
  <2> QED
    BY <2>1, <2>2, <2>3, <2>4, <2>6, <2>7 DEF IInv, Running, LoadHandshake
<1> QED
  BY <1>3, <1>4

LEMMA EnterUserStep == \A c \in Process : IInv /\ EnterUser(c) => IInv'
<1> SUFFICES ASSUME NEW c \in Process, IInv, EnterUser(c) PROVE IInv'
  OBVIOUS
<1> USE ProcessAssumption DEF EnterUser
<1>1. TypeOK /\ Running /\ c # Main
  BY RunningFacts DEF Running, MainOK
<1>2. TypeOK'
  BY <1>1 DEF TypeOK, PC
<1>3. NoPanic' /\ MainOK' /\ ExitsOnce' /\ CallsOK'
  BY <1>1 DEF TypeOK, Running, NoPanic, MainOK, ExitsOnce, CallsOK
<1>4. KnownAreChildren' /\ ChildListsExact'
  BY <1>1 DEF TypeOK, Running, KnownAreChildren, ChildListsExact, Alive
<1>5. ParentAwaitsLoad'
  BY <1>1 DEF TypeOK, Running, LoadHandshake, ParentAwaitsLoad
<1>6. LoadSignalsMatch'
  BY <1>1 DEF TypeOK, Running, LoadHandshake, LoadSignalsMatch, Alive
<1>7. KnownAreLoaded'
  BY <1>1 DEF TypeOK, Running, LoadHandshake, KnownAreLoaded, Alive
<1> QED
  BY <1>2, <1>3, <1>4, <1>5, <1>6, <1>7 DEF IInv, Running, LoadHandshake

-----------------------------------------------------------------------------
(* exit and wait.                                                          *)

LEMMA ExitStep == \A p \in Process : IInv /\ Exit(p) => IInv'
<1> SUFFICES ASSUME NEW p \in Process, IInv, Exit(p) PROVE IInv'
  OBVIOUS
<1> USE ProcessAssumption DEF Exit
<1>1. TypeOK /\ Running /\ exit_program[p] = 0
  BY RunningFacts DEF Running, ExitsOnce
<1>2. TypeOK'
  BY <1>1 DEF TypeOK, PC
<1>3. NoPanic' /\ MainOK' /\ ExitsOnce' /\ CallsOK'
  BY <1>1 DEF TypeOK, Running, NoPanic, MainOK, ExitsOnce, CallsOK
<1>4. KnownAreChildren' /\ ChildListsExact'
  BY <1>1 DEF TypeOK, Running, KnownAreChildren, ChildListsExact, Alive
<1>5. ParentAwaitsLoad'
  BY <1>1 DEF TypeOK, Running, LoadHandshake, ParentAwaitsLoad
<1>6. LoadSignalsMatch'
  BY <1>1 DEF TypeOK, Running, LoadHandshake, LoadSignalsMatch, Alive
<1>7. KnownAreLoaded'
  BY <1>1 DEF TypeOK, Running, LoadHandshake, KnownAreLoaded, Alive
<1> QED
  BY <1>2, <1>3, <1>4, <1>5, <1>6, <1>7 DEF IInv, Running, LoadHandshake

LEMMA WaitStep == \A p \in Process : IInv /\ Wait(p) => IInv'
<1> SUFFICES ASSUME NEW p \in Process, IInv, Wait(p) PROVE IInv'
  OBVIOUS
<1> USE ProcessAssumption DEF Wait
<1>1. TypeOK /\ Running
  BY RunningFacts
<1>2. PICK c \in child_list[p] : arg' = [arg EXCEPT ![p] = c]
  OBVIOUS
<1>3. TypeOK'
  BY <1>1, <1>2 DEF TypeOK, PC
<1>4. NoPanic' /\ MainOK' /\ ExitsOnce' /\ CallsOK'
  BY <1>1, <1>2 DEF TypeOK, Running, NoPanic, MainOK, ExitsOnce, CallsOK
<1>5. KnownAreChildren' /\ ChildListsExact'
  BY <1>1 DEF TypeOK, Running, KnownAreChildren, ChildListsExact, Alive
<1>6. ParentAwaitsLoad'
  BY <1>1, <1>2 DEF TypeOK, Running, LoadHandshake, ParentAwaitsLoad
<1>7. LoadSignalsMatch'
  BY <1>1, <1>2 DEF TypeOK, Running, LoadHandshake, LoadSignalsMatch, Alive
<1>8. KnownAreLoaded'
  BY <1>1 DEF TypeOK, Running, LoadHandshake, KnownAreLoaded, Alive
<1> QED
  BY <1>3, <1>4, <1>5, <1>6, <1>7, <1>8 DEF IInv, Running, LoadHandshake

(* process_wait() frees the page of a child that has ended.  Nobody else   *)
(* has it on a list, knows its pid or waits for it.                        *)
LEMMA WaitReturnStep == \A p \in Process : IInv /\ WaitReturn(p) => IInv'
<1> SUFFICES ASSUME NEW p \in Process, IInv, WaitReturn(p) PROVE IInv'
  OBVIOUS
<1> USE ProcessAssumption DEF WaitReturn
<1> DEFINE c == arg[p]
<1>1. TypeOK /\ Running
  BY RunningFacts
<1>2. /\ c \in child_list[p] /\ c \in Process /\ parent[c] = p
      /\ pc[c] = "dying" /\ exit_program[c] = 1
      /\ c # p /\ c # Main
  BY <1>1 DEF TypeOK, Running, CallsOK, ChildListsExact, Alive, MainOK
<1>3. \A q \in Process : q # p /\ Alive(q) => c \notin child_list[q]
  BY <1>1, <1>2 DEF Running, ChildListsExact
<1> HIDE DEF c
<1>4. /\ exit_program' = [exit_program EXCEPT ![c] = 0]
      /\ child_list' = [child_list EXCEPT ![p] = @ \ {c}]
      /\ known' = [known EXCEPT ![p] = @ \ {c}]
      /\ pc' = [pc EXCEPT ![p] = "user", ![c] = "free"]
  BY <1>2 DEF c
<1>5. TypeOK'
  BY <1>1, <1>2, <1>4 DEF TypeOK, PC
<1>6. NoPanic' /\ MainOK' /\ ExitsOnce'
  BY <1>1, <1>2, <1>4 DEF TypeOK, Running, NoPanic, MainOK, ExitsOnce
<1>7. CallsOK'
  BY <1>1, <1>2, <1>3, <1>4 DEF TypeOK, Running, CallsOK, Alive
<1>8. KnownAreChildren' /\ ChildListsExact'
  BY <1>1, <1>2, <1>3, <1>4 DEF TypeOK, Running, KnownAreChildren,
     ChildListsExact, Alive
<1>9. ParentAwaitsLoad'
  BY <1>1, <1>2, <1>4 DEF c, TypeOK, Running, LoadHandshake, ParentAwaitsLoad
<1>10. LoadSignalsMatch'
  BY <1>1, <1>2, <1>4 DEF TypeOK, Running, LoadHandshake, LoadSignalsMatch, Alive
<1>11. KnownAreLoaded'
  BY <1>1, <1>2, <1>3, <1>4 DEF TypeOK, Running, LoadHandshake, KnownAreLoaded,
     KnownAreChildren, Alive
<1> QED
  BY <1>5, <1>6, <1>7, <1>8, <1>9, <1>10, <1>11 DEF IInv, Running, LoadHandshake

-----------------------------------------------------------------------------
(* The theorems.                                                           *)

LEMMA IInvInit == Init => IInv
<1> SUFFICES ASSUME Init PROVE IInv
  OBVIOUS
<1> USE ProcessAssumption DEF Init
<1>1. TypeOK
  BY DEF TypeOK, PC
<1>2. NoPanic /\ MainOK /\ CallsOK /\ KnownAreChildren /\ ExitsOnce
  BY DEF NoPanic, MainOK, CallsOK, KnownAreChildren, ExitsOnce
<1>3. LoadHandshake
  BY DEF LoadHandshake, ParentAwaitsLoad, LoadSignalsMatch, KnownAreLoaded
<1>4. ChildListsExact
  BY DEF ChildListsExact
<1> QED
  BY <1>1, <1>2, <1>3, <1>4 DEF IInv, Running

LEMMA IInvNext == IInv /\ [Next]_vars => IInv'
<1> SUFFICES ASSUME IInv, [Next]_vars PROVE IInv'
  OBVIOUS
<1>1. CASE RunTask
  BY <1>1, ExecuteStep, ProcessAssumption DEF RunTask
<1>2. ASSUME NEW p \in Process, Exec(p) PROVE IInv'
  BY <1>2, ExecuteStep DEF Exec
<1>3. ASSUME NEW p \in Process,
             ExecDown(p) \/ ExecReturn(p) \/ Load(p) \/ EnterUser(p)
      PROVE  IInv'
  BY <1>3, ExecDownStep, ExecReturnStep, LoadStep, EnterUserStep
<1>4. ASSUME NEW p \in Process, Exit(p) \/ Wait(p) \/ WaitReturn(p)
      PROVE  IInv'
  BY <1>4, ExitStep, WaitStep, WaitReturnStep
<1>5. CASE UNCHANGED vars
  BY <1>5 DEF vars, IInv, TypeOK, Halted, Running, NoPanic, MainOK, CallsOK,
     KnownAreChildren, ExitsOnce, LoadHandshake, ParentAwaitsLoad,
     LoadSignalsMatch, KnownAreLoaded, ChildListsExact, Alive
<1> QED
  BY <1>1, <1>2, <1>3, <1>4, <1>5 DEF Next

(* IInv is an invariant of exec, wait and exit, also where a program fails *)
(* to load and the kernel panics.                                          *)
THEOREM Invariance == Spec => []IInv
BY IInvInit, IInvNext, PTL DEF Spec

(* A child that loads its program signals a parent that is alive and waits *)
(* for this very child; load_program never keeps a signal for a later      *)
(* exec(); and exec() returns no pid before the program is loaded          *)
(* (process.c:155, syscall.c:346).                                         *)
THEOREM ParentAndChildAgree == Spec => []LoadHandshake
<1>1. IInv => LoadHandshake
  <2>1. Halted => LoadHandshake
    BY DEF Halted, LoadHandshake, ParentAwaitsLoad, LoadSignalsMatch,
       KnownAreLoaded, Alive
  <2> QED
    BY <2>1 DEF IInv, Running
<1> QED
  BY <1>1, Invariance, PTL

(* The child list of a living process names existing processes whose       *)
(* parent it is, and a child on it that has ended can be waited for exactly*)
(* once (process.c:159-190).                                               *)
THEOREM ChildrenAreExact == Spec => []ChildListsExact
<1>1. IInv => ChildListsExact
  <2>1. Halted => ChildListsExact
    BY DEF Halted, ChildListsExact, Alive
  <2> QED
    BY <2>1 DEF IInv, Running
<1> QED
  BY <1>1, Invariance, PTL

=============================================================================
