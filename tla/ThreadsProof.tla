---------------------------- MODULE ThreadsProof ----------------------------
(***************************************************************************)
(* Proofs about Threads for every set of threads, semaphores and locks and *)
(* every time slice.  IInv is inductive; the theorems at the end follow.   *)
(***************************************************************************)
EXTENDS Threads, SequenceTheorems, FiniteSetTheorems, TLAPS

-----------------------------------------------------------------------------
(* Lists.                                                                  *)

(* Appending an element that is not yet listed.                            *)
LEMMA ListsAppend ==
  ASSUME NEW T, NEW q \in Seq(T), NEW e \in T, NEW S, Lists(q, S), e \notin S
  PROVE  /\ Append(q, e) \in Seq(T)
         /\ Lists(Append(q, e), S \cup {e})
<1> DEFINE r == Append(q, e)
<1>1. /\ r \in Seq(T) /\ Len(r) = Len(q) + 1 /\ r[Len(q) + 1] = e
      /\ \A i \in 1 .. Len(q) : r[i] = q[i]
      /\ DOMAIN r = 1 .. Len(q) + 1 /\ DOMAIN q = 1 .. Len(q) /\ Len(q) \in Nat
  BY AppendProperties
<1>2. \A i \in 1 .. Len(q) : q[i] \in S
  BY <1>1 DEF Lists, Range
<1>3. IsInjective(r)
  BY <1>1, <1>2 DEF Lists, IsInjective
<1>4. Range(r) = S \cup {e}
  <2>1. \A i \in DOMAIN r : r[i] \in S \cup {e}
    BY <1>1, <1>2
  <2>2. \A x \in S : \E i \in DOMAIN r : r[i] = x
    BY <1>1 DEF Lists, Range
  <2>3. \E i \in DOMAIN r : r[i] = e
    BY <1>1
  <2> HIDE DEF r
  <2> QED
    BY <2>1, <2>2, <2>3 DEF Range
<1> QED
  BY <1>1, <1>3, <1>4 DEF Lists

(* Popping the front element.                                              *)
LEMMA ListsTail ==
  ASSUME NEW T, NEW q \in Seq(T), NEW S, Lists(q, S), q # <<>>
  PROVE  /\ Head(q) \in S
         /\ Head(q) \in T
         /\ Tail(q) \in Seq(T)
         /\ Lists(Tail(q), S \ {Head(q)})
<1> DEFINE r == Tail(q)
<1>1. /\ r \in Seq(T) /\ Len(r) = Len(q) - 1
      /\ \A i \in 1 .. Len(r) : r[i] = q[i + 1]
      /\ DOMAIN r = 1 .. Len(r) /\ DOMAIN q = 1 .. Len(q)
      /\ Len(q) \in Nat \ {0} /\ Head(q) = q[1] /\ Head(q) \in T
  BY HeadTailProperties, EmptySeq
<1>2. IsInjective(r)
  BY <1>1 DEF Lists, IsInjective
<1>3. Range(r) = S \ {Head(q)}
  <2>1. \A i \in DOMAIN r : r[i] \in S \ {Head(q)}
    BY <1>1 DEF Lists, Range, IsInjective
  <2>2. ASSUME NEW x \in S, x # q[1]
        PROVE  \E i \in DOMAIN r : r[i] = x
    <3>1. PICK i \in DOMAIN q : q[i] = x
      BY DEF Lists, Range
    <3>2. i - 1 \in DOMAIN r /\ r[i - 1] = x
      BY <1>1, <2>2, <3>1
    <3> QED
      BY <3>2
  <2> HIDE DEF r
  <2> QED
    BY <1>1, <2>1, <2>2 DEF Range
<1>4. Head(q) \in S
  BY <1>1 DEF Lists, Range
<1> QED
  BY <1>1, <1>2, <1>3, <1>4 DEF Lists

(* Only the empty list lists nothing.                                      *)
LEMMA ListsEmpty ==
  ASSUME NEW T, NEW q \in Seq(T), NEW S, Lists(q, S)
  PROVE  /\ q = <<>> <=> S = {}
         /\ Lists(<<>>, {})
<1>1. q # <<>> => q[1] \in S
  BY EmptySeq DEF Lists, Range
<1>2. Lists(<<>>, {})
  BY DEF Lists, Range, IsInjective
<1> QED
  BY <1>1, <1>2 DEF Lists, Range

-----------------------------------------------------------------------------
(* The scheduler.                                                          *)

(* schedule(): if queue lists the ready threads of st, none of which is    *)
(* marked running, the switch leaves one running thread and a run queue    *)
(* that lists the ready ones.                                              *)
LEMMA ScheduleStep ==
  ASSUME NEW st \in [Thread -> Status], NEW queue \in Seq(Thread),
         Lists(queue, {t \in Thread \ {Idle} : st[t] = "READY"}),
         \A t \in Thread : st[t] # "RUNNING",
         schedule(st, queue)
  PROVE  /\ status' \in [Thread -> Status]
         /\ current' \in Thread
         /\ ready_list' \in Seq(Thread)
         /\ thread_ticks' \in 0 .. TIME_SLICE - 1
         /\ Lists(ready_list', Ready')
         /\ OneRunning'
         /\ current' # Idle => st[current'] = "READY"
         /\ status' = [st EXCEPT ![current'] = "RUNNING"]
<1> DEFINE R == {t \in Thread \ {Idle} : st[t] = "READY"}
<1>1. /\ current' \in Thread /\ status' = [st EXCEPT ![current'] = "RUNNING"]
      /\ ready_list' \in Seq(Thread)
      /\ Lists(ready_list', R \ {current'})
      /\ current' # Idle => current' \in R
  <2>1. CASE queue = <<>>
    <3>1. R = {}
      BY <2>1, ListsEmpty
    <3> QED
      BY <2>1, <3>1, ThreadsAssumption DEF schedule, next_thread_to_run
  <2>2. CASE queue # <<>>
    <3>1. /\ Head(queue) \in R /\ Tail(queue) \in Seq(Thread)
          /\ Lists(Tail(queue), R \ {Head(queue)})
      BY <2>2, ListsTail
    <3> QED
      BY <2>2, <3>1 DEF schedule, next_thread_to_run
  <2> QED
    BY <2>1, <2>2
<1>2. status' \in [Thread -> Status] /\ OneRunning'
  BY <1>1 DEF OneRunning, Status
<1>3. Ready' = R \ {current'}
  BY <1>1 DEF Ready
<1>4. thread_ticks' \in 0 .. TIME_SLICE - 1
  BY ThreadsAssumption DEF schedule
<1> QED
  BY <1>1, <1>2, <1>3, <1>4

(* sema_up(s): the thread popped from the waiters was blocked and is now   *)
(* ready; run queue and waiters list what they should.  st is status, or   *)
(* status with the running thread marked as dying.                         *)
LEMMA WokenStep ==
  ASSUME TypeOK, QueuesExact, PcOK, OneRunning,
         NEW s \in Sema, NEW st \in [Thread -> Status],
         \A t \in Thread : t # current => st[t] = status[t],
         st[current] \in {"RUNNING", "DYING"}
  PROVE  LET w == Woken(s, st)
             q == IF waiters[s] = <<>> THEN waiters[s] ELSE Tail(waiters[s])
         IN  /\ w.status \in [Thread -> Status]
             /\ w.ready_list \in Seq(Thread)
             /\ Lists(w.ready_list, {t \in Thread \ {Idle} : w.status[t] = "READY"})
             /\ q \in Seq(Thread)
             /\ Lists(q, {t \in Sleepers(s) : w.status[t] = "BLOCKED"})
             /\ \A t \in Thread : \/ w.status[t] = st[t]
                                   \/ /\ w.status[t] = "READY"
                                      /\ t \in Sleepers(s)
<1>1. /\ ready_list \in Seq(Thread) /\ waiters[s] \in Seq(Thread)
      /\ Lists(ready_list, Ready) /\ Lists(waiters[s], Sleepers(s))
      /\ status \in [Thread -> Status] /\ status[current] = "RUNNING"
      /\ current \in Thread
  BY DEF TypeOK, QueuesExact, OneRunning
<1>2. Ready = {t \in Thread \ {Idle} : st[t] = "READY"}
  BY <1>1 DEF Ready
<1>3. \A t \in Sleepers(s) : st[t] = "BLOCKED" /\ t # Idle /\ t # current
  BY <1>1 DEF Sleepers, PcOK
<1>4. CASE waiters[s] = <<>>
  BY <1>1, <1>2, <1>3, <1>4, ListsEmpty DEF Woken
<1>5. CASE waiters[s] # <<>>
  <2> DEFINE h == Head(waiters[s])
             w == Woken(s, st)
  <2>1. /\ h \in Sleepers(s) /\ h \in Thread /\ Tail(waiters[s]) \in Seq(Thread)
        /\ Lists(Tail(waiters[s]), Sleepers(s) \ {h})
    BY <1>1, <1>5, ListsTail
  <2>2. /\ w.status = [st EXCEPT ![h] = "READY"]
        /\ w.ready_list = Append(ready_list, h)
    BY <1>5 DEF Woken
  <2>3. h \notin Ready
    BY <1>1, <2>1 DEF Ready, Sleepers
  <2>4. /\ w.ready_list \in Seq(Thread)
        /\ Lists(w.ready_list, Ready \cup {h})
    BY <1>1, <2>1, <2>2, <2>3, ListsAppend
  <2> HIDE DEF h, w
  <2>5. Ready \cup {h} = {t \in Thread \ {Idle} : w.status[t] = "READY"}
    BY <1>2, <1>3, <2>1, <2>2
  <2>6. Sleepers(s) \ {h} = {t \in Sleepers(s) : w.status[t] = "BLOCKED"}
    BY <1>3, <2>1, <2>2 DEF Sleepers
  <2>7. w.status \in [Thread -> Status]
    BY <2>1, <2>2 DEF Status
  <2>8. \A t \in Thread : \/ w.status[t] = st[t]
                          \/ w.status[t] = "READY" /\ t \in Sleepers(s)
    BY <2>1, <2>2
  <2> QED
    BY <1>5, <2>1, <2>4, <2>5, <2>6, <2>7, <2>8 DEF w, h
<1> QED
  BY <1>4, <1>5

-----------------------------------------------------------------------------
(* Every action preserves the inductive invariant.  First the actions that *)
(* leave the scheduler and the waiters alone.                              *)

LEMMA QuietStep ==
  ASSUME IInv, UNCHANGED <<schedVars, waiters>>, NEW p, NEW x,
         pc' = [pc EXCEPT ![current] = p], arg' = [arg EXCEPT ![current] = x]
  PROVE  QueuesExact' /\ OneRunning'
<1>1. \A s \in Sema : Sleepers(s)' = Sleepers(s)
  BY DEF IInv, TypeOK, OneRunning, Sleepers, schedVars
<1>2. Ready' = Ready
  BY DEF Ready, schedVars
<1> QED
  BY <1>1, <1>2 DEF IInv, QueuesExact, OneRunning, schedVars

LEMMA SetHolderStep == IInv /\ SetHolder => IInv'
<1> SUFFICES ASSUME IInv, SetHolder PROVE IInv'
  OBVIOUS
<1> USE ThreadsAssumption DEF SetHolder, schedVars
<1>1. arg' = [arg EXCEPT ![current] = arg[current]]
  BY DEF IInv, TypeOK
<1>2. QueuesExact' /\ OneRunning'
  BY <1>1, QuietStep
<1>3. arg[current] \in Lock /\ current \in Thread
  BY DEF IInv, PcOK, TypeOK
<1>4. TypeOK'
  BY <1>3 DEF IInv, TypeOK, PC
<1>5. MutualExclusion'
  <2>1. \A t \in Thread, l \in Lock : Owns(t, l)' <=> Owns(t, l)
    BY <1>3 DEF IInv, TypeOK, Owns, MutualExclusion
  <2> QED
    BY <2>1 DEF IInv, MutualExclusion
<1>6. PcOK'
  BY <1>3 DEF IInv, TypeOK, PcOK
<1>7. FamilyOK'
  BY <1>3 DEF IInv, TypeOK, FamilyOK
<1> QED
  BY <1>2, <1>4, <1>5, <1>6, <1>7 DEF IInv

LEMMA LockReleaseStep == \A l \in Lock : IInv /\ LockRelease(l) => IInv'
<1> SUFFICES ASSUME NEW l \in Lock, IInv, LockRelease(l) PROVE IInv'
  OBVIOUS
<1> USE ThreadsAssumption DEF LockRelease, schedVars, Sema
<1>2. QueuesExact' /\ OneRunning'
  BY QuietStep
<1>3. current \in Thread
  BY DEF IInv, TypeOK
<1>4. TypeOK'
  BY <1>3 DEF IInv, TypeOK, PC
<1>5. MutualExclusion'
  <2>1. \A t \in Thread, k \in Lock : Owns(t, k)' <=> Owns(t, k)
    BY <1>3 DEF IInv, TypeOK, Owns, MutualExclusion
  <2> QED
    BY <2>1 DEF IInv, MutualExclusion
<1>6. PcOK'
  BY <1>3 DEF IInv, TypeOK, PcOK
<1>7. FamilyOK'
  BY <1>3 DEF IInv, TypeOK, FamilyOK
<1> QED
  BY <1>2, <1>4, <1>5, <1>6, <1>7 DEF IInv

LEMMA KernelThreadStep == IInv /\ KernelThread => IInv'
<1> SUFFICES ASSUME IInv, KernelThread PROVE IInv'
  OBVIOUS
<1> USE ThreadsAssumption DEF KernelThread, schedVars, syncVars
<1>1. arg' = [arg EXCEPT ![current] = arg[current]]
  BY DEF IInv, TypeOK
<1>2. QueuesExact' /\ OneRunning'
  BY <1>1, QuietStep
<1>3. current \in Thread /\ status[current] = "RUNNING"
  BY DEF IInv, TypeOK, OneRunning
<1>4. TypeOK'
  BY <1>3 DEF IInv, TypeOK, PC
<1>5. MutualExclusion'
  <2>1. \A t \in Thread, k \in Lock : Owns(t, k)' <=> Owns(t, k)
    BY <1>3 DEF IInv, TypeOK, Owns
  <2> QED
    BY <2>1 DEF IInv, MutualExclusion
<1>6. PcOK'
  BY <1>3 DEF IInv, TypeOK, PcOK
<1>7. FamilyOK'
  BY <1>3 DEF IInv, TypeOK, FamilyOK
<1> QED
  BY <1>2, <1>4, <1>5, <1>6, <1>7 DEF IInv

-----------------------------------------------------------------------------
(* Actions that only reschedule.                                           *)

LEMMA RescheduleStep ==
  ASSUME IInv, UNCHANGED <<syncVars, child_list, pc, arg>>,
         status' \in [Thread -> Status], current' \in Thread,
         ready_list' \in Seq(Thread), thread_ticks' \in 0 .. TIME_SLICE - 1,
         Lists(ready_list', Ready'), OneRunning',
         \A t \in Thread \ {Idle} :
            \/ status'[t] = status[t]
            \/ /\ status'[t] \in {"READY", "RUNNING"}
               /\ status[t] \in {"READY", "RUNNING"},
         status'[Idle] \in {"READY", "RUNNING", "BLOCKED"}
  PROVE  IInv'
<1> USE ThreadsAssumption
<1>1. \A t \in Thread :
        /\ status'[t] \in {"NONE", "DYING"} <=> status[t] \in {"NONE", "DYING"}
        /\ status'[t] = "NONE" <=> status[t] = "NONE"
        /\ status'[t] = "DYING" <=> status[t] = "DYING"
        /\ t # Idle => (status'[t] = "BLOCKED" <=> status[t] = "BLOCKED")
  BY DEF IInv, PcOK
<1>2. TypeOK'
  BY DEF IInv, TypeOK, syncVars
<1>3. QueuesExact'
  <2>1. \A s \in Sema : Sleepers(s)' = Sleepers(s)
    BY <1>1 DEF Sleepers, IInv, PcOK
  <2> QED
    BY <2>1 DEF IInv, QueuesExact, syncVars
<1>4. MutualExclusion'
  <2>1. \A t \in Thread, l \in Lock : Owns(t, l)' <=> Owns(t, l)
    BY DEF Owns, syncVars
  <2> QED
    BY <2>1 DEF IInv, MutualExclusion, syncVars
<1>5. PcOK'
  <2>1. \A t \in Thread : pc[t] = "create" => arg[t] \in Thread /\ arg[t] # Idle
    BY DEF IInv, PcOK
  <2> QED
    BY <1>1, <2>1 DEF IInv, PcOK, syncVars
<1>6. FamilyOK'
  <2>1. \A t \in Thread : pc[t] = "reap" => arg[t] \in Thread
    BY DEF IInv, PcOK
  <2>2. \A t \in Thread : \A c \in child_list[t] : c \in Thread
    BY DEF IInv, TypeOK
  <2> QED
    BY <1>1, <2>1, <2>2 DEF IInv, FamilyOK, syncVars
<1> QED
  BY <1>2, <1>3, <1>4, <1>5, <1>6 DEF IInv

LEMMA YieldStep ==
  ASSUME IInv, thread_yield, UNCHANGED <<syncVars, child_list, pc, arg>>
  PROVE  IInv'
<1> DEFINE st == [status EXCEPT ![current] = "READY"]
           queue == IF current = Idle THEN ready_list
                    ELSE Append(ready_list, current)
<1>1. /\ current \in Thread /\ ready_list \in Seq(Thread)
      /\ status[current] = "RUNNING" /\ status \in [Thread -> Status]
      /\ Lists(ready_list, Ready) /\ current \notin Ready
      /\ \A t \in Thread : status[t] = "RUNNING" => t = current
  BY DEF IInv, TypeOK, OneRunning, QueuesExact, Ready
<1>2. queue \in Seq(Thread) /\ Lists(queue, {t \in Thread \ {Idle} : st[t] = "READY"})
  <2>1. CASE current = Idle
    <3>1. Ready = {t \in Thread \ {Idle} : st[t] = "READY"}
      BY <1>1, <2>1 DEF Ready
    <3> QED
      BY <1>1, <2>1, <3>1
  <2>2. CASE current # Idle
    <3>1. Ready \cup {current} = {t \in Thread \ {Idle} : st[t] = "READY"}
      BY <1>1, <2>2 DEF Ready
    <3> QED
      BY <1>1, <2>2, <3>1, ListsAppend
  <2> QED
    BY <2>1, <2>2
<1>3. st \in [Thread -> Status] /\ \A t \in Thread : st[t] # "RUNNING"
  BY <1>1 DEF Status
<1>4. schedule(st, queue)
  BY DEF thread_yield
<1>5. /\ \A t \in Thread : st[t] = IF t = current THEN "READY" ELSE status[t]
      /\ status[Idle] \in {"READY", "RUNNING", "BLOCKED"}
  BY <1>1, ThreadsAssumption DEF IInv, PcOK, Status
<1> HIDE DEF st, queue
<1>6. /\ status' \in [Thread -> Status] /\ current' \in Thread
      /\ ready_list' \in Seq(Thread) /\ thread_ticks' \in 0 .. TIME_SLICE - 1
      /\ Lists(ready_list', Ready') /\ OneRunning'
      /\ current' # Idle => st[current'] = "READY"
      /\ status' = [st EXCEPT ![current'] = "RUNNING"]
  BY <1>2, <1>3, <1>4, ScheduleStep
<1>7. \A t \in Thread : status'[t] = IF t = current' THEN "RUNNING" ELSE st[t]
  BY <1>3, <1>6
<1> QED
  BY <1>1, <1>5, <1>6, <1>7, RescheduleStep, ThreadsAssumption

LEMMA TimerTickStep == IInv /\ TimerTick => IInv'
<1> SUFFICES ASSUME IInv, TimerTick PROVE IInv'
  OBVIOUS
<1>1. CASE thread_ticks + 1 >= TIME_SLICE
  BY <1>1, YieldStep DEF TimerTick
<1>2. CASE ~(thread_ticks + 1 >= TIME_SLICE)
  <2>1. TypeOK'
    BY <1>2, ThreadsAssumption DEF IInv, TypeOK, TimerTick, syncVars
  <2>2. /\ Ready' = Ready /\ \A s \in Sema : Sleepers(s)' = Sleepers(s)
        /\ \A t \in Thread, l \in Lock : Owns(t, l)' <=> Owns(t, l)
    BY <1>2 DEF TimerTick, Ready, Sleepers, Owns, syncVars
  <2>3. QueuesExact' /\ OneRunning' /\ MutualExclusion'
    BY <1>2, <2>2 DEF IInv, QueuesExact, OneRunning, MutualExclusion, TimerTick, syncVars
  <2>4. PcOK' /\ FamilyOK'
    BY <1>2 DEF IInv, PcOK, FamilyOK, TimerTick, syncVars
  <2> QED
    BY <2>1, <2>3, <2>4 DEF IInv
<1> QED
  BY <1>1, <1>2

LEMMA IdleBlockStep == IInv /\ IdleBlock => IInv'
<1> SUFFICES ASSUME IInv, IdleBlock PROVE IInv'
  OBVIOUS
<1> DEFINE st == [status EXCEPT ![current] = "BLOCKED"]
<1>1. /\ current = Idle /\ Idle \in Thread /\ ready_list \in Seq(Thread)
      /\ status[current] = "RUNNING" /\ status \in [Thread -> Status]
      /\ Lists(ready_list, Ready)
      /\ \A t \in Thread : status[t] = "RUNNING" => t = current
  BY DEF IInv, TypeOK, OneRunning, QueuesExact, IdleBlock, PcOK
<1>2. Ready = {t \in Thread \ {Idle} : st[t] = "READY"}
  BY <1>1 DEF Ready
<1>3. st \in [Thread -> Status] /\ \A t \in Thread : st[t] # "RUNNING"
  BY <1>1 DEF Status
<1>4. schedule(st, ready_list)
  BY DEF IdleBlock
<1>5. \A t \in Thread : st[t] = IF t = Idle THEN "BLOCKED" ELSE status[t]
  BY <1>1
<1> HIDE DEF st
<1>6. /\ status' \in [Thread -> Status] /\ current' \in Thread
      /\ ready_list' \in Seq(Thread) /\ thread_ticks' \in 0 .. TIME_SLICE - 1
      /\ Lists(ready_list', Ready') /\ OneRunning'
      /\ current' # Idle => st[current'] = "READY"
      /\ status' = [st EXCEPT ![current'] = "RUNNING"]
  BY <1>1, <1>2, <1>3, <1>4, ScheduleStep
<1>7. \A t \in Thread : status'[t] = IF t = current' THEN "RUNNING" ELSE st[t]
  BY <1>3, <1>6
<1>8. UNCHANGED <<syncVars, child_list, pc, arg>>
  BY DEF IdleBlock
<1> QED
  BY <1>1, <1>5, <1>6, <1>7, <1>8, RescheduleStep

-----------------------------------------------------------------------------
(* Semaphores.                                                             *)

(* One turn of the loop of sema_down(s), entered by the running thread or  *)
(* resumed by it; only a parent downs the exit_program of a thread.        *)
LEMMA DownStep ==
  ASSUME IInv, NEW s \in Sema, sema_down(s),
         pc[current] \in {"run", "sema_down"},
         pc[current] = "sema_down" => arg[current] = s,
         s \in Thread => s \in child_list[current]
  PROVE  IInv'
<1> USE ThreadsAssumption
<1>1. /\ current \in Thread /\ current # Idle /\ status[current] = "RUNNING"
      /\ status \in [Thread -> Status] /\ ready_list \in Seq(Thread)
      /\ Lists(ready_list, Ready) /\ Lists(waiters[s], Sleepers(s))
      /\ waiters \in [Sema -> Seq(Thread)] /\ value \in [Sema -> Nat]
      /\ pc \in [Thread -> PC] /\ arg \in [Thread -> Sema \cup {NULL}]
      /\ \A t \in Thread : status[t] = "RUNNING" => t = current
  BY DEF IInv, TypeOK, OneRunning, QueuesExact, PcOK
<1>2. arg' = [arg EXCEPT ![current] = s] /\ UNCHANGED <<holder, child_list>>
  BY DEF sema_down
<1>3. CASE value[s] = 0
  <2> DEFINE st == [status EXCEPT ![current] = "BLOCKED"]
  <2>1. /\ waiters' = [waiters EXCEPT ![s] = Append(@, current)]
        /\ pc' = [pc EXCEPT ![current] = "sema_down"]
        /\ schedule(st, ready_list)
        /\ UNCHANGED value
    BY <1>3 DEF sema_down
  <2>2. Ready = {t \in Thread \ {Idle} : st[t] = "READY"}
    BY <1>1 DEF Ready
  <2>3. /\ st \in [Thread -> Status] /\ \A t \in Thread : st[t] # "RUNNING"
        /\ \A t \in Thread : st[t] = IF t = current THEN "BLOCKED" ELSE status[t]
    BY <1>1 DEF Status
  <2> HIDE DEF st
  <2>4. /\ status' \in [Thread -> Status] /\ current' \in Thread
        /\ ready_list' \in Seq(Thread) /\ thread_ticks' \in 0 .. TIME_SLICE - 1
        /\ Lists(ready_list', Ready') /\ OneRunning'
        /\ current' # Idle => st[current'] = "READY"
        /\ status' = [st EXCEPT ![current'] = "RUNNING"]
    BY <1>1, <2>1, <2>2, <2>3, ScheduleStep
  <2>5. /\ status'[current] = "BLOCKED"
        /\ \A t \in Thread \ {Idle, current} :
             \/ status'[t] = status[t]
             \/ /\ status'[t] \in {"READY", "RUNNING"}
                /\ status[t] \in {"READY", "RUNNING"}
        /\ status'[Idle] \in {status[Idle], "RUNNING"}
        /\ status[Idle] \notin {"NONE", "DYING"}
    BY <1>1, <2>3, <2>4 DEF IInv, PcOK
  <2>6. \A t \in Thread :
          /\ status'[t] = "NONE" <=> status[t] = "NONE"
          /\ status'[t] = "DYING" <=> status[t] = "DYING"
          /\ t \notin {Idle, current} => (status'[t] = "BLOCKED" <=> status[t] = "BLOCKED")
    BY <1>1, <2>5
  <2>7. TypeOK'
    <3>1. Append(waiters[s], current) \in Seq(Thread)
      BY <1>1
    <3> QED
      BY <1>1, <1>2, <2>1, <2>4, <3>1 DEF IInv, TypeOK, PC
  <2>8. QueuesExact'
    <3>1. Sleepers(s)' = Sleepers(s) \cup {current} /\ current \notin Sleepers(s)
      BY <1>1, <1>2, <2>1, <2>5, <2>6 DEF Sleepers, IInv, PcOK
    <3>2. Lists(waiters'[s], Sleepers(s)')
      BY <1>1, <2>1, <3>1, ListsAppend
    <3>3. \A r \in Sema \ {s} : Sleepers(r)' = Sleepers(r) /\ waiters'[r] = waiters[r]
      BY <1>1, <1>2, <2>1, <2>5, <2>6 DEF Sleepers, IInv, PcOK
    <3> QED
      BY <2>4, <3>2, <3>3 DEF IInv, QueuesExact
  <2>9. MutualExclusion'
    <3>1. \A t \in Thread, l \in Lock : Owns(t, l)' <=> Owns(t, l)
      BY <1>1, <1>2, <2>1 DEF Owns
    <3> QED
      BY <2>1, <3>1 DEF IInv, MutualExclusion
  <2>10. PcOK'
    <3>1. \A t \in Thread : pc[t] = "create" => /\ arg[t] \in Thread \ {Idle, current}
                                                /\ t # current
      BY <1>1 DEF IInv, PcOK
    <3> QED
      BY <1>1, <1>2, <2>1, <2>5, <2>6, <3>1 DEF IInv, PcOK
  <2>11. FamilyOK'
    <3>1. \A t \in Thread : pc[t] = "reap" => arg[t] \in Thread /\ t # current
      BY <1>1 DEF IInv, PcOK
    <3>2. \A t \in Thread : \A c \in child_list[t] : c \in Thread
      BY DEF IInv, TypeOK
    <3> QED
      BY <1>1, <1>2, <2>1, <2>6, <3>1, <3>2 DEF IInv, FamilyOK
  <2> QED
    BY <2>4, <2>7, <2>8, <2>9, <2>10, <2>11 DEF IInv
<1>4. CASE value[s] # 0
  <2>1. /\ value' = [value EXCEPT ![s] = @ - 1]
        /\ pc' = [pc EXCEPT ![current] = AfterDown(s)]
        /\ UNCHANGED <<waiters, schedVars>>
        /\ value[s] > 0
    BY <1>1, <1>4 DEF sema_down
  <2>2. QueuesExact' /\ OneRunning'
    BY <1>2, <2>1, QuietStep
  <2>3. /\ s \in Lock => AfterDown(s) = "set_holder"
        /\ s \in Thread => AfterDown(s) = "reap"
        /\ s \in Semaphore => AfterDown(s) = "run"
        /\ AfterDown(s) \in {"set_holder", "reap", "run"}
    BY DEF AfterDown
  <2>4. TypeOK'
    BY <1>1, <1>2, <2>1, <2>3 DEF IInv, TypeOK, PC, schedVars
  <2>5. MutualExclusion'
    <3>1. \A l \in Lock \ {s} : /\ value'[l] = value[l]
                               /\ \A t \in Thread : Owns(t, l)' <=> Owns(t, l)
      BY <1>1, <1>2, <2>1, <2>3 DEF Owns, Sema
    <3>2. s \in Lock => /\ value[s] = 1 /\ value'[s] = 0
                        /\ \A t \in Thread : ~Owns(t, s)
                        /\ \A t \in Thread : Owns(t, s)' <=> t = current
      BY <1>1, <1>2, <2>1, <2>3 DEF Owns, IInv, MutualExclusion
    <3> QED
      <4>1. MutualExclusion
        BY DEF IInv
      <4>2. ASSUME NEW l \in Lock PROVE \A t, u \in Thread : Owns(t, l)' /\ Owns(u, l)' => t = u
        BY <3>1, <3>2, <4>1, <4>2 DEF MutualExclusion
      <4>3. ASSUME NEW l \in Lock
            PROVE value'[l] = IF \E t \in Thread : Owns(t, l)' THEN 0 ELSE 1
        <5>1. CASE l = s
          BY <1>1, <3>2, <5>1
        <5>2. CASE l # s
          BY <3>1, <4>1, <5>2 DEF MutualExclusion
        <5> QED
          BY <5>1, <5>2
      <4> QED
        BY <4>2, <4>3 DEF MutualExclusion
  <2>6. PcOK'
    <3>1. \A t \in Thread : pc'[t] = IF t = current THEN AfterDown(s) ELSE pc[t]
      BY <1>1, <1>2, <2>1 DEF IInv, TypeOK
    <3>2. /\ UNCHANGED <<holder, child_list, status>>
          /\ \A t \in Thread : arg'[t] = IF t = current THEN s ELSE arg[t]
      BY <1>1, <1>2, <2>1 DEF schedVars
    <3>3. PcOK
      BY DEF IInv
    <3>4. \A t \in Thread : pc'[t] = "create" => pc[t] = "create" /\ t # current
      BY <2>3, <3>1
    <3>5. \A t \in Thread : pc'[t] = "create" =>
            /\ status'[arg'[t]] = "BLOCKED" /\ pc'[arg'[t]] = "start"
            /\ \A u \in Thread : arg'[t] \notin child_list'[u]
            /\ \A u \in Thread : pc'[u] = "create" /\ arg'[u] = arg'[t] => u = t
      BY <1>1, <3>1, <3>2, <3>3, <3>4 DEF PcOK
    <3>6. ASSUME NEW t \in Thread
          PROVE  /\ pc'[t] = "idle" => t = Idle
                 /\ pc'[t] = "gone" <=> status'[t] \in {"NONE", "DYING"}
                 /\ status'[t] = "BLOCKED" => pc'[t] \in {"start", "sema_down", "idle"}
                 /\ pc'[t] = "sema_down" => arg'[t] \in Sema
                 /\ pc'[t] \in {"set_holder", "release"} => arg'[t] \in Lock
                 /\ pc'[t] \in {"create", "reap"} => arg'[t] \in Thread
                 /\ pc'[t] \in {"start", "gone", "idle"} => \A l \in Lock : holder'[l] # t
                 /\ pc'[t] = "release" => holder'[arg'[t]] # t
      <4>1. CASE t = current
        BY <1>1, <2>3, <3>1, <3>2, <4>1 DEF Sema
      <4>2. CASE t # current
        BY <3>1, <3>2, <3>3, <4>2 DEF PcOK
      <4> QED
        BY <4>1, <4>2
    <3>7. pc'[Idle] = "idle"
      BY <1>1, <3>1, <3>3 DEF PcOK
    <3> QED
      BY <3>5, <3>6, <3>7 DEF PcOK
  <2>7. FamilyOK'
    <3>1. s \in Thread => status[s] = "DYING"
      BY <1>1, <2>1 DEF IInv, FamilyOK
    <3>2. \A t \in Thread : pc[t] = "reap" => arg[t] \in Thread /\ t # current
      BY <1>1 DEF IInv, PcOK
    <3>3. s \notin Thread => AfterDown(s) # "reap"
      BY <2>3 DEF Sema
    <3>4. \A c \in Thread : value'[c] > 0 => value[c] > 0
      BY <1>1, <2>1 DEF Sema
    <3> QED
      BY <1>1, <1>2, <2>1, <2>3, <3>1, <3>2, <3>3, <3>4 DEF IInv, FamilyOK, schedVars
  <2> QED
    BY <2>2, <2>4, <2>5, <2>6, <2>7 DEF IInv
<1> QED
  BY <1>3, <1>4

(* FamilyOK depends only on the child lists, on who has ended, on who is   *)
(* in process_wait() and on the exit_program semaphores.                   *)
LEMMA FamilyFrame ==
  ASSUME TypeOK, PcOK, FamilyOK, UNCHANGED <<child_list, arg>>,
         \A t \in Thread : status'[t] = "NONE" <=> status[t] = "NONE",
         \A t \in Thread : status[t] = "DYING" => status'[t] = "DYING",
         \A t \in Thread : pc'[t] \in {"sema_down", "reap"} => pc'[t] = pc[t],
         \A c \in Thread : value'[c] > 0 =>
                             value[c] > 0 \/ status'[c] = "DYING"
  PROVE  FamilyOK'
<1>1. \A t \in Thread : \A c \in child_list'[t] :
        /\ status'[c] # "NONE"
        /\ \A u \in Thread : c \in child_list'[u] => u = t
  BY DEF FamilyOK, TypeOK
<1>2. \A t \in Thread : pc'[t] \in {"sema_down", "reap"} /\ arg'[t] \in Thread
                         => arg'[t] \in child_list'[t]
  BY DEF FamilyOK
<1>3. \A t \in Thread : pc'[t] = "reap" => status'[arg'[t]] = "DYING"
  BY DEF FamilyOK, PcOK
<1>4. \A c \in Thread : value'[c] > 0 => status'[c] \in {"NONE", "DYING"}
  BY DEF FamilyOK
<1> QED
  BY <1>1, <1>2, <1>3, <1>4 DEF FamilyOK

(* What sema_up(s) does to the scheduler while the running thread stays.   *)
LEMMA UpStep ==
  ASSUME IInv, NEW s \in Sema, sema_up(s),
         status' = Woken(s, status).status,
         ready_list' = Woken(s, status).ready_list,
         UNCHANGED <<current, arg>>,
         pc' \in [Thread -> PC], \A t \in Thread \ {current} : pc'[t] = pc[t]
  PROVE  /\ status' \in [Thread -> Status]
         /\ ready_list' \in Seq(Thread)
         /\ waiters' \in [Sema -> Seq(Thread)]
         /\ value' \in [Sema -> Nat]
         /\ QueuesExact' /\ OneRunning'
         /\ \A t \in Thread : status'[t] # status[t] =>
               (status[t] = "BLOCKED" /\ status'[t] = "READY" /\ pc[t] = "sema_down")
<1> DEFINE w == Woken(s, status)
           q == IF waiters[s] = <<>> THEN waiters[s] ELSE Tail(waiters[s])
<1>1. /\ current \in Thread /\ status[current] = "RUNNING"
      /\ status \in [Thread -> Status] /\ waiters \in [Sema -> Seq(Thread)]
      /\ value \in [Sema -> Nat]
      /\ TypeOK /\ QueuesExact /\ PcOK /\ OneRunning
  BY DEF IInv, TypeOK, OneRunning
<1>2. /\ w.status \in [Thread -> Status]
      /\ w.ready_list \in Seq(Thread)
      /\ Lists(w.ready_list, {t \in Thread \ {Idle} : w.status[t] = "READY"})
      /\ q \in Seq(Thread)
      /\ Lists(q, {t \in Sleepers(s) : w.status[t] = "BLOCKED"})
      /\ \A t \in Thread : (w.status[t] = status[t]) \/ (w.status[t] = "READY" /\ t \in Sleepers(s))
  BY <1>1, WokenStep
<1>3. /\ status' = w.status /\ ready_list' = w.ready_list
      /\ waiters' = [waiters EXCEPT ![s] = q]
      /\ value' = [value EXCEPT ![s] = @ + 1]
  BY DEF sema_up
<1> HIDE DEF w, q
<1>4. \A t \in Thread : (status'[t] = status[t]) \/ (status'[t] = "READY" /\ t \in Sleepers(s))
  BY <1>2, <1>3
<1>5. /\ waiters' \in [Sema -> Seq(Thread)] /\ value' \in [Sema -> Nat]
      /\ status' \in [Thread -> Status] /\ ready_list' \in Seq(Thread)
  BY <1>1, <1>2, <1>3
<1>6. Lists(ready_list', Ready')
  BY <1>2, <1>3 DEF Ready
<1>7. OneRunning'
  BY <1>1, <1>4 DEF OneRunning, Sleepers
<1>8. Sleepers(s)' = {t \in Sleepers(s) : w.status[t] = "BLOCKED"}
  BY <1>1, <1>3, <1>4 DEF Sleepers
<1>9. \A r \in Sema \ {s} : Sleepers(r)' = Sleepers(r)
  BY <1>1, <1>4 DEF Sleepers
<1>10. QueuesExact'
  BY <1>1, <1>2, <1>3, <1>6, <1>8, <1>9 DEF QueuesExact
<1> QED
  BY <1>4, <1>5, <1>7, <1>10 DEF Sleepers

LEMMA SemaUpStep == \A s \in Semaphore : IInv /\ SemaUp(s) => IInv'
<1> SUFFICES ASSUME NEW s \in Semaphore, IInv, SemaUp(s) PROVE IInv'
  OBVIOUS
<1> USE ThreadsAssumption
<1>1. /\ s \in Sema /\ sema_up(s) /\ value' = [value EXCEPT ![s] = @ + 1]
      /\ UNCHANGED <<current, thread_ticks, holder, child_list, pc, arg>>
  BY DEF SemaUp, Sema, sema_up
<1>2. /\ status' \in [Thread -> Status] /\ ready_list' \in Seq(Thread)
      /\ waiters' \in [Sema -> Seq(Thread)] /\ value' \in [Sema -> Nat]
      /\ QueuesExact' /\ OneRunning'
      /\ \A t \in Thread : status'[t] # status[t] =>
               (status[t] = "BLOCKED" /\ status'[t] = "READY" /\ pc[t] = "sema_down")
  <2>1. pc' \in [Thread -> PC]
    BY <1>1 DEF IInv, TypeOK
  <2> QED
    BY <1>1, <2>1, UpStep DEF SemaUp
<1>3. TypeOK'
  BY <1>1, <1>2 DEF IInv, TypeOK
<1>4. MutualExclusion'
  <2>1. \A t \in Thread, l \in Lock : Owns(t, l)' <=> Owns(t, l)
    BY <1>1 DEF Owns
  <2>2. \A l \in Lock : value'[l] = value[l]
    BY <1>1 DEF IInv, TypeOK, Sema
  <2> QED
    BY <2>1, <2>2 DEF IInv, MutualExclusion
<1>5. PcOK'
  <2>1. \A t \in Thread : pc[t] = "create" =>
          arg[t] \in Thread /\ status'[arg[t]] = status[arg[t]]
    BY <1>2 DEF IInv, PcOK
  <2>2. \A t \in Thread :
          /\ status'[t] \in {"NONE", "DYING"} <=> status[t] \in {"NONE", "DYING"}
          /\ status'[t] = "BLOCKED" => status[t] = "BLOCKED"
    BY <1>2
  <2>3. PcOK
    BY DEF IInv
  <2> QED
    BY <1>1, <2>1, <2>2, <2>3 DEF PcOK
<1>6. FamilyOK'
  <2>1. \A c \in Thread : value'[c] = value[c]
    BY <1>1 DEF IInv, TypeOK, Sema
  <2> QED
    BY <1>1, <1>2, <2>1, FamilyFrame DEF IInv
<1> QED
  BY <1>2, <1>3, <1>4, <1>5, <1>6 DEF IInv

LEMMA LockReleaseUpStep == IInv /\ LockReleaseUp => IInv'
<1> SUFFICES ASSUME IInv, LockReleaseUp PROVE IInv'
  OBVIOUS
<1> USE ThreadsAssumption
<1> PICK l \in Lock : l = arg[current]
  BY DEF LockReleaseUp, IInv, PcOK, TypeOK
<1>1. /\ l \in Lock /\ l \in Sema /\ current \in Thread
      /\ pc \in [Thread -> PC] /\ value \in [Sema -> Nat]
      /\ pc[current] = "release"
  BY DEF LockReleaseUp, IInv, PcOK, TypeOK, Sema
<1>2. /\ sema_up(l) /\ value' = [value EXCEPT ![l] = @ + 1]
      /\ pc' = [pc EXCEPT ![current] = "run"]
      /\ UNCHANGED <<current, thread_ticks, holder, child_list, arg>>
      /\ status' = Woken(l, status).status
      /\ ready_list' = Woken(l, status).ready_list
  BY DEF LockReleaseUp, sema_up
<1>3. pc' \in [Thread -> PC]
  BY <1>1, <1>2 DEF PC
<1>4. /\ status' \in [Thread -> Status] /\ ready_list' \in Seq(Thread)
      /\ waiters' \in [Sema -> Seq(Thread)] /\ value' \in [Sema -> Nat]
      /\ QueuesExact' /\ OneRunning'
      /\ \A t \in Thread : status'[t] # status[t] =>
               (status[t] = "BLOCKED" /\ status'[t] = "READY" /\ pc[t] = "sema_down")
  BY <1>1, <1>2, <1>3, UpStep
<1>5. TypeOK'
  BY <1>2, <1>3, <1>4 DEF IInv, TypeOK
<1>6. MutualExclusion'
  <2>1. \A k \in Lock \ {l} : /\ value'[k] = value[k]
                             /\ \A t \in Thread : Owns(t, k)' <=> Owns(t, k)
    BY <1>1, <1>2 DEF Owns, Sema
  <2>2. /\ Owns(current, l)
        /\ \A t \in Thread : Owns(t, l) <=> t = current
    BY <1>1 DEF Owns, IInv, MutualExclusion
  <2>3. holder[l] # current
    BY <1>1 DEF IInv, PcOK
  <2>4. value[l] = 0 /\ value'[l] = 1
    BY <1>1, <1>2, <2>2 DEF IInv, MutualExclusion
  <2>5. \A t \in Thread : ~Owns(t, l)'
    BY <1>1, <1>2, <2>2, <2>3 DEF Owns
  <2> QED
    BY <2>1, <2>4, <2>5 DEF IInv, MutualExclusion
<1>7. PcOK'
  <2>1. \A t \in Thread : pc[t] = "create" => /\ arg[t] \in Thread
                                              /\ arg[t] # current
                                              /\ status'[arg[t]] = status[arg[t]]
    BY <1>1, <1>4 DEF IInv, PcOK
  <2>2. \A t \in Thread : pc'[t] = IF t = current THEN "run" ELSE pc[t]
    BY <1>1, <1>2
  <2>3. \A t \in Thread :
          /\ status'[t] \in {"NONE", "DYING"} <=> status[t] \in {"NONE", "DYING"}
          /\ status'[t] = "BLOCKED" => status[t] = "BLOCKED"
    BY <1>4
  <2>4. current # Idle /\ status[current] = "RUNNING" /\ status'[current] = "RUNNING"
    BY <1>1, <1>4 DEF IInv, PcOK, OneRunning
  <2> QED
    BY <1>1, <1>2, <2>1, <2>2, <2>3, <2>4 DEF IInv, PcOK
<1>8. FamilyOK'
  <2>1. \A c \in Thread : value'[c] = value[c]
    BY <1>1, <1>2 DEF Sema
  <2>2. \A t \in Thread : pc'[t] = IF t = current THEN "run" ELSE pc[t]
    BY <1>1, <1>2
  <2> QED
    <3>1. TypeOK /\ PcOK /\ FamilyOK
      BY DEF IInv
    <3>2. /\ \A t \in Thread : status'[t] = "NONE" <=> status[t] = "NONE"
          /\ \A t \in Thread : status[t] = "DYING" => status'[t] = "DYING"
      BY <1>4
    <3> QED
      BY <1>2, <2>1, <2>2, <3>1, <3>2, FamilyFrame
<1> QED
  BY <1>4, <1>5, <1>6, <1>7, <1>8 DEF IInv

LEMMA TryDownStep == \A s \in Semaphore : IInv /\ SemaTryDown(s) => IInv'
<1> SUFFICES ASSUME NEW s \in Semaphore, IInv, SemaTryDown(s) PROVE IInv'
  OBVIOUS
<1> USE ThreadsAssumption
<1>1. /\ value' = [value EXCEPT ![s] = @ - 1] /\ value[s] > 0
      /\ UNCHANGED <<schedVars, waiters, holder, child_list, pc, arg>>
      /\ value \in [Sema -> Nat] /\ s \in Sema
  BY DEF SemaTryDown, IInv, TypeOK, Sema
<1>2. TypeOK'
  BY <1>1 DEF IInv, TypeOK, schedVars
<1>3. QueuesExact' /\ OneRunning'
  BY <1>1 DEF IInv, QueuesExact, OneRunning, schedVars, Ready, Sleepers
<1>4. \A r \in Lock \cup Thread : value'[r] = value[r]
  BY <1>1 DEF Sema
<1>5. MutualExclusion'
  BY <1>1, <1>4 DEF IInv, MutualExclusion, Owns
<1>6. PcOK'
  BY <1>1 DEF IInv, PcOK, schedVars
<1>7. FamilyOK'
  BY <1>1, <1>4, FamilyFrame DEF IInv, schedVars
<1> QED
  BY <1>2, <1>3, <1>5, <1>6, <1>7 DEF IInv

LEMMA LockTryAcquireStep == \A l \in Lock : IInv /\ LockTryAcquire(l) => IInv'
<1> SUFFICES ASSUME NEW l \in Lock, IInv, LockTryAcquire(l) PROVE IInv'
  OBVIOUS
<1> USE ThreadsAssumption
<1>1. /\ l \in Sema /\ value[l] > 0
      /\ value' = [value EXCEPT ![l] = @ - 1]
      /\ pc' = [pc EXCEPT ![current] = AfterDown(l)]
      /\ arg' = [arg EXCEPT ![current] = l]
      /\ UNCHANGED <<schedVars, waiters, holder, child_list>>
      /\ pc[current] = "run"
  BY DEF LockTryAcquire, AfterDown, Sema
<1>2. sema_down(l)
  BY <1>1 DEF sema_down
<1> QED
  BY <1>1, <1>2, DownStep

LEMMA SemaDownStep ==
  ASSUME IInv
  PROVE  /\ \A s \in Semaphore : SemaDown(s) => IInv'
         /\ \A l \in Lock : LockAcquire(l) => IInv'
         /\ \A c \in Thread : ProcessWait(c) => IInv'
         /\ Resume => IInv'
<1> USE ThreadsAssumption
<1>1. ASSUME NEW s \in Semaphore, SemaDown(s) PROVE IInv'
  BY <1>1, DownStep DEF SemaDown, Sema
<1>2. ASSUME NEW l \in Lock, LockAcquire(l) PROVE IInv'
  BY <1>2, DownStep DEF LockAcquire, Sema
<1>3. ASSUME NEW c \in Thread, ProcessWait(c) PROVE IInv'
  BY <1>3, DownStep DEF ProcessWait, Sema
<1>4. ASSUME Resume PROVE IInv'
  <2>1. /\ arg[current] \in Sema /\ pc[current] = "sema_down"
        /\ sema_down(arg[current])
        /\ arg[current] \in Thread => arg[current] \in child_list[current]
    BY <1>4 DEF Resume, IInv, PcOK, FamilyOK, TypeOK
  <2> QED
    BY <2>1, DownStep
<1> QED
  BY <1>1, <1>2, <1>3, <1>4

-----------------------------------------------------------------------------
(* Thread life cycle.                                                      *)

LEMMA ThreadCreateStep == \A c \in Thread : IInv /\ ThreadCreate(c) => IInv'
<1> SUFFICES ASSUME NEW c \in Thread, IInv, ThreadCreate(c) PROVE IInv'
  OBVIOUS
<1> USE ThreadsAssumption
<1>1. /\ current \in Thread /\ status[current] = "RUNNING"
      /\ pc[current] = "run" /\ pc[c] = "gone" /\ status[c] = "NONE"
      /\ c # current /\ c # Idle /\ current # Idle /\ c \in Sema
      /\ status \in [Thread -> Status] /\ value \in [Sema -> Nat]
      /\ waiters \in [Sema -> Seq(Thread)] /\ pc \in [Thread -> PC]
      /\ child_list \in [Thread -> SUBSET Thread]
      /\ arg \in [Thread -> Sema \cup {NULL}]
  BY DEF ThreadCreate, IInv, TypeOK, OneRunning, PcOK, Sema
<1>2. /\ status' = [status EXCEPT ![c] = "BLOCKED"]
      /\ value' = [value EXCEPT ![c] = 0]
      /\ waiters' = [waiters EXCEPT ![c] = <<>>]
      /\ child_list' = [child_list EXCEPT ![c] = {}]
      /\ pc' = [pc EXCEPT ![current] = "create", ![c] = "start"]
      /\ arg' = [arg EXCEPT ![current] = c]
      /\ UNCHANGED <<current, ready_list, thread_ticks, holder>>
  BY DEF ThreadCreate
<1>3. \A t \in Thread : c \notin child_list[t]
  BY <1>1 DEF IInv, FamilyOK
<1>4. TypeOK'
  BY <1>1, <1>2 DEF IInv, TypeOK, PC, Status
<1>5. QueuesExact'
  <2>1. Ready' = Ready
    BY <1>1, <1>2 DEF Ready
  <2>2. \A s \in Sema : Sleepers(s)' = Sleepers(s)
    BY <1>1, <1>2 DEF Sleepers
  <2>3. Sleepers(c) = {}
    BY <1>1, <1>3 DEF Sleepers, IInv, FamilyOK
  <2>4. Lists(waiters'[c], Sleepers(c)')
    BY <1>1, <1>2, <2>2, <2>3, ListsEmpty DEF IInv, QueuesExact
  <2> QED
    BY <1>1, <1>2, <2>1, <2>2, <2>4 DEF IInv, QueuesExact
<1>6. OneRunning'
  BY <1>1, <1>2 DEF IInv, OneRunning
<1>7. MutualExclusion'
  <2>1. \A t \in Thread, l \in Lock : Owns(t, l)' <=> Owns(t, l)
    BY <1>1, <1>2 DEF Owns
  <2>2. \A l \in Lock : value'[l] = value[l]
    BY <1>1, <1>2 DEF Sema
  <2> QED
    BY <2>1, <2>2 DEF IInv, MutualExclusion
<1>8. PcOK'
  <2>1. \A t \in Thread : pc[t] = "create" => arg[t] \in Thread \ {c, current}
    BY <1>1 DEF IInv, PcOK
  <2>2. \A u \in Thread : c \notin child_list'[u]
    BY <1>1, <1>2, <1>3
  <2>3. ASSUME NEW t \in Thread
        PROVE  /\ t \notin {c, current} =>
                    pc'[t] = pc[t] /\ status'[t] = status[t] /\ arg'[t] = arg[t]
               /\ pc'[c] = "start" /\ status'[c] = "BLOCKED" /\ arg'[c] = arg[c]
               /\ pc'[current] = "create" /\ status'[current] = "RUNNING"
               /\ arg'[current] = c
               /\ child_list'[t] \subseteq child_list[t]
    BY <1>1, <1>2
  <2>c. PcOK
    BY DEF IInv
  <2>o. c # current /\ c # Idle /\ current # Idle
    BY <1>1
  <2>4. pc'[Idle] = "idle"
    <3>1. Idle \in Thread
      OBVIOUS
    <3> QED
      BY <3>1, <2>c, <2>o, <2>3 DEF PcOK
  <2>5. ASSUME NEW t \in Thread
        PROVE  /\ pc'[t] = "idle" => t = Idle
               /\ pc'[t] = "gone" <=> status'[t] \in {"NONE", "DYING"}
               /\ status'[t] = "BLOCKED" => pc'[t] \in {"start", "sema_down", "idle"}
               /\ pc'[t] = "sema_down" => arg'[t] \in Sema
               /\ pc'[t] \in {"set_holder", "release"} => arg'[t] \in Lock
               /\ pc'[t] \in {"create", "reap"} => arg'[t] \in Thread
    <3>1. CASE t = c
      BY <3>1, <2>3
    <3>2. CASE t = current
      BY <3>2, <2>3
    <3>3. CASE t \notin {c, current}
      <4>1. pc'[t] = pc[t] /\ status'[t] = status[t] /\ arg'[t] = arg[t]
        BY <3>3, <2>3
      <4> QED
        BY <4>1, <2>c DEF PcOK
    <3> QED
      BY <3>1, <3>2, <3>3
  <2>6. ASSUME NEW t \in Thread
        PROVE  /\ pc'[t] \in {"start", "gone", "idle"} => \A l \in Lock : holder'[l] # t
               /\ pc'[t] = "release" => holder'[arg'[t]] # t
    <3>0. holder' = holder
      BY <1>2
    <3>1. CASE t = c
      <4>1. pc[c] = "gone"
        BY <1>1
      <4>2. \A l \in Lock : holder[l] # c
        BY <4>1, <2>c DEF PcOK
      <4> QED
        BY <3>0, <3>1, <4>2, <2>3
    <3>2. CASE t = current
      BY <3>2, <2>3
    <3>3. CASE t \notin {c, current}
      <4>1. pc'[t] = pc[t] /\ arg'[t] = arg[t]
        BY <3>3, <2>3
      <4> QED
        BY <3>0, <4>1, <2>c DEF PcOK
    <3> QED
      BY <3>1, <3>2, <3>3
  <2>7. ASSUME NEW t \in Thread, pc'[t] = "create"
        PROVE  /\ status'[arg'[t]] = "BLOCKED" /\ pc'[arg'[t]] = "start"
               /\ \A u \in Thread : arg'[t] \notin child_list'[u]
               /\ \A u \in Thread : pc'[u] = "create" /\ arg'[u] = arg'[t] => u = t
    <3>1. CASE t = current
      <4>1. arg'[t] = c /\ status'[c] = "BLOCKED" /\ pc'[c] = "start"
        BY <3>1, <2>3
      <4>2. ASSUME NEW u \in Thread, pc'[u] = "create", arg'[u] = c
            PROVE  u = current
        <5>1. u # c
          BY <4>2, <2>3
        <5>2. CASE u # current
          <6>1. pc[u] = "create" /\ arg[u] = c
            BY <5>1, <5>2, <4>2, <2>3
          <6> QED
            BY <6>1, <2>1
        <5> QED
          BY <5>2
      <4> QED
        BY <4>1, <4>2, <3>1, <2>2
    <3>2. CASE t # current
      <4>1. t # c /\ pc[t] = "create" /\ arg'[t] = arg[t]
            /\ arg[t] \in Thread \ {c, current}
        BY <3>2, <1>1, <2>1, <2>3, <2>7
      <4>2. pc[current] = "run" /\ pc[c] = "gone"
        BY <1>1
      <4>3. /\ status[arg[t]] = "BLOCKED" /\ pc[arg[t]] = "start"
            /\ \A u \in Thread : arg[t] \notin child_list[u]
            /\ \A u \in Thread : pc[u] = "create" /\ arg[u] = arg[t] => u = t
        BY <4>1, <2>c DEF PcOK
      <4>4. status'[arg[t]] = "BLOCKED" /\ pc'[arg[t]] = "start"
        BY <4>1, <4>3, <2>3
      <4>5. \A u \in Thread : arg'[t] \notin child_list'[u]
        BY <4>1, <4>3, <2>3
      <4>6. ASSUME NEW u \in Thread, pc'[u] = "create", arg'[u] = arg'[t]
            PROVE  u = t
        <5>1. u \notin {c, current}
          BY <4>1, <4>6, <2>3
        <5> QED
          BY <5>1, <4>1, <4>3, <4>6, <2>3
      <4> QED
        BY <4>1, <4>4, <4>5, <4>6
    <3> QED
      BY <3>1, <3>2
  <2> QED
    BY <2>4, <2>5, <2>6, <2>7 DEF PcOK
<1>9. FamilyOK'
  <2>1. \A t \in Thread : child_list'[t] \subseteq child_list[t]
    BY <1>1, <1>2
  <2>2. \A t \in Thread : \A d \in child_list'[t] :
          /\ status'[d] # "NONE"
          /\ \A u \in Thread : d \in child_list'[u] => u = t
    BY <1>1, <1>2, <2>1 DEF IInv, FamilyOK
  <2>3. \A t \in Thread : pc'[t] \in {"sema_down", "reap"} =>
          /\ t \notin {c, current} /\ pc[t] = pc'[t] /\ arg'[t] = arg[t]
          /\ child_list'[t] = child_list[t]
    BY <1>1, <1>2
  <2>4. \A t \in Thread : pc'[t] = "reap" => status'[arg'[t]] = "DYING"
    BY <1>1, <1>2, <2>3 DEF IInv, FamilyOK, PcOK
  <2>5. \A d \in Thread : value'[d] > 0 => status'[d] \in {"NONE", "DYING"}
    BY <1>1, <1>2 DEF IInv, FamilyOK, Sema
  <2> QED
    BY <2>2, <2>3, <2>4, <2>5 DEF IInv, FamilyOK
<1> QED
  BY <1>4, <1>5, <1>6, <1>7, <1>8, <1>9 DEF IInv

LEMMA ThreadCreateUnblockStep == IInv /\ ThreadCreateUnblock => IInv'
<1> SUFFICES ASSUME IInv, ThreadCreateUnblock PROVE IInv'
  OBVIOUS
<1> USE ThreadsAssumption
<1> PICK c \in Thread : c = arg[current]
  BY DEF ThreadCreateUnblock, IInv, PcOK, TypeOK
<1>1. /\ current \in Thread /\ status[current] = "RUNNING"
      /\ pc[current] = "create" /\ pc[c] = "start" /\ status[c] = "BLOCKED"
      /\ c # current /\ c # Idle /\ current # Idle
      /\ \A u \in Thread : c \notin child_list[u]
      /\ \A u \in Thread : pc[u] = "create" /\ arg[u] = c => u = current
      /\ status \in [Thread -> Status] /\ pc \in [Thread -> PC]
      /\ child_list \in [Thread -> SUBSET Thread]
      /\ ready_list \in Seq(Thread) /\ Lists(ready_list, Ready)
  BY DEF ThreadCreateUnblock, IInv, TypeOK, OneRunning, PcOK, QueuesExact
<1>2. /\ status' = [status EXCEPT ![c] = "READY"]
      /\ ready_list' = Append(ready_list, c)
      /\ child_list' = [child_list EXCEPT ![current] = @ \cup {c}]
      /\ pc' = [pc EXCEPT ![current] = "run"]
      /\ UNCHANGED <<current, thread_ticks, syncVars, arg>>
  BY DEF ThreadCreateUnblock
<1>3. ready_list' \in Seq(Thread) /\ Lists(ready_list', Ready')
  <2>1. Ready' = Ready \cup {c} /\ c \notin Ready
    BY <1>1, <1>2 DEF Ready
  <2> QED
    BY <1>1, <1>2, <2>1, ListsAppend
<1>4. TypeOK'
  BY <1>1, <1>2, <1>3 DEF IInv, TypeOK, PC, Status, syncVars
<1>5. QueuesExact'
  <2>1. \A s \in Sema : Sleepers(s)' = Sleepers(s)
    BY <1>1, <1>2 DEF Sleepers
  <2> QED
    BY <1>2, <1>3, <2>1 DEF IInv, QueuesExact, syncVars
<1>6. OneRunning'
  BY <1>1, <1>2 DEF IInv, OneRunning
<1>7. MutualExclusion'
  <2>1. \A t \in Thread, l \in Lock : Owns(t, l)' <=> Owns(t, l)
    BY <1>1, <1>2 DEF Owns, syncVars
  <2> QED
    BY <1>2, <2>1 DEF IInv, MutualExclusion, syncVars
<1>8. PcOK'
  <2>1. \A t \in Thread : pc'[t] = "create" =>
          /\ pc[t] = "create" /\ arg[t] \in Thread \ {c, current}
          /\ \A u \in Thread : arg[t] \notin child_list'[u]
    BY <1>1, <1>2 DEF IInv, PcOK
  <2> QED
    BY <1>1, <1>2, <2>1 DEF IInv, PcOK, syncVars
<1>9. FamilyOK'
  <2>1. \A t \in Thread : \A d \in child_list'[t] :
          /\ status'[d] # "NONE"
          /\ \A u \in Thread : d \in child_list'[u] => u = t
    BY <1>1, <1>2 DEF IInv, FamilyOK
  <2>2. \A t \in Thread : pc'[t] \in {"sema_down", "reap"} /\ arg'[t] \in Thread
          => arg'[t] \in child_list'[t]
    BY <1>1, <1>2 DEF IInv, FamilyOK
  <2>3. \A t \in Thread : pc'[t] = "reap" => status'[arg'[t]] = "DYING"
    BY <1>1, <1>2 DEF IInv, FamilyOK, PcOK
  <2>4. \A d \in Thread : value'[d] > 0 => status'[d] \in {"NONE", "DYING"}
    BY <1>1, <1>2 DEF IInv, FamilyOK, syncVars
  <2> QED
    BY <2>1, <2>2, <2>3, <2>4 DEF FamilyOK
<1> QED
  BY <1>4, <1>5, <1>6, <1>7, <1>8, <1>9 DEF IInv

LEMMA ReapStep == IInv /\ Reap => IInv'
<1> SUFFICES ASSUME IInv, Reap PROVE IInv'
  OBVIOUS
<1> USE ThreadsAssumption
<1> PICK c \in Thread : c = arg[current]
  BY DEF Reap, IInv, PcOK, TypeOK
<1>1. /\ current \in Thread /\ status[current] = "RUNNING"
      /\ pc[current] = "reap" /\ pc[c] = "gone" /\ status[c] = "DYING"
      /\ c # current /\ c # Idle /\ current # Idle
      /\ c \in child_list[current]
      /\ \A u \in Thread : c \in child_list[u] => u = current
      /\ status \in [Thread -> Status] /\ pc \in [Thread -> PC]
      /\ child_list \in [Thread -> SUBSET Thread]
  BY DEF Reap, IInv, TypeOK, OneRunning, PcOK, FamilyOK
<1>2. /\ status' = [status EXCEPT ![c] = "NONE"]
      /\ child_list' = [child_list EXCEPT ![current] = @ \ {c}]
      /\ pc' = [pc EXCEPT ![current] = "run"]
      /\ UNCHANGED <<current, ready_list, thread_ticks, syncVars, arg>>
  BY DEF Reap
<1>4. TypeOK'
  BY <1>1, <1>2 DEF IInv, TypeOK, PC, Status, syncVars
<1>5. QueuesExact'
  <2>1. Ready' = Ready /\ \A s \in Sema : Sleepers(s)' = Sleepers(s)
    BY <1>1, <1>2 DEF Ready, Sleepers
  <2> QED
    BY <1>2, <2>1 DEF IInv, QueuesExact, syncVars
<1>6. OneRunning'
  BY <1>1, <1>2 DEF IInv, OneRunning
<1>7. MutualExclusion'
  <2>1. \A t \in Thread, l \in Lock : Owns(t, l)' <=> Owns(t, l)
    BY <1>1, <1>2 DEF Owns, syncVars
  <2> QED
    BY <1>2, <2>1 DEF IInv, MutualExclusion, syncVars
<1>8. PcOK'
  <2>1. \A t \in Thread : pc'[t] = "create" =>
          /\ pc[t] = "create" /\ arg[t] \in Thread \ {c, current}
          /\ \A u \in Thread : arg[t] \notin child_list'[u]
    BY <1>1, <1>2 DEF IInv, PcOK
  <2> QED
    BY <1>1, <1>2, <2>1 DEF IInv, PcOK, syncVars
<1>9. FamilyOK'
  <2>1. \A t \in Thread : \A d \in child_list'[t] :
          /\ status'[d] # "NONE"
          /\ \A u \in Thread : d \in child_list'[u] => u = t
    BY <1>1, <1>2 DEF IInv, FamilyOK
  <2>2. \A t \in Thread : pc'[t] \in {"sema_down", "reap"} /\ arg'[t] \in Thread
          => /\ arg'[t] \in child_list'[t] /\ arg'[t] # c /\ t # current
    BY <1>1, <1>2 DEF IInv, FamilyOK
  <2>3. \A t \in Thread : pc'[t] = "reap" => status'[arg'[t]] = "DYING"
    BY <1>1, <1>2, <2>2 DEF IInv, FamilyOK, PcOK
  <2>4. \A d \in Thread : value'[d] > 0 => status'[d] \in {"NONE", "DYING"}
    BY <1>1, <1>2 DEF IInv, FamilyOK, syncVars
  <2> QED
    BY <2>1, <2>2, <2>3, <2>4 DEF FamilyOK
<1> QED
  BY <1>4, <1>5, <1>6, <1>7, <1>8, <1>9 DEF IInv

LEMMA ThreadExitStep == IInv /\ ThreadExit => IInv'
<1> SUFFICES ASSUME IInv, ThreadExit PROVE IInv'
  OBVIOUS
<1> USE ThreadsAssumption
<1> PICK me \in Thread : me = current
  BY DEF IInv, TypeOK
<1> DEFINE st == [status EXCEPT ![me] = "DYING"]
           w  == Woken(me, st)
           q  == IF waiters[me] = <<>> THEN waiters[me]
                 ELSE Tail(waiters[me])
<1>1. /\ current \in Thread /\ status[current] = "RUNNING"
      /\ pc[current] = "run" /\ current # Idle /\ me \in Sema
      /\ status \in [Thread -> Status] /\ pc \in [Thread -> PC]
      /\ waiters \in [Sema -> Seq(Thread)] /\ value \in [Sema -> Nat]
      /\ \A t \in Thread : status[t] = "RUNNING" => t = current
      /\ \A l \in Lock : holder[l] # current
      /\ TypeOK /\ QueuesExact /\ PcOK /\ OneRunning
  BY DEF ThreadExit, IInv, TypeOK, OneRunning, PcOK, Sema
<1>2. /\ st \in [Thread -> Status]
      /\ \A t \in Thread : st[t] = IF t = current THEN "DYING" ELSE status[t]
  BY <1>1 DEF Status
<1>3. /\ waiters' = [waiters EXCEPT ![me] = q]
      /\ value' = [value EXCEPT ![me] = @ + 1]
      /\ schedule(w.status, w.ready_list)
      /\ pc' = [pc EXCEPT ![me] = "gone"]
      /\ UNCHANGED <<holder, child_list, arg>>
  BY DEF ThreadExit, sema_up
<1>4. /\ w.status \in [Thread -> Status]
      /\ w.ready_list \in Seq(Thread)
      /\ Lists(w.ready_list, {t \in Thread \ {Idle} : w.status[t] = "READY"})
      /\ q \in Seq(Thread)
      /\ Lists(q, {t \in Sleepers(me) : w.status[t] = "BLOCKED"})
      /\ \A t \in Thread : (w.status[t] = st[t])
                            \/ (w.status[t] = "READY" /\ t \in Sleepers(me))
  BY <1>1, <1>2, WokenStep
<1> HIDE DEF st, w, q
<1>5. \A t \in Sleepers(me) : t # Idle /\ t # me /\ st[t] = "BLOCKED"
  BY <1>1, <1>2 DEF Sleepers, PcOK
<1>6. \A t \in Thread : w.status[t] # "RUNNING"
  BY <1>1, <1>2, <1>4
<1>7. /\ status' \in [Thread -> Status] /\ current' \in Thread
      /\ ready_list' \in Seq(Thread) /\ thread_ticks' \in 0 .. TIME_SLICE - 1
      /\ Lists(ready_list', Ready') /\ OneRunning'
      /\ current' # Idle => w.status[current'] = "READY"
      /\ status' = [w.status EXCEPT ![current'] = "RUNNING"]
  BY <1>3, <1>4, <1>6, ScheduleStep
<1>8. /\ status'[me] = "DYING"
      /\ \A t \in Thread \ {Idle, me} :
           \/ status'[t] = status[t]
           \/ status[t] = "READY" /\ status'[t] = "RUNNING"
           \/ t \in Sleepers(me) /\ status'[t] \in {"READY", "RUNNING"}
      /\ status'[Idle] \in {status[Idle], "RUNNING"}
      /\ status[Idle] \notin {"NONE", "DYING"}
  BY <1>1, <1>2, <1>4, <1>5, <1>7 DEF PcOK
<1>9. \A t \in Thread :
        /\ status'[t] = "NONE" <=> status[t] = "NONE"
        /\ t # me => (status'[t] = "DYING" <=> status[t] = "DYING")
        /\ t \notin {Idle, me} /\ t \notin Sleepers(me)
             => (status'[t] = "BLOCKED" <=> status[t] = "BLOCKED")
  BY <1>1, <1>8 DEF Sleepers
<1>10. TypeOK'
  BY <1>1, <1>3, <1>4, <1>7 DEF TypeOK, PC
<1>11. QueuesExact'
  <2>1. \A t \in Sleepers(me) : w.status[t] = "BLOCKED" <=> status'[t] = "BLOCKED"
    BY <1>4, <1>5, <1>7 DEF Sleepers
  <2>2. \A t \in Thread : t # me => pc'[t] = pc[t] /\ arg'[t] = arg[t]
    BY <1>1, <1>3
  <2>3. pc'[me] = "gone"
    BY <1>1, <1>3
  <2>4. Sleepers(me)' = {t \in Sleepers(me) : w.status[t] = "BLOCKED"}
    <3>1. \A t \in Thread : t \in Sleepers(me) =>
            pc'[t] = "sema_down" /\ arg'[t] = me
      BY <1>5, <2>2 DEF Sleepers
    <3>2. \A t \in Thread : pc'[t] = "sema_down" /\ arg'[t] = me
                             /\ status'[t] = "BLOCKED" => t \in Sleepers(me)
      BY <1>1, <1>8, <1>9, <2>2, <2>3 DEF Sleepers, PcOK
    <3> QED
      BY <2>1, <3>1, <3>2 DEF Sleepers
  <2>5. ASSUME NEW r \in Sema, r # me
        PROVE  Sleepers(r)' = Sleepers(r) /\ waiters'[r] = waiters[r]
    <3>1. \A t \in Thread : t \in Sleepers(r) =>
            /\ t # Idle /\ t # me /\ t \notin Sleepers(me)
      BY <1>1, <2>5 DEF Sleepers, PcOK
    <3>2. \A t \in Thread : t \in Sleepers(r) => status'[t] = "BLOCKED"
      BY <1>9, <3>1 DEF Sleepers
    <3>3. \A t \in Thread : pc'[t] = "sema_down" /\ arg'[t] = r
                             /\ status'[t] = "BLOCKED" => t \in Sleepers(r)
      BY <1>1, <1>8, <1>9, <2>2, <2>3, <2>5 DEF Sleepers, PcOK
    <3>4. waiters'[r] = waiters[r]
      BY <1>1, <1>3, <2>5
    <3> QED
      BY <2>2, <3>1, <3>2, <3>3, <3>4 DEF Sleepers
  <2>6. Lists(waiters'[me], Sleepers(me)')
    BY <1>1, <1>3, <1>4, <2>4
  <2> QED
    BY <1>1, <1>7, <2>5, <2>6 DEF QueuesExact
<1>12. MutualExclusion'
  <2>1. \A t \in Thread, l \in Lock : Owns(t, l)' <=> Owns(t, l)
    BY <1>1, <1>3 DEF Owns
  <2>2. \A l \in Lock : value'[l] = value[l]
    BY <1>1, <1>3 DEF Sema
  <2> QED
    BY <2>1, <2>2 DEF IInv, MutualExclusion
<1>13. PcOK'
  <2>1. \A t \in Thread : pc'[t] = IF t = me THEN "gone" ELSE pc[t]
    BY <1>1, <1>3
  <2>2. \A t \in Thread : pc[t] = "create" =>
          /\ arg[t] \in Thread /\ arg[t] \notin {me, Idle}
          /\ arg[t] \notin Sleepers(me) /\ status'[arg[t]] = "BLOCKED"
    BY <1>1, <1>9 DEF PcOK, Sleepers
  <2>3. \A t \in Thread : t # me =>
          /\ status'[t] \in {"NONE", "DYING"} <=> status[t] \in {"NONE", "DYING"}
          /\ status'[t] = "BLOCKED" => status[t] = "BLOCKED"
    BY <1>8, <1>9 DEF Sleepers
  <2> QED
    BY <1>1, <1>3, <1>8, <2>1, <2>2, <2>3 DEF PcOK
<1>14. FamilyOK'
  <2>1. \A t \in Thread : pc'[t] = IF t = me THEN "gone" ELSE pc[t]
    BY <1>1, <1>3
  <2>2. \A c \in Thread : value'[c] > 0 => value[c] > 0 \/ status'[c] = "DYING"
    BY <1>1, <1>3, <1>8 DEF Sema
  <2>3. \A t \in Thread : status[t] = "DYING" => status'[t] = "DYING"
    BY <1>1, <1>9
  <2> QED
    BY <1>1, <1>3, <1>9, <2>1, <2>2, <2>3, FamilyFrame DEF IInv
<1> QED
  BY <1>7, <1>10, <1>11, <1>12, <1>13, <1>14 DEF IInv

-----------------------------------------------------------------------------
(* The theorems.                                                           *)

LEMMA IInvInit == Init => IInv
<1> SUFFICES ASSUME Init PROVE IInv
  OBVIOUS
<1> USE ThreadsAssumption DEF Init
<1>1. TypeOK
  BY DEF TypeOK, Status, PC, Sema
<1>2. QueuesExact
  <2>1. Ready = {} /\ \A s \in Sema : Sleepers(s) = {}
    BY DEF Ready, Sleepers
  <2>2. Lists(<<>>, {})
    BY DEF Lists, Range, IsInjective
  <2> QED
    BY <2>1, <2>2 DEF QueuesExact
<1>3. OneRunning /\ PcOK /\ FamilyOK
  BY DEF OneRunning, PcOK, FamilyOK, Sema
<1>4. MutualExclusion
  <2>1. \A t \in Thread, l \in Lock : ~Owns(t, l)
    BY DEF Owns, Sema
  <2> QED
    BY <2>1 DEF MutualExclusion, Sema
<1> QED
  BY <1>1, <1>2, <1>3, <1>4 DEF IInv

LEMMA IInvNext == IInv /\ [Next]_vars => IInv'
<1> SUFFICES ASSUME IInv, [Next]_vars PROVE IInv'
  OBVIOUS
<1>1. CASE Yield
  BY <1>1, YieldStep DEF Yield
<1>2. CASE TimerTick \/ IdleBlock
  BY <1>2, TimerTickStep, IdleBlockStep
<1>3. CASE \E s \in Semaphore : SemaDown(s) \/ SemaTryDown(s) \/ SemaUp(s)
  BY <1>3, SemaDownStep, TryDownStep, SemaUpStep
<1>4. CASE Resume
  BY <1>4, SemaDownStep
<1>5. CASE \E l \in Lock : LockAcquire(l) \/ LockTryAcquire(l) \/ LockRelease(l)
  BY <1>5, SemaDownStep, LockTryAcquireStep, LockReleaseStep
<1>6. CASE SetHolder \/ LockReleaseUp
  BY <1>6, SetHolderStep, LockReleaseUpStep
<1>7. CASE \E c \in Thread : ThreadCreate(c) \/ ProcessWait(c)
  BY <1>7, SemaDownStep, ThreadCreateStep
<1>8. CASE ThreadCreateUnblock \/ KernelThread
  BY <1>8, ThreadCreateUnblockStep, KernelThreadStep
<1>9. CASE ThreadExit \/ Reap
  BY <1>9, ThreadExitStep, ReapStep
<1>10. CASE UNCHANGED vars
  BY <1>10 DEF vars, schedVars, syncVars, IInv, TypeOK, QueuesExact, OneRunning,
     MutualExclusion, PcOK, FamilyOK, Ready, Sleepers, Owns
<1> QED
  BY <1>1, <1>2, <1>3, <1>4, <1>5, <1>6, <1>7, <1>8, <1>9, <1>10 DEF Next

(* IInv is an invariant of the scheduler and its synchronization.          *)
THEOREM Invariance == Spec => []IInv
BY IInvInit, IInvNext, PTL DEF Spec

(* Types hold, for any threads, semaphores, locks and time slice.          *)
THEOREM TypeCorrectness == Spec => []TypeOK
<1>1. IInv => TypeOK
  BY DEF IInv
<1> QED
  BY <1>1, Invariance, PTL

(* The run queue and the waiters lists are exact: no thread is lost by     *)
(* them, listed twice, or in two of them (thread.h:83).                    *)
THEOREM QueuesAreExact == Spec => [](QueuesExact /\ OneRunning)
<1>1. IInv => QueuesExact /\ OneRunning
  BY DEF IInv
<1> QED
  BY <1>1, Invariance, PTL

(* A lock has at most one owner, and is taken exactly while it has one     *)
(* (synch.c:160).                                                          *)
THEOREM LocksExclude == Spec => []MutualExclusion
<1>1. IInv => MutualExclusion
  BY DEF IInv
<1> QED
  BY <1>1, Invariance, PTL

(* process_wait() frees the page of a thread only when that thread has     *)
(* ended, runs no more and is waited for by nobody.                        *)
THEOREM ReapingIsSafe == Spec => []ReapSafe
<1>1. IInv => ReapSafe
  <2> SUFFICES ASSUME IInv, NEW t \in Thread, pc[t] = "reap"
               PROVE  /\ status[arg[t]] = "DYING" /\ arg[t] # current
                      /\ waiters[arg[t]] = <<>>
                      /\ arg[t] \in child_list[t]
                      /\ \A u \in Thread \ {t} : arg[t] \notin child_list[u]
    BY DEF ReapSafe
  <2>1. /\ arg[t] \in Thread /\ arg[t] \in Sema
        /\ status[arg[t]] = "DYING" /\ arg[t] # current
        /\ arg[t] \in child_list[t]
        /\ \A u \in Thread : arg[t] \in child_list[u] => u = t
    BY DEF IInv, PcOK, FamilyOK, OneRunning, Sema
  <2>2. Sleepers(arg[t]) = {}
    BY <2>1 DEF Sleepers, IInv, FamilyOK
  <2>3. waiters[arg[t]] = <<>>
    BY <2>1, <2>2, ListsEmpty DEF IInv, TypeOK, QueuesExact
  <2> QED
    BY <2>1, <2>3
<1> QED
  BY <1>1, Invariance, PTL

-----------------------------------------------------------------------------
(* Wakeups.  The threads woken for s and not yet back are those inside     *)
(* sema_down(s) that its waiters no longer list.                           *)

Downing(s) == {t \in Thread : pc[t] = "sema_down" /\ arg[t] = s}

LEMMA TransitIs ==
  ASSUME IInv, IInv', NEW s \in Sema
  PROVE  /\ InTransit(s) = Downing(s) \ Range(waiters[s])
         /\ InTransit(s)' = Downing(s)' \ Range(waiters'[s])
         /\ Range(waiters[s]) \subseteq Downing(s)
         /\ IsFiniteSet(InTransit(s)) /\ Cardinality(InTransit(s)) \in Nat
         /\ IsFiniteSet(InTransit(s)') /\ Cardinality(InTransit(s)') \in Nat
<1>1. /\ Range(waiters[s]) = Sleepers(s)
      /\ Range(waiters'[s]) = Sleepers(s)'
  BY DEF IInv, QueuesExact, Lists
<1>2. ASSUME NEW t \in Thread, pc[t] = "sema_down"
      PROVE  status[t] \in {"READY", "RUNNING", "BLOCKED"}
  <2>1. status[t] \in Status /\ status[t] \notin {"NONE", "DYING"}
    BY <1>2 DEF IInv, PcOK, TypeOK
  <2> QED
    BY <2>1 DEF Status
<1>3. ASSUME NEW t \in Thread, pc'[t] = "sema_down"
      PROVE  status'[t] \in {"READY", "RUNNING", "BLOCKED"}
  <2>1. status'[t] \in Status /\ status'[t] \notin {"NONE", "DYING"}
    BY <1>3 DEF IInv, PcOK, TypeOK
  <2> QED
    BY <2>1 DEF Status
<1>4. InTransit(s) = Downing(s) \ Range(waiters[s])
  BY <1>1, <1>2 DEF InTransit, Sleepers, Downing
<1>5. InTransit(s)' = Downing(s)' \ Range(waiters'[s])
  BY <1>1, <1>3 DEF InTransit, Sleepers, Downing
<1>6. /\ InTransit(s) \in SUBSET Thread /\ InTransit(s)' \in SUBSET Thread
      /\ Range(waiters[s]) \subseteq Downing(s)
  BY <1>1 DEF InTransit, Sleepers, Downing
<1> QED
  BY <1>4, <1>5, <1>6, ThreadsAssumption, FS_Subset, FS_CardinalityType

(* A semaphore whose waiters stay and whose value does not grow.           *)
LEMMA WakeupFrame ==
  ASSUME IInv, IInv', NoLostWakeup, NEW s \in Sema,
         waiters'[s] = waiters[s], value'[s] <= value[s],
         Downing(s)' = Downing(s), waiters'[s] # <<>>
  PROVE  value'[s] <= Cardinality(InTransit(s)')
<1>1. InTransit(s)' = InTransit(s) /\ Cardinality(InTransit(s)) \in Nat
  BY TransitIs
<1>2. value[s] <= Cardinality(InTransit(s))
  BY DEF NoLostWakeup
<1>3. value[s] \in Nat /\ value'[s] \in Nat
  BY DEF IInv, TypeOK
<1> QED
  BY <1>1, <1>2, <1>3

(* The running thread downs s: it sleeps when the value is 0, and when it  *)
(* takes a unit it leaves the set of those in transit, if it was there.    *)
LEMMA WakeupDown ==
  ASSUME IInv, IInv', NoLostWakeup, NEW s \in Sema, sema_down(s),
         pc[current] # "sema_down" \/ arg[current] = s
  PROVE  NoLostWakeup'
<1> USE ThreadsAssumption
<1>1. /\ current \in Thread /\ value \in [Sema -> Nat]
      /\ waiters \in [Sema -> Seq(Thread)]
      /\ pc \in [Thread -> PC] /\ arg \in [Thread -> Sema \cup {NULL}]
      /\ status[current] = "RUNNING"
  BY DEF IInv, TypeOK, OneRunning
<1>2. AfterDown(s) # "sema_down"
  BY DEF AfterDown
<1>3. arg' = [arg EXCEPT ![current] = s]
  BY DEF sema_down
<1>4. ASSUME NEW r \in Sema, r # s
      PROVE  /\ waiters'[r] = waiters[r] /\ value'[r] = value[r]
             /\ Downing(r)' = Downing(r)
  BY <1>1, <1>2, <1>3, <1>4 DEF sema_down, Downing
<1>5. ASSUME waiters'[s] # <<>>
      PROVE  value'[s] <= Cardinality(InTransit(s)')
  <2>1. CASE value[s] = 0
    BY <1>1, <2>1, TransitIs DEF sema_down
  <2>2. CASE value[s] # 0
    <3>1. /\ value'[s] = value[s] - 1 /\ waiters' = waiters
          /\ pc' = [pc EXCEPT ![current] = AfterDown(s)]
      BY <1>1, <2>2 DEF sema_down
    <3>2. Downing(s)' = Downing(s) \ {current}
      BY <1>1, <1>2, <1>3, <3>1 DEF Downing
    <3>3. InTransit(s)' = InTransit(s) \ {current}
      <4>1. /\ InTransit(s) = Downing(s) \ Range(waiters[s])
            /\ InTransit(s)' = Downing(s)' \ Range(waiters'[s])
        BY TransitIs
      <4> QED
        BY <3>1, <3>2, <4>1
    <3>4. Cardinality(InTransit(s)') >= Cardinality(InTransit(s)) - 1
      <4>1. IsFiniteSet(InTransit(s)) /\ Cardinality(InTransit(s)) \in Nat
        BY TransitIs
      <4>2. Cardinality(InTransit(s) \ {current})
              \in {Cardinality(InTransit(s)), Cardinality(InTransit(s)) - 1}
        BY <4>1, FS_RemoveElement
      <4> QED
        BY <3>3, <4>1, <4>2
    <3>5. value[s] <= Cardinality(InTransit(s))
      BY <1>5, <3>1 DEF NoLostWakeup
    <3> QED
      BY <1>1, <3>1, <3>4, <3>5, TransitIs
  <2> QED
    BY <2>1, <2>2
<1> QED
  BY <1>1, <1>4, <1>5, WakeupFrame DEF NoLostWakeup

(* sema_up(s) while a thread sleeps on s adds a unit and puts the thread   *)
(* that will recheck it in transit.                                        *)
LEMMA WakeupUp ==
  ASSUME IInv, IInv', NoLostWakeup, NEW s \in Sema, sema_up(s),
         \A r \in Sema : Downing(r)' = Downing(r)
  PROVE  NoLostWakeup'
<1>1. value \in [Sema -> Nat] /\ waiters \in [Sema -> Seq(Thread)]
  BY DEF IInv, TypeOK
<1>2. ASSUME NEW r \in Sema, r # s
      PROVE  waiters'[r] = waiters[r] /\ value'[r] = value[r]
  BY <1>1, <1>2 DEF sema_up
<1>3. ASSUME waiters'[s] # <<>>
      PROVE  value'[s] <= Cardinality(InTransit(s)')
  <2>1. /\ waiters[s] # <<>> /\ waiters'[s] = Tail(waiters[s])
        /\ value'[s] = value[s] + 1
    BY <1>1, <1>3 DEF sema_up
  <2>2. Lists(waiters[s], Range(waiters[s]))
    BY DEF IInv, QueuesExact, Lists
  <2>3. /\ Head(waiters[s]) \in Range(waiters[s])
        /\ Range(waiters'[s]) = Range(waiters[s]) \ {Head(waiters[s])}
    BY <1>1, <2>1, <2>2, ListsTail DEF Lists
  <2>4. /\ InTransit(s)' = InTransit(s) \cup {Head(waiters[s])}
        /\ Head(waiters[s]) \notin InTransit(s)
    BY <2>3, TransitIs
  <2>5. Cardinality(InTransit(s)') = Cardinality(InTransit(s)) + 1
    BY <2>4, TransitIs, FS_AddElement
  <2>6. value[s] <= Cardinality(InTransit(s))
    BY <2>1 DEF NoLostWakeup
  <2> QED
    BY <1>1, <2>1, <2>5, <2>6, TransitIs
<1> QED
  BY <1>1, <1>2, <1>3, WakeupFrame DEF NoLostWakeup

(* No wakeup is lost: while threads sleep on a semaphore, each unit of its *)
(* value belongs to a thread that was woken and has not rechecked it yet   *)
(* (synch.c:75, 122).                                                      *)
THEOREM WakeupsAreNotLost == Spec => []NoLostWakeup
<1>1. Init => NoLostWakeup
  BY DEF Init, NoLostWakeup
<1>2. IInv /\ IInv' /\ NoLostWakeup /\ [Next]_vars => NoLostWakeup'
  <2> SUFFICES ASSUME IInv, IInv', NoLostWakeup, [Next]_vars PROVE NoLostWakeup'
    OBVIOUS
  <2> USE ThreadsAssumption
  <2>1. /\ current \in Thread /\ value \in [Sema -> Nat]
        /\ waiters \in [Sema -> Seq(Thread)]
        /\ pc \in [Thread -> PC] /\ arg \in [Thread -> Sema \cup {NULL}]
    BY DEF IInv, TypeOK
  <2>2. ASSUME waiters' = waiters, \A s \in Sema : value'[s] <= value[s],
               \A s \in Sema : Downing(s)' = Downing(s)
        PROVE  NoLostWakeup'
    BY <2>2, WakeupFrame DEF NoLostWakeup
  <2>3. CASE Yield \/ TimerTick \/ IdleBlock \/ UNCHANGED vars
    BY <2>1, <2>2, <2>3
    DEF Yield, TimerTick, IdleBlock, vars, syncVars, Downing
  <2>4. CASE SetHolder \/ KernelThread \/ Reap \/ ThreadCreateUnblock
    BY <2>1, <2>2, <2>4
    DEF SetHolder, KernelThread, Reap, ThreadCreateUnblock, syncVars, Downing
  <2>5. CASE \E l \in Lock : LockRelease(l)
    BY <2>1, <2>2, <2>5 DEF LockRelease, Downing
  <2>6. CASE \E s \in Semaphore : SemaTryDown(s)
    BY <2>1, <2>2, <2>6 DEF SemaTryDown, Downing, Sema
  <2>7. CASE \E l \in Lock : LockTryAcquire(l)
    BY <2>1, <2>2, <2>7 DEF LockTryAcquire, Downing, Sema
  <2>8. CASE \E s \in Semaphore : SemaDown(s)
    BY <2>8, WakeupDown DEF SemaDown, Sema
  <2>9. CASE \E l \in Lock : LockAcquire(l)
    BY <2>9, WakeupDown DEF LockAcquire, Sema
  <2>10. CASE \E c \in Thread : ProcessWait(c)
    BY <2>10, WakeupDown DEF ProcessWait, Sema
  <2>11. CASE Resume
    <3>1. arg[current] \in Sema
      BY <2>1, <2>11 DEF Resume, IInv, PcOK
    <3> QED
      BY <2>11, <3>1, WakeupDown DEF Resume
  <2>12. CASE \E s \in Semaphore : SemaUp(s)
    BY <2>12, WakeupUp DEF SemaUp, Downing, Sema
  <2>13. CASE LockReleaseUp
    <3>1. arg[current] \in Sema /\ \A r \in Sema : Downing(r)' = Downing(r)
      BY <2>1, <2>13 DEF LockReleaseUp, IInv, PcOK, Sema, Downing
    <3> QED
      BY <2>13, <3>1, WakeupUp DEF LockReleaseUp
  <2>14. CASE ThreadExit
    <3>1. current \in Sema /\ \A r \in Sema : Downing(r)' = Downing(r)
      BY <2>1, <2>14 DEF ThreadExit, Sema, Downing
    <3> QED
      BY <2>14, <3>1, WakeupUp DEF ThreadExit
  <2>15. CASE \E c \in Thread : ThreadCreate(c)
    <3> SUFFICES ASSUME NEW c \in Thread, ThreadCreate(c) PROVE NoLostWakeup'
      BY <2>15
    <3>1. waiters'[c] = <<>>
      BY <2>1 DEF ThreadCreate, Sema
    <3>2. pc[c] = "gone" /\ pc[current] = "run"
      BY DEF ThreadCreate, IInv, PcOK
    <3>3. ASSUME NEW r \in Sema, r # c
          PROVE  /\ waiters'[r] = waiters[r] /\ value'[r] = value[r]
                 /\ Downing(r)' = Downing(r)
      BY <2>1, <3>2, <3>3 DEF ThreadCreate, Downing
    <3> QED
      BY <2>1, <3>1, <3>3, WakeupFrame DEF NoLostWakeup
  <2> QED
    BY <2>3, <2>4, <2>5, <2>6, <2>7, <2>8, <2>9, <2>10, <2>11, <2>12, <2>13,
       <2>14, <2>15 DEF Next
<1> QED
  BY <1>1, <1>2, Invariance, PTL DEF Spec

-----------------------------------------------------------------------------
(* Threads implements SyncSpec.                                            *)

Pending == [t \in Thread |-> IF pc[t] = "sema_down" THEN arg[t] ELSE NULL]

Owner == [l \in Lock |-> IF \E t \in Thread : Owns(t, l)
                         THEN CHOOSE t \in Thread : Owns(t, l) ELSE NULL]

LEMMA OwnerIsFunction ==
  /\ Owner = [l \in Lock |-> Owner[l]]
  /\ Owner' = [l \in Lock |-> Owner'[l]]
BY DEF Owner

(* A lock has the owner that owns it, if any.                              *)
LEMMA OwnerIs ==
  ASSUME IInv, IInv', NEW l \in Lock
  PROVE  /\ \A t \in Thread : Owns(t, l) => Owner[l] = t
         /\ (\A t \in Thread : ~Owns(t, l)) => Owner[l] = NULL
         /\ \A t \in Thread : Owns(t, l)' => Owner'[l] = t
         /\ (\A t \in Thread : ~Owns(t, l)') => Owner'[l] = NULL
<1>1. /\ \A t, u \in Thread : Owns(t, l) /\ Owns(u, l) => t = u
      /\ \A t, u \in Thread : Owns(t, l)' /\ Owns(u, l)' => t = u
  BY DEF IInv, MutualExclusion
<1>2. ASSUME NEW t \in Thread, Owns(t, l) PROVE Owner[l] = t
  <2>1. Owner[l] = CHOOSE u \in Thread : Owns(u, l)
    BY <1>2 DEF Owner
  <2>2. \E u \in Thread : Owns(u, l)
    BY <1>2
  <2>3. Owner[l] \in Thread /\ Owns(Owner[l], l)
    BY <2>1, <2>2
  <2> QED
    BY <1>1, <1>2, <2>3
<1>3. ASSUME NEW t \in Thread, Owns(t, l)' PROVE Owner'[l] = t
  <2>1. Owner'[l] = CHOOSE u \in Thread : Owns(u, l)'
    BY <1>3 DEF Owner
  <2>2. \E u \in Thread : Owns(u, l)'
    BY <1>3
  <2>3. (Owner[l] \in Thread /\ Owns(Owner[l], l))'
    BY <2>1, <2>2
  <2> QED
    BY <1>1, <1>3, <2>3
<1>4. /\ (\A t \in Thread : ~Owns(t, l)) => Owner[l] = NULL
      /\ (\A t \in Thread : ~Owns(t, l)') => Owner'[l] = NULL
  BY DEF Owner
<1> QED
  BY <1>2, <1>3, <1>4

(* Locks that nobody gains or loses.                                       *)
LEMMA OwnerFrame ==
  ASSUME IInv, IInv', \A l \in Lock, t \in Thread : Owns(t, l)' <=> Owns(t, l)
  PROVE  Owner' = Owner
<1>1. ASSUME NEW l \in Lock PROVE Owner'[l] = Owner[l]
  <2>1. CASE \E t \in Thread : Owns(t, l)
    BY <2>1, OwnerIs
  <2>2. CASE \A t \in Thread : ~Owns(t, l)
    BY <2>2, OwnerIs
  <2> QED
    BY <2>1, <2>2
<1> QED
  BY <1>1 DEF Owner

(* The running thread downs s: it is pending while the value is 0, and is  *)
(* granted a unit otherwise.                                               *)
LEMMA DownImplements ==
  ASSUME IInv, IInv', NEW s \in Sema, sema_down(s),
         pc[current] = "run" \/ (pc[current] = "sema_down" /\ arg[current] = s)
  PROVE  \/ Sync!Request(current, s) \/ Sync!Grant(current, s)
         \/ UNCHANGED <<value, Pending, Owner>>
<1> USE ThreadsAssumption
<1>1. /\ current \in Thread /\ value \in [Sema -> Nat] /\ s # NULL
      /\ pc \in [Thread -> PC] /\ arg \in [Thread -> Sema \cup {NULL}]
  BY DEF IInv, TypeOK
<1>2. arg' = [arg EXCEPT ![current] = s] /\ UNCHANGED holder
  BY DEF sema_down
<1>3. Pending[current] = IF pc[current] = "sema_down" THEN s ELSE NULL
  BY <1>1 DEF Pending
<1>4. CASE value[s] = 0
  <2>1. UNCHANGED value /\ pc' = [pc EXCEPT ![current] = "sema_down"]
    BY <1>4 DEF sema_down
  <2>2. Pending' = [Pending EXCEPT ![current] = s]
    BY <1>1, <1>2, <2>1 DEF Pending
  <2>3. Owner' = Owner
    <3>1. \A l \in Lock, t \in Thread : Owns(t, l)' <=> Owns(t, l)
      BY <1>1, <1>2, <2>1 DEF Owns
    <3> QED
      BY <3>1, OwnerFrame
  <2>4. CASE pc[current] = "run"
    BY <1>3, <1>4, <2>1, <2>2, <2>3, <2>4 DEF Sync!Request, Pending, Owner
  <2>5. CASE pc[current] # "run"
    <3>1. Pending' = Pending
      BY <1>1, <1>3, <2>2, <2>5 DEF Pending
    <3> QED
      BY <2>1, <2>3, <3>1
  <2> QED
    BY <2>4, <2>5
<1>5. CASE value[s] # 0
  <2>1. /\ value' = [value EXCEPT ![s] = @ - 1] /\ value[s] > 0
        /\ pc' = [pc EXCEPT ![current] = AfterDown(s)] /\ current' = current
    BY <1>1, <1>5 DEF sema_down, schedVars
  <2>2. /\ s \in Lock => AfterDown(s) = "set_holder"
        /\ s \notin Lock => AfterDown(s) \in {"reap", "run"}
    BY DEF AfterDown
  <2>3. Pending' = [Pending EXCEPT ![current] = NULL]
    BY <1>1, <1>2, <2>1, <2>2 DEF Pending
  <2>4. IF s \in Lock
        THEN Owner[s] = NULL /\ Owner' = [Owner EXCEPT ![s] = current]
        ELSE UNCHANGED Owner
    <3>1. CASE s \in Lock
      <4>1. \A t \in Thread : ~Owns(t, s)
        <5>1. value[s] = IF \E t \in Thread : Owns(t, s) THEN 0 ELSE 1
          BY <3>1 DEF IInv, MutualExclusion
        <5> QED
          BY <1>5, <5>1
      <4>2. Owns(current, s)'
        BY <1>1, <1>2, <2>1, <2>2, <3>1 DEF Owns
      <4>3. Owner[s] = NULL /\ Owner'[s] = current
        BY <1>1, <2>1, <3>1, <4>1, <4>2, OwnerIs
      <4>4. \A l \in Lock \ {s} : \A t \in Thread : Owns(t, l)' <=> Owns(t, l)
        BY <1>1, <1>2, <2>1, <2>2 DEF Owns
      <4>5. ASSUME NEW l \in Lock \ {s} PROVE Owner'[l] = Owner[l]
        <5>1. CASE \E t \in Thread : Owns(t, l)
          BY <4>4, <5>1, OwnerIs
        <5>2. CASE \A t \in Thread : ~Owns(t, l)
          BY <4>4, <5>2, OwnerIs
        <5> QED
          BY <5>1, <5>2
      <4>6. \A l \in Lock : Owner'[l] = IF l = s THEN current ELSE Owner[l]
        BY <4>3, <4>5
      <4>7. Owner' = [Owner EXCEPT ![s] = current]
        BY <4>6, OwnerIsFunction
      <4> QED
        BY <3>1, <4>3, <4>7
    <3>2. CASE s \notin Lock
      <4>1. \A l \in Lock, t \in Thread : Owns(t, l)' <=> Owns(t, l)
        BY <1>1, <1>2, <2>1, <2>2, <3>2 DEF Owns
      <4> QED
        BY <3>2, <4>1, OwnerFrame
    <3> QED
      BY <3>1, <3>2
  <2> QED
    BY <1>3, <2>1, <2>3, <2>4 DEF Sync!Grant, Pending, Owner
<1> QED
  BY <1>4, <1>5

(* Semaphores and locks behave as SyncSpec says (synch.c:36-40, 160-171):  *)
(* a unit is granted only to a thread that asks for it, a lock only while  *)
(* nobody owns it, it returns only from its owner, and the semaphore of a  *)
(* new thread starts without a leftover waiter.                            *)
THEOREM SyncIsImplemented == Spec => ImplementsSync
<1>1. Init => Sync!Init
  <2> SUFFICES ASSUME Init PROVE Sync!Init
    OBVIOUS
  <2>1. \A t \in Thread, l \in Lock : ~Owns(t, l)
    BY ThreadsAssumption DEF Init, Owns, Sema
  <2>2. Owner = [l \in Lock |-> NULL]
    BY <2>1 DEF Owner
  <2>3. Pending = [t \in Thread |-> NULL]
    BY DEF Init, Pending
  <2> QED
    BY <2>2, <2>3 DEF Init, Sync!Init, Sync!Sema, Sema, Owner, Pending
<1>2. IInv /\ IInv' /\ [Next]_vars => [Sync!Next]_(Sync!vars)
  <2> SUFFICES ASSUME IInv, IInv', [Next]_vars
               PROVE  Sync!Next \/ UNCHANGED <<value, Pending, Owner>>
    BY DEF Sync!vars, Owner, Pending
  <2> USE ThreadsAssumption
  <2>1. /\ current \in Thread /\ value \in [Sema -> Nat]
        /\ pc \in [Thread -> PC] /\ arg \in [Thread -> Sema \cup {NULL}]
    BY DEF IInv, TypeOK
  <2>2. Sync!Sema = Sema
    BY DEF Sync!Sema, Sema
  <2>3. ASSUME UNCHANGED value, Pending' = Pending,
               \A l \in Lock, t \in Thread : Owns(t, l)' <=> Owns(t, l)
        PROVE  UNCHANGED <<value, Pending, Owner>>
    BY <2>3, OwnerFrame
  <2>4. CASE Yield \/ TimerTick \/ IdleBlock \/ UNCHANGED vars
    BY <2>3, <2>4
    DEF Yield, TimerTick, IdleBlock, vars, syncVars, Pending, Owns
  <2>5. CASE SetHolder
    <3>1. arg[current] \in Lock
      BY <2>1, <2>5 DEF SetHolder, IInv, PcOK
    <3>2. UNCHANGED value /\ Pending' = Pending
      BY <2>1, <2>5 DEF SetHolder, Pending
    <3>3. \A l \in Lock, t \in Thread : Owns(t, l)' <=> Owns(t, l)
      <4>1. /\ holder' = [holder EXCEPT ![arg[current]] = current]
            /\ pc' = [pc EXCEPT ![current] = "run"] /\ UNCHANGED <<current, arg>>
            /\ holder \in [Lock -> Thread \cup {NULL}] /\ pc[current] = "set_holder"
        BY <2>5 DEF SetHolder, schedVars, IInv, TypeOK
      <4>2. \A t \in Thread : Owns(t, arg[current]) <=> t = current
        BY <2>1, <3>1, <4>1 DEF IInv, MutualExclusion, Owns
      <4>3. ASSUME NEW l \in Lock, NEW t \in Thread, l = arg[current]
            PROVE  Owns(t, l)' <=> Owns(t, l)
        BY <2>1, <3>1, <4>1, <4>2, <4>3 DEF Owns
      <4>4. ASSUME NEW l \in Lock, NEW t \in Thread, l # arg[current]
            PROVE  Owns(t, l)' <=> Owns(t, l)
        BY <2>1, <3>1, <4>1, <4>4 DEF Owns
      <4> QED
        BY <4>3, <4>4
    <3> QED
      BY <2>3, <3>2, <3>3
  <2>6. CASE KernelThread \/ Reap \/ ThreadCreateUnblock
    BY <2>1, <2>3, <2>6
    DEF KernelThread, Reap, ThreadCreateUnblock, syncVars, Pending, Owns
  <2>7. CASE \E l \in Lock : LockRelease(l)
    <3> SUFFICES ASSUME NEW l \in Lock, LockRelease(l)
                 PROVE  UNCHANGED <<value, Pending, Owner>>
      BY <2>7
    <3>1. UNCHANGED value /\ Pending' = Pending
      BY <2>1 DEF LockRelease, Pending
    <3>2. \A k \in Lock, t \in Thread : Owns(t, k)' <=> Owns(t, k)
      BY <2>1 DEF LockRelease, Owns, IInv, TypeOK, MutualExclusion
    <3> QED
      BY <2>3, <3>1, <3>2
  <2>8. CASE \E s \in Semaphore : SemaTryDown(s)
    <3> SUFFICES ASSUME NEW s \in Semaphore, SemaTryDown(s) PROVE Sync!Next
      BY <2>8
    <3>1. /\ s \in Sema /\ s \notin Lock /\ value[s] > 0
          /\ value' = [value EXCEPT ![s] = @ - 1]
          /\ Pending[current] = NULL
          /\ Pending' = [Pending EXCEPT ![current] = NULL]
      BY <2>1 DEF SemaTryDown, Sema, Pending
    <3>2. Owner' = Owner
      <4>1. \A l \in Lock, t \in Thread : Owns(t, l)' <=> Owns(t, l)
        BY DEF SemaTryDown, Owns
      <4> QED
        BY <4>1, OwnerFrame
    <3>3. Sync!Grant(current, s)
      BY <3>1, <3>2 DEF Sync!Grant, Pending, Owner
    <3> QED
      BY <2>1, <2>2, <3>1, <3>3 DEF Sync!Next
  <2>9. ASSUME NEW s \in Sema, sema_down(s),
               pc[current] = "run" \/ (pc[current] = "sema_down" /\ arg[current] = s)
        PROVE  Sync!Next \/ UNCHANGED <<value, Pending, Owner>>
    BY <2>1, <2>2, <2>9, DownImplements DEF Sync!Next
  <2>10. CASE \E s \in Semaphore : SemaDown(s)
    BY <2>9, <2>10 DEF SemaDown, Sema
  <2>11. CASE \E l \in Lock : LockAcquire(l)
    BY <2>9, <2>11 DEF LockAcquire, Sema
  <2>12. CASE \E c \in Thread : ProcessWait(c)
    BY <2>9, <2>12 DEF ProcessWait, Sema
  <2>13. CASE Resume
    <3>1. arg[current] \in Sema
      BY <2>1, <2>13 DEF Resume, IInv, PcOK
    <3> QED
      BY <2>9, <2>13, <3>1 DEF Resume
  <2>14. CASE \E l \in Lock : LockTryAcquire(l)
    <3> SUFFICES ASSUME NEW l \in Lock, LockTryAcquire(l)
                 PROVE  Sync!Next \/ UNCHANGED <<value, Pending, Owner>>
      BY <2>14
    <3>1. l \in Sema /\ pc[current] = "run" /\ value[l] # 0 /\ AfterDown(l) = "set_holder"
      BY <2>1 DEF LockTryAcquire, AfterDown, Sema
    <3>2. sema_down(l)
      BY <3>1 DEF LockTryAcquire, sema_down
    <3> QED
      BY <2>9, <3>1, <3>2
  <2>15. CASE \E s \in Semaphore : SemaUp(s)
    <3> SUFFICES ASSUME NEW s \in Semaphore, SemaUp(s) PROVE Sync!Next
      BY <2>15
    <3>1. /\ s \in Sema /\ s \notin Lock /\ Pending' = Pending
          /\ value' = [value EXCEPT ![s] = @ + 1]
      BY DEF SemaUp, sema_up, Sema, Pending
    <3>2. Owner' = Owner
      <4>1. \A l \in Lock, t \in Thread : Owns(t, l)' <=> Owns(t, l)
        BY DEF SemaUp, Owns
      <4> QED
        BY <4>1, OwnerFrame
    <3>3. Sync!Up(s)
      BY <3>1, <3>2 DEF Sync!Up, Pending, Owner
    <3> QED
      BY <2>2, <3>1, <3>3 DEF Sync!Next
  <2>16. CASE ThreadExit
    <3>1. /\ current \in Sema /\ current \notin Lock
          /\ value' = [value EXCEPT ![current] = @ + 1]
      BY <2>1, <2>16 DEF ThreadExit, sema_up, Sema
    <3>2. Pending' = Pending
      BY <2>1, <2>16 DEF ThreadExit, Pending
    <3>3. Owner' = Owner
      <4>1. \A l \in Lock, t \in Thread : Owns(t, l)' <=> Owns(t, l)
        BY <2>1, <2>16 DEF ThreadExit, Owns
      <4> QED
        BY <4>1, OwnerFrame
    <3>4. Sync!Up(current)
      BY <3>1, <3>2, <3>3 DEF Sync!Up, Pending, Owner
    <3> QED
      BY <2>2, <3>1, <3>4 DEF Sync!Next
  <2>17. CASE LockReleaseUp
    <3> DEFINE l == arg[current]
    <3>1. /\ l \in Lock /\ l \in Sema /\ pc[current] = "release"
          /\ Owns(current, l) /\ holder[l] # current
          /\ \A t \in Thread : Owns(t, l) => t = current
      BY <2>1, <2>17 DEF LockReleaseUp, IInv, PcOK, Sema, Owns, MutualExclusion
    <3>2. value[l] = 0
      BY <2>1, <3>1 DEF IInv, MutualExclusion
    <3>3. /\ value' = [value EXCEPT ![l] = @ + 1]
          /\ UNCHANGED <<holder, arg, current>>
          /\ pc' = [pc EXCEPT ![current] = "run"]
      BY <2>17 DEF LockReleaseUp, sema_up
    <3> HIDE DEF l
    <3>4. value' = [value EXCEPT ![l] = 1]
      BY <2>1, <3>1, <3>2, <3>3
    <3>5. Pending' = Pending /\ Pending[current] = NULL
      BY <2>1, <3>1, <3>3 DEF Pending
    <3>6. ASSUME NEW k \in Lock, NEW t \in Thread
          PROVE  Owns(t, k)' <=> k # l /\ Owns(t, k)
      BY <2>1, <3>1, <3>3 DEF Owns, l
    <3>7. Owner[l] = current /\ Owner'[l] = NULL
      BY <2>1, <3>1, <3>6, OwnerIs
    <3>8. ASSUME NEW k \in Lock \ {l} PROVE Owner'[k] = Owner[k]
      <4>1. CASE \E t \in Thread : Owns(t, k)
        BY <3>6, <4>1, OwnerIs
      <4>2. CASE \A t \in Thread : ~Owns(t, k)
        BY <3>6, <4>2, OwnerIs
      <4> QED
        BY <4>1, <4>2
    <3>9. Owner' = [Owner EXCEPT ![l] = NULL]
      BY <3>7, <3>8, OwnerIsFunction
    <3>10. Sync!Release(current, l)
      BY <3>4, <3>5, <3>7, <3>9 DEF Sync!Release, Pending, Owner
    <3> QED
      BY <2>1, <3>1, <3>10 DEF Sync!Next
  <2>18. CASE \E c \in Thread : ThreadCreate(c)
    <3> SUFFICES ASSUME NEW c \in Thread, ThreadCreate(c) PROVE Sync!Next
      BY <2>18
    <3>1. /\ pc[c] = "gone" /\ pc[current] = "run" /\ status[c] = "NONE"
          /\ c # current /\ c \in Sema
      BY <2>1 DEF ThreadCreate, IInv, PcOK, Sema
    <3>2. \A t \in Thread : pc[t] = "sema_down" => arg[t] # c
      BY <2>1, <3>1 DEF IInv, FamilyOK
    <3>3. \A t \in Thread : Pending[t] # c
      BY <2>1, <3>1, <3>2 DEF Pending
    <3>4. Pending[c] = NULL /\ Pending' = Pending
      BY <2>1, <3>1 DEF ThreadCreate, Pending
    <3>5. Owner' = Owner
      <4>1. \A l \in Lock, t \in Thread : Owns(t, l)' <=> Owns(t, l)
        BY <2>1, <3>1 DEF ThreadCreate, Owns
      <4> QED
        BY <4>1, OwnerFrame
    <3>6. value' = [value EXCEPT ![c] = 0]
      BY DEF ThreadCreate
    <3>7. Sync!Renew(c)
      BY <3>3, <3>4, <3>5, <3>6 DEF Sync!Renew, Pending, Owner
    <3> QED
      BY <3>7 DEF Sync!Next
  <2> QED
    BY <2>4, <2>5, <2>6, <2>7, <2>8, <2>10, <2>11, <2>12, <2>13, <2>14, <2>15,
       <2>16, <2>17, <2>18 DEF Next
<1> QED
  BY <1>1, <1>2, Invariance, PTL DEF Spec, ImplementsSync, Sync!Spec
=============================================================================
