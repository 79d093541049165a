---------------------------- MODULE ServicesProof ----------------------------
(***************************************************************************)
(* Proofs about the block allocator and the services around the scheduler, *)
(* for any values of their constants.  Each has its inductive invariant;   *)
(* a step of another module leaves its variables alone.                    *)
(***************************************************************************)
EXTENDS Services, SequenceTheorems, FiniteSetTheorems, WellFoundedInduction, TLAPS

-----------------------------------------------------------------------------
(* Quotient and remainder are unique.                                      *)
LEMMA Divided ==
  ASSUME NEW s \in Nat \ {0}, NEW a \in Int
  PROVE  /\ a \div s \in Int
         /\ a % s \in 0 .. s - 1
         /\ a = s * (a \div s) + (a % s)
OBVIOUS

LEMMA Multiple ==
  ASSUME NEW s \in Nat \ {0}, NEW n \in Int
  PROVE  /\ s * n \in Int
         /\ n >= 1 => s * n >= s
         /\ n <= -1 => s * n <= -s
OBVIOUS

LEMMA Remainder ==
  ASSUME NEW s \in Nat \ {0}, NEW q \in Int, NEW r \in 0 .. s - 1
  PROVE  (s * q + r) % s = r
<1> DEFINE a == s * q + r
           k == a \div s
           x == a % s
<1>1. /\ s * q \in Int /\ r \in Int /\ s \in Int
  BY Multiple
<1>2. /\ a \in Int /\ k \in Int /\ x \in 0 .. s - 1 /\ a = s * k + x
  BY <1>1
<1> HIDE DEF k, x
<1>3. s * (q - k) = x - r
  <2>1. s * (q - k) = s * q - s * k
    BY <1>2
  <2>2. s * q + r = s * k + x
    BY <1>2
  <2>3. s * k \in Int
    BY <1>2, Multiple
  <2> QED
    BY <1>1, <1>2, <2>1, <2>2, <2>3
<1>4. /\ q - k \in Int
      /\ q - k >= 1 => s * (q - k) >= s
      /\ q - k <= -1 => s * (q - k) <= -s
  BY <1>2, Multiple
<1>5. x - r \in Int /\ x - r < s /\ x - r > -s
  BY <1>2
<1>6. q - k = 0
  BY <1>3, <1>4, <1>5
<1>7. s * 0 = 0
  OBVIOUS
<1>8. x = r
  BY <1>2, <1>3, <1>6, <1>7
<1> QED
  BY <1>8 DEF x

LEMMA RemainderOfSmall ==
  ASSUME NEW s \in Nat \ {0}, NEW r \in 0 .. s - 1
  PROVE  r % s = r
OBVIOUS

LEMMA RemainderOfItself ==
  ASSUME NEW s \in Nat \ {0} PROVE s % s = 0
OBVIOUS

LEMMA RemainderOfMultiple ==
  ASSUME NEW s \in Nat \ {0}, NEW q \in Int
  PROVE  (s * q) % s = 0
<1> DEFINE p == s * q
<1>1. 0 \in 0 .. s - 1 /\ p \in Int /\ p + 0 = p
  BY Multiple
<1>2. (s * q + 0) % s = 0
  BY <1>1, Remainder
<1>3. s * q + 0 = s * q
  BY <1>1
<1> QED
  BY <1>2, <1>3

LEMMA NextRemainder ==
  ASSUME NEW s \in Nat \ {0}, NEW a \in Nat
  PROVE  /\ a % s \in 0 .. s - 1
         /\ (a + 1) % s = IF (a % s) + 1 < s THEN (a % s) + 1 ELSE 0
<1> DEFINE q == a \div s
           r == a % s
<1>1. q \in Int /\ r \in 0 .. s - 1 /\ a = s * q + r
  BY Divided
<1> HIDE DEF q, r
<1>2. CASE r + 1 < s
  <2>1. a + 1 = s * q + (r + 1) /\ r + 1 \in 0 .. s - 1
    BY <1>1, <1>2
  <2>2. (s * q + (r + 1)) % s = r + 1
    BY <1>1, <2>1, Remainder
  <2> QED
    BY <1>1, <1>2, <2>1, <2>2 DEF r
<1>3. CASE ~(r + 1 < s)
  <2>1. a + 1 = s * (q + 1) + 0 /\ q + 1 \in Int /\ 0 \in 0 .. s - 1
    BY <1>1, <1>3
  <2>2. (s * (q + 1) + 0) % s = 0
    BY <2>1, Remainder
  <2> QED
    BY <1>1, <1>3, <2>1, <2>2 DEF r
<1> QED
  BY <1>2, <1>3

-----------------------------------------------------------------------------
(* The monitor.  A waiting thread is on the list until a signal takes it   *)
(* off and ups its semaphore, once; the lock keeps signals away while it   *)
(* is on the list and has not released the lock.                           *)

MonInv ==
  /\ monitor_pc \in [Thread -> Mon!PC]
  /\ monitor_waiters \in Seq(Thread) /\ IsInjective(monitor_waiters)
  /\ monitor_semaphore \in [Thread -> Nat]
  /\ monitor_holder \in Thread \cup {NULL}
  /\ \A t \in Thread :
       monitor_pc[t] \in {"in", "queued", "broadcast"} <=> monitor_holder = t
  /\ \A t \in Thread :
       /\ t \in Mon!Queued => monitor_pc[t] \in {"queued", "down"} /\ monitor_semaphore[t] = 0
       /\ monitor_pc[t] = "queued" => t \in Mon!Queued

MesaWaiting == {t \in Mon!Queued : monitor_pc[t] # "queued"}
MesaWoken ==
  {t \in Thread : \/ monitor_pc[t] = "acquire"
                  \/ monitor_pc[t] = "down" /\ monitor_semaphore[t] > 0}

LEMMA MesaIs ==
  /\ Mon!M!Init <=> monitor_holder = NULL /\ MesaWaiting = {} /\ MesaWoken = {}
  /\ \A t : Mon!M!Enter(t) <=>
       /\ monitor_holder = NULL /\ t \notin MesaWaiting \cup MesaWoken
       /\ monitor_holder' = t /\ MesaWaiting' = MesaWaiting /\ MesaWoken' = MesaWoken
  /\ \A t : Mon!M!Leave(t) <=>
       /\ monitor_holder = t /\ monitor_holder' = NULL
       /\ MesaWaiting' = MesaWaiting /\ MesaWoken' = MesaWoken
  /\ \A t : Mon!M!Wait(t) <=>
       /\ monitor_holder = t /\ monitor_holder' = NULL
       /\ MesaWaiting' = MesaWaiting \cup {t} /\ MesaWoken' = MesaWoken
  /\ \A S : Mon!M!Wake(S) <=>
       /\ monitor_holder # NULL /\ S \subseteq MesaWaiting
       /\ MesaWaiting' = MesaWaiting \ S /\ MesaWoken' = MesaWoken \cup S
       /\ monitor_holder' = monitor_holder
  /\ \A t : Mon!M!Return(t) <=>
       /\ monitor_holder = NULL /\ t \in MesaWoken /\ monitor_holder' = t
       /\ MesaWoken' = MesaWoken \ {t} /\ MesaWaiting' = MesaWaiting
BY DEF Mon!M!Init, Mon!M!Enter, Mon!M!Leave, Mon!M!Wait, Mon!M!Wake,
       Mon!M!Return, MesaWaiting, MesaWoken

LEMMA MesaStutters ==
  UNCHANGED <<monitor_holder, MesaWaiting, MesaWoken>> => UNCHANGED Mon!M!vars
BY DEF Mon!M!vars, MesaWaiting, MesaWoken

LEMMA MesaWakes ==
  ASSUME NEW t \in Thread, monitor_holder # NULL, t \in MesaWaiting,
         MesaWaiting' = MesaWaiting \ {t}, MesaWoken' = MesaWoken \cup {t},
         UNCHANGED monitor_holder
  PROVE  Mon!M!Next
<1>1. Mon!M!Wake({t})
  BY DEF Mon!M!Wake, MesaWaiting, MesaWoken
<1> QED
  BY <1>1 DEF Mon!M!Next

(* What a thread does to a list of distinct threads that it joins, and what *)
(* a signal does to one that it takes the first thread off.                *)
LEMMA JoinList ==
  ASSUME NEW q \in Seq(Thread), IsInjective(q), NEW t \in Thread \ Range(q)
  PROVE  /\ Append(q, t) \in Seq(Thread) \ {<<>>}
         /\ IsInjective(Append(q, t))
         /\ Range(Append(q, t)) = Range(q) \cup {t}
<1> DEFINE r == Append(q, t)
<1>1. /\ r \in Seq(Thread) /\ r # <<>> /\ Len(q) \in Nat
      /\ r[Len(q) + 1] = t /\ \A i \in 1 .. Len(q) : r[i] = q[i]
      /\ DOMAIN r = 1 .. Len(q) + 1 /\ DOMAIN q = 1 .. Len(q)
  BY AppendProperties
<1>2. \A i \in 1 .. Len(q) : q[i] # t
  BY <1>1 DEF Range
<1>3. IsInjective(r)
  BY <1>1, <1>2 DEF IsInjective
<1>4. \A x : x \in Range(r) <=> x \in Range(q) \/ x = t
  <2>1. \A i \in DOMAIN r : r[i] \in Range(q) \cup {t}
    BY <1>1 DEF Range
  <2>2. \A i \in DOMAIN q : q[i] \in Range(r)
    BY <1>1 DEF Range
  <2>3. t \in Range(r)
    BY <1>1 DEF Range
  <2> HIDE DEF r
  <2> QED
    BY <2>1, <2>2, <2>3 DEF Range
<1> QED
  BY <1>1, <1>3, <1>4

LEMMA LeaveList ==
  ASSUME NEW q \in Seq(Thread), IsInjective(q), q # <<>>
  PROVE  /\ Head(q) \in Range(q)
         /\ Tail(q) \in Seq(Thread)
         /\ IsInjective(Tail(q))
         /\ Range(Tail(q)) = Range(q) \ {Head(q)}
<1> DEFINE r == Tail(q)
<1>1. /\ r \in Seq(Thread) /\ \A i \in DOMAIN r : r[i] = q[i + 1]
      /\ DOMAIN r = 1 .. Len(q) - 1 /\ DOMAIN q = 1 .. Len(q)
      /\ Len(q) \in Nat \ {0} /\ Head(q) = q[1]
  BY HeadTailProperties, EmptySeq
<1>2. IsInjective(r)
  BY <1>1 DEF IsInjective
<1>3. \A x : x \in Range(r) <=> x \in Range(q) /\ x # q[1]
  <2>1. \A i \in DOMAIN r : r[i] \in Range(q) /\ r[i] # q[1]
    BY <1>1 DEF Range, IsInjective
  <2>2. ASSUME NEW i \in DOMAIN q, q[i] # q[1]
        PROVE  q[i] \in Range(r)
    <3>1. i - 1 \in DOMAIN r /\ r[i - 1] = q[i]
      BY <1>1, <2>2
    <3> QED
      BY <3>1 DEF Range
  <2> HIDE DEF r
  <2> QED
    BY <2>1, <2>2 DEF Range
<1>4. Head(q) \in Range(q)
  BY <1>1 DEF Range
<1> QED
  BY <1>1, <1>2, <1>3, <1>4

LEMMA QueuedIs ==
  /\ Mon!Queued = Range(monitor_waiters)
  /\ MonInv => Mon!Queued \subseteq Thread
<1>1. Mon!Queued = Range(monitor_waiters)
  BY DEF Mon!Queued, Range
<1>2. ASSUME NEW q \in Seq(Thread) PROVE Range(q) \subseteq Thread
  BY DEF Range
<1> QED
  BY <1>1, <1>2 DEF MonInv

LEMMA QueuedNext == Mon!Queued' = Range(monitor_waiters')
BY DEF Mon!Queued, Range

(* A signal: the first leaves the list and its semaphore is upped.         *)
LEMMA UpFirst ==
  ASSUME MonInv, Mon!up_first, monitor_waiters # <<>>, NEW h, h = Head(monitor_waiters)
  PROVE  /\ h \in Mon!Queued /\ h \in Thread
         /\ monitor_waiters' \in Seq(Thread) /\ IsInjective(monitor_waiters')
         /\ Mon!Queued' = Mon!Queued \ {h}
         /\ monitor_semaphore' = [monitor_semaphore EXCEPT ![h] = @ + 1]
<1>1. monitor_waiters \in Seq(Thread) /\ IsInjective(monitor_waiters)
  BY DEF MonInv
<1>2. /\ monitor_waiters' = Tail(monitor_waiters)
      /\ monitor_semaphore' = [monitor_semaphore EXCEPT ![h] = @ + 1]
  BY DEF Mon!up_first
<1>3. /\ h \in Range(monitor_waiters)
      /\ Tail(monitor_waiters) \in Seq(Thread) /\ IsInjective(Tail(monitor_waiters))
      /\ Range(Tail(monitor_waiters)) = Range(monitor_waiters) \ {h}
  BY <1>1, LeaveList
<1>4. Mon!Queued' = Range(Tail(monitor_waiters))
  BY <1>2, QueuedNext
<1>5. h \in Thread
  BY <1>3, QueuedIs
<1> QED
  BY <1>2, <1>3, <1>4, <1>5, QueuedIs

(* A signal or a round of a broadcast, with a thread to wake or without.   *)
LEMMA SignalStep ==
  ASSUME MonInv, NEW t \in Thread,
         Mon!Signal(t) \/ Mon!Broadcast(t) \/ Mon!BroadcastNext(t)
  PROVE  MonInv' /\ (Mon!M!Next \/ UNCHANGED Mon!M!vars)
<1>1. /\ monitor_pc[t] \in {"in", "broadcast"} /\ monitor_holder = t
      /\ monitor_holder' = t /\ Mon!up_first
  BY DEF MonInv, Mon!Signal, Mon!Broadcast, Mon!BroadcastNext
<1>2. /\ monitor_pc' \in [Thread -> Mon!PC]
      /\ monitor_pc'[t] \in {"in", "broadcast"}
      /\ \A u \in Thread \ {t} : monitor_pc'[u] = monitor_pc[u]
  <2>1. \/ monitor_pc' = monitor_pc
        \/ monitor_pc' = [monitor_pc EXCEPT ![t] = "broadcast"]
        \/ monitor_pc' = [monitor_pc EXCEPT ![t] = "in"]
        \/ monitor_pc' = [monitor_pc EXCEPT ![t] = @]
    BY DEF Mon!Signal, Mon!Broadcast, Mon!BroadcastNext
  <2> QED
    BY <1>1, <2>1 DEF MonInv, Mon!PC
<1>3. NULL \notin Thread
  BY ServicesAssumption
<1>4. CASE monitor_waiters = <<>>
  <2>1. UNCHANGED <<monitor_waiters, monitor_semaphore>> /\ Mon!Queued' = Mon!Queued
    BY <1>1, <1>4 DEF Mon!up_first, Mon!Queued
  <2>2. MesaWaiting' = MesaWaiting /\ MesaWoken' = MesaWoken
    <3>1. Mon!Queued \subseteq Thread /\ t \notin Mon!Queued
      BY <1>1, QueuedIs DEF MonInv
    <3>2. MesaWaiting' = MesaWaiting
      BY <1>2, <2>1, <3>1 DEF MesaWaiting
    <3>3. \A u \in Thread : u \in MesaWoken' <=> u \in MesaWoken
      BY <1>1, <1>2, <2>1 DEF MesaWoken
    <3> QED
      BY <3>2, <3>3 DEF MesaWoken
  <2>3. MonInv'
    BY <1>1, <1>2, <1>3, <2>1 DEF MonInv
  <2>4. UNCHANGED <<monitor_holder, MesaWaiting, MesaWoken>>
    BY <1>1, <2>2
  <2> QED
    BY <2>3, <2>4, MesaStutters
<1>5. CASE monitor_waiters # <<>>
  <2> DEFINE h == Head(monitor_waiters)
  <2>1. /\ h \in Mon!Queued /\ h \in Thread
        /\ monitor_waiters' \in Seq(Thread) /\ IsInjective(monitor_waiters')
        /\ Mon!Queued' = Mon!Queued \ {h}
        /\ monitor_semaphore' = [monitor_semaphore EXCEPT ![h] = @ + 1]
    BY <1>1, <1>5, UpFirst
  <2> HIDE DEF h
  <2>2. h # t /\ monitor_pc[h] = "down" /\ monitor_semaphore[h] = 0
    BY <1>1, <2>1 DEF MonInv
  <2>3. /\ monitor_semaphore' \in [Thread -> Nat] /\ monitor_semaphore'[h] = 1
        /\ \A u \in Thread \ {h} : monitor_semaphore'[u] = monitor_semaphore[u]
    BY <2>1, <2>2 DEF MonInv
  <2>4. MonInv'
    BY <1>1, <1>2, <1>3, <2>1, <2>2, <2>3 DEF MonInv
  <2>5. h \in MesaWaiting /\ MesaWaiting' = MesaWaiting \ {h}
    <3>1. Mon!Queued \subseteq Thread /\ t \notin Mon!Queued
      BY <1>1, QueuedIs DEF MonInv
    <3> QED
      BY <1>2, <2>1, <2>2, <3>1 DEF MesaWaiting
  <2>6. MesaWoken' = MesaWoken \cup {h}
    <3>1. ASSUME NEW u \in Thread
          PROVE  u \in MesaWoken' <=> u \in MesaWoken \/ u = h
      BY <1>1, <1>2, <2>1, <2>2, <2>3 DEF MesaWoken
    <3> QED
      BY <2>1, <3>1 DEF MesaWoken
  <2>7. Mon!M!Next
    <3>1. monitor_holder # NULL /\ monitor_holder' = monitor_holder
      BY <1>1, <1>3
    <3> QED
      BY <3>1, <2>1, <2>5, <2>6, MesaWakes
  <2> QED
    BY <2>4, <2>7
<1> QED
  BY <1>4, <1>5

(* cond_wait(): joins the list, releases the lock, sleeps, takes the lock. *)
LEMMA WaitStep ==
  ASSUME MonInv, NEW t \in Thread, Mon!Wait(t)
  PROVE  MonInv' /\ (Mon!M!Next \/ UNCHANGED Mon!M!vars)
<1>1. /\ monitor_pc[t] = "in" /\ monitor_holder = t /\ monitor_holder' = t
      /\ monitor_semaphore' = [monitor_semaphore EXCEPT ![t] = 0]
      /\ monitor_waiters' = Append(monitor_waiters, t)
      /\ monitor_pc' = [monitor_pc EXCEPT ![t] = "queued"]
  BY DEF MonInv, Mon!Wait
<1>2. t \notin Mon!Queued
  BY <1>1 DEF MonInv
<1>3. /\ monitor_waiters' \in Seq(Thread) /\ IsInjective(monitor_waiters')
      /\ Mon!Queued' = Mon!Queued \cup {t}
  <2>1. monitor_waiters \in Seq(Thread) /\ IsInjective(monitor_waiters)
        /\ t \in Thread \ Range(monitor_waiters)
    BY <1>2, QueuedIs DEF MonInv
  <2>2. /\ monitor_waiters' \in Seq(Thread) /\ IsInjective(monitor_waiters')
        /\ Range(monitor_waiters') = Range(monitor_waiters) \cup {t}
    BY <1>1, <2>1, JoinList
  <2> QED
    BY <2>2, QueuedIs, QueuedNext
<1>4. MonInv'
  BY <1>1, <1>3 DEF MonInv, Mon!PC
<1>5. MesaWaiting' = MesaWaiting /\ MesaWoken' = MesaWoken
  <2>1. Mon!Queued \subseteq Thread
    BY QueuedIs
  <2> QED
    BY <1>1, <1>2, <1>3, <2>1 DEF MonInv, MesaWaiting, MesaWoken
<1>6. UNCHANGED <<monitor_holder, MesaWaiting, MesaWoken>>
  BY <1>1, <1>5
<1> QED
  BY <1>4, <1>6, MesaStutters

LEMMA MonitorStep ==
  ASSUME MonInv, NEW t \in Thread,
         \/ Mon!Acquire(t) \/ Mon!Release(t) \/ Mon!WaitRelease(t)
         \/ Mon!WaitDown(t) \/ Mon!WaitAcquire(t)
  PROVE  MonInv' /\ (Mon!M!Next \/ UNCHANGED Mon!M!vars)
<1>1. UNCHANGED monitor_waiters /\ Mon!Queued' = Mon!Queued /\ Mon!Queued \subseteq Thread
      /\ NULL \notin Thread
  <2>1. UNCHANGED monitor_waiters
    BY DEF Mon!Acquire, Mon!Release, Mon!WaitRelease, Mon!WaitDown, Mon!WaitAcquire
  <2>2. NULL \notin Thread
    BY ServicesAssumption
  <2> QED
    BY <2>1, <2>2, QueuedIs, QueuedNext
<1>2. CASE Mon!Acquire(t)
  <2>1. MonInv'
    BY <1>1, <1>2 DEF Mon!Acquire, MonInv, Mon!PC
  <2>2. /\ t \notin MesaWaiting \cup MesaWoken
        /\ MesaWaiting' = MesaWaiting /\ MesaWoken' = MesaWoken
    BY <1>1, <1>2 DEF Mon!Acquire, MonInv, MesaWaiting, MesaWoken
  <2>3. Mon!M!Enter(t)
    BY <1>2, <2>2, MesaIs DEF Mon!Acquire
  <2> QED
    BY <2>1, <2>3 DEF Mon!M!Next
<1>3. CASE Mon!Release(t)
  <2>1. MonInv'
    BY <1>1, <1>3 DEF Mon!Release, MonInv, Mon!PC
  <2>2. MesaWaiting' = MesaWaiting /\ MesaWoken' = MesaWoken
    BY <1>1, <1>3 DEF Mon!Release, MonInv, MesaWaiting, MesaWoken
  <2>3. Mon!M!Leave(t)
    BY <1>3, <2>2, MesaIs DEF Mon!Release, MonInv
  <2> QED
    BY <2>1, <2>3 DEF Mon!M!Next
<1>4. CASE Mon!WaitRelease(t)
  <2>1. MonInv'
    BY <1>1, <1>4 DEF Mon!WaitRelease, MonInv, Mon!PC
  <2>2. MesaWaiting' = MesaWaiting \cup {t} /\ MesaWoken' = MesaWoken
    BY <1>1, <1>4 DEF Mon!WaitRelease, MonInv, MesaWaiting, MesaWoken
  <2>3. Mon!M!Wait(t)
    BY <1>4, <2>2, MesaIs DEF Mon!WaitRelease, MonInv
  <2> QED
    BY <2>1, <2>3 DEF Mon!M!Next
<1>5. CASE Mon!WaitDown(t)
  <2>1. t \notin Mon!Queued
    BY <1>5 DEF Mon!WaitDown, MonInv
  <2>2. MonInv'
    BY <1>1, <1>5, <2>1 DEF Mon!WaitDown, MonInv, Mon!PC
  <2>3. MesaWaiting' = MesaWaiting /\ MesaWoken' = MesaWoken
    BY <1>1, <1>5, <2>1 DEF Mon!WaitDown, MonInv, MesaWaiting, MesaWoken
  <2>4. UNCHANGED <<monitor_holder, MesaWaiting, MesaWoken>>
    BY <1>5, <2>3 DEF Mon!WaitDown
  <2> QED
    BY <2>2, <2>4, MesaStutters
<1>6. CASE Mon!WaitAcquire(t)
  <2>1. MonInv'
    BY <1>1, <1>6 DEF Mon!WaitAcquire, MonInv, Mon!PC
  <2>2. /\ t \in MesaWoken
        /\ MesaWaiting' = MesaWaiting /\ MesaWoken' = MesaWoken \ {t}
    BY <1>1, <1>6 DEF Mon!WaitAcquire, MonInv, MesaWaiting, MesaWoken
  <2>3. Mon!M!Return(t)
    BY <1>6, <2>2, MesaIs DEF Mon!WaitAcquire
  <2> QED
    BY <2>1, <2>3 DEF Mon!M!Next
<1> QED
  BY <1>2, <1>3, <1>4, <1>5, <1>6

LEMMA MonStep ==
  MonInv /\ Mon!Next => MonInv' /\ (Mon!M!Next \/ UNCHANGED Mon!M!vars)
BY SignalStep, WaitStep, MonitorStep DEF Mon!Next

LEMMA MonInit == Mon!Init => MonInv /\ Mon!M!Init
<1> SUFFICES ASSUME Mon!Init PROVE MonInv /\ Mon!M!Init
  OBVIOUS
<1>1. monitor_waiters = <<>> /\ Mon!Queued = {}
  BY DEF Mon!Init, Mon!Queued
<1>2. NULL \notin Thread
  BY ServicesAssumption
<1>3. monitor_waiters \in Seq(Thread) /\ IsInjective(monitor_waiters)
  BY <1>1 DEF IsInjective
<1>4. MonInv
  BY <1>1, <1>2, <1>3 DEF Mon!Init, MonInv, Mon!PC
<1>5. Mon!M!Init
  BY <1>1, MesaIs DEF Mon!Init, MesaWaiting, MesaWoken
<1> QED
  BY <1>4, <1>5

LEMMA MonFrame ==
  MonInv /\ UNCHANGED Monvars => MonInv' /\ UNCHANGED Mon!M!vars
<1> SUFFICES ASSUME MonInv, UNCHANGED Monvars PROVE MonInv' /\ UNCHANGED Mon!M!vars
  OBVIOUS
<1>1. UNCHANGED <<monitor_pc, monitor_holder, monitor_waiters, monitor_semaphore>>
  BY DEF Monvars
<1>2. Mon!Queued' = Mon!Queued
  BY <1>1, QueuedIs, QueuedNext
<1>3. UNCHANGED <<monitor_holder, MesaWaiting, MesaWoken>>
  BY <1>1, <1>2 DEF MesaWaiting, MesaWoken
<1>4. MonInv'
  BY <1>1, <1>2 DEF MonInv
<1> QED
  BY <1>3, <1>4, MesaStutters

-----------------------------------------------------------------------------
(* The console: until a panic, the holder of the lock alone prints.        *)

ConInv ==
  /\ console_printing \in [Thread -> Nat]
  /\ console_holder \in Thread \cup {NULL}
  /\ console_depth \in Nat
  /\ console_use_lock \in BOOLEAN
  /\ Con!OutputIsNotMixed

LEMMA ConStep == ConInv /\ Con!Next => ConInv'
<1> SUFFICES ASSUME ConInv, Con!Next PROVE ConInv'
  OBVIOUS
<1>0. NULL \notin Thread
  BY ServicesAssumption
<1>1. ASSUME NEW t \in Thread, Con!Begin(t) PROVE ConInv'
  <2>1. CASE ~console_use_lock
    BY <1>0, <1>1, <2>1 DEF Con!Begin, Con!acquire_console, ConInv, Con!OutputIsNotMixed,
       Con!console_locked_by
  <2>2. CASE console_use_lock /\ console_holder = t
    BY <1>0, <1>1, <2>2 DEF Con!Begin, Con!acquire_console, ConInv, Con!OutputIsNotMixed,
       Con!console_locked_by
  <2>3. CASE console_use_lock /\ console_holder = NULL
    BY <1>0, <1>1, <2>3 DEF Con!Begin, Con!acquire_console, ConInv, Con!OutputIsNotMixed,
       Con!console_locked_by
  <2> QED
    BY <1>0, <1>1, <2>1, <2>2, <2>3 DEF Con!Begin, Con!acquire_console
<1>2. ASSUME NEW t \in Thread, Con!End(t) PROVE ConInv'
  <2>1. CASE ~console_use_lock
    BY <1>0, <1>2, <2>1 DEF Con!End, Con!release_console, ConInv, Con!OutputIsNotMixed,
       Con!console_locked_by
  <2>2. CASE console_use_lock
    BY <1>0, <1>2, <2>2 DEF Con!End, Con!release_console, ConInv, Con!OutputIsNotMixed,
       Con!console_locked_by
  <2> QED
    BY <2>1, <2>2
<1>3. CASE Con!Panic
  BY <1>3 DEF Con!Panic, ConInv, Con!OutputIsNotMixed, Con!console_locked_by
<1> QED
  BY <1>1, <1>2, <1>3 DEF Con!Next

LEMMA ConInit == Con!Init => ConInv
BY ServicesAssumption DEF Con!Init, ConInv, Con!OutputIsNotMixed, Con!console_locked_by

-----------------------------------------------------------------------------
(* The display shows the end of the sheet.                                 *)

(* The next tab stop, as ROUND_UP() finds it.                              *)
LEMMA NextStop ==
  ASSUME NEW s \in Nat \ {0}, NEW a \in Nat
  PROVE  /\ ((a + 1 + s - 1) \div s) * s = (a \div s + 1) * s
         /\ (a \div s + 1) * s \in Nat
<1>1. (a + 1 + s - 1) \div s = a \div s + 1
  OBVIOUS
<1>2. a \div s \in Nat
  OBVIOUS
<1> QED
  BY <1>1, <1>2

Row == [1 .. COL_CNT -> Char \cup {Vga!Space}]
Top(rows) == IF Len(rows) > ROW_CNT THEN Len(rows) - ROW_CNT ELSE 0
Shown(rows) ==
  [y \in 1 .. ROW_CNT |-> IF Top(rows) + y <= Len(rows) THEN rows[Top(rows) + y]
                          ELSE Vga!Blank]

VgaInv ==
  LET rows == vga_sheet.rows IN
  /\ vga_sheet = [rows |-> rows, x |-> vga_sheet.x]
  /\ rows \in Seq(Row) /\ rows # <<>>
  /\ vga_cx = vga_sheet.x /\ vga_cx \in 0 .. COL_CNT - 1
  /\ vga_cy = Len(rows) - Top(rows) - 1
  /\ vga_fb = Shown(rows)
  /\ vga_cursor = COL_CNT * vga_cy + vga_cx

LEMMA Dimensions ==
  /\ COL_CNT \in Nat \ {0} /\ ROW_CNT \in Nat \ {0} /\ TAB \in Nat \ {0}
  /\ \A c \in Char : c \notin {"\n", "\f", "BS", "\r", "\t"}
BY ServicesAssumption

LEMMA BlankRow == Vga!Blank \in Row
BY DEF Vga!Blank, Row

LEMMA FunctionIsSeq ==
  ASSUME NEW S, NEW n \in Nat, NEW f \in [1 .. n -> S]
  PROVE  f \in Seq(S) /\ Len(f) = n
OBVIOUS

LEMMA SameRows ==
  ASSUME NEW f \in [1 .. ROW_CNT -> Row], NEW g \in [1 .. ROW_CNT -> Row],
         \A y \in 1 .. ROW_CNT : f[y] = g[y]
  PROVE  f = g
<1>1. f = [y \in 1 .. ROW_CNT |-> f[y]]
  OBVIOUS
<1>2. g = [y \in 1 .. ROW_CNT |-> g[y]]
  OBVIOUS
<1> QED
  BY <1>1, <1>2, Zenon

LEMMA ShownAt ==
  ASSUME NEW rows
  PROVE  \A y \in 1 .. ROW_CNT :
           Shown(rows)[y] = IF Top(rows) + y <= Len(rows) THEN rows[Top(rows) + y]
                            ELSE Vga!Blank
BY DEF Shown

LEMMA ShownIsSeq ==
  ASSUME NEW rows \in Seq(Row), rows # <<>>
  PROVE  /\ Shown(rows) \in Seq(Row) /\ Shown(rows) # <<>> /\ Len(Shown(rows)) = ROW_CNT
         /\ Shown(rows) \in [1 .. ROW_CNT -> Row]
         /\ Top(rows) \in Nat /\ Len(rows) - Top(rows) \in 1 .. ROW_CNT
<1>1. /\ Len(rows) \in Nat \ {0} /\ ROW_CNT \in Nat \ {0}
      /\ \A i \in 1 .. Len(rows) : rows[i] \in Row
  BY Dimensions, EmptySeq
<1>2. Top(rows) \in Nat /\ Len(rows) - Top(rows) \in 1 .. ROW_CNT
  BY <1>1 DEF Top
<1>3. Shown(rows) \in [1 .. ROW_CNT -> Row]
  <2>1. ASSUME NEW y \in 1 .. ROW_CNT
        PROVE  (IF Top(rows) + y <= Len(rows) THEN rows[Top(rows) + y]
                ELSE Vga!Blank) \in Row
    BY <1>1, <1>2, BlankRow
  <2> QED
    BY <2>1 DEF Shown
<1>4. Shown(rows) \in Seq(Row) /\ Len(Shown(rows)) = ROW_CNT
  BY <1>1, <1>3, FunctionIsSeq
<1>5. Shown(rows) # <<>>
  BY <1>1, <1>4, EmptySeq
<1> QED
  BY <1>2, <1>3, <1>4, <1>5

(* A new row on the sheet is a new row on the display, which scrolls if it *)
(* is full.                                                                *)
LEMMA NewRow ==
  ASSUME NEW rows \in Seq(Row), rows # <<>>
  PROVE  LET more == Append(rows, Vga!Blank)
             y == Len(rows) - Top(rows)
         IN /\ more \in Seq(Row) /\ more # <<>>
            /\ Shown(more) = IF y >= ROW_CNT THEN Append(Tail(Shown(rows)), Vga!Blank)
                             ELSE Shown(rows)
            /\ Len(more) - Top(more) - 1 = IF y >= ROW_CNT THEN ROW_CNT - 1 ELSE y
<1> DEFINE more == Append(rows, Vga!Blank)
           n == Len(rows)
           s == Shown(rows)
           t == Tail(s)
           a == Append(t, Vga!Blank)
<1>1. n \in Nat \ {0} /\ ROW_CNT \in Nat \ {0} /\ \A i \in 1 .. n : rows[i] \in Row
  BY Dimensions, EmptySeq
<1>2. /\ more \in Seq(Row) /\ more # <<>> /\ Len(more) = n + 1
      /\ more[n + 1] = Vga!Blank /\ \A i \in 1 .. n : more[i] = rows[i]
  BY BlankRow, AppendProperties
<1>3. /\ s \in Seq(Row) /\ s # <<>> /\ Len(s) = ROW_CNT
      /\ s \in [1 .. ROW_CNT -> Row]
  BY ShownIsSeq
<1>4. \A y \in 1 .. ROW_CNT : s[y] = IF Top(rows) + y <= n THEN rows[Top(rows) + y]
                                     ELSE Vga!Blank
  BY DEF Shown
<1>5. /\ t \in Seq(Row) /\ Len(t) = ROW_CNT - 1
      /\ \A i \in 1 .. ROW_CNT - 1 : t[i] = s[i + 1]
  BY <1>3, HeadTailProperties
<1> HIDE DEF s, t
<1>6. /\ a \in Seq(Row) /\ Len(a) = ROW_CNT /\ a[ROW_CNT] = Vga!Blank
      /\ \A i \in 1 .. ROW_CNT - 1 : a[i] = t[i]
  BY <1>1, <1>5, BlankRow, AppendProperties
<1>7. /\ Shown(more) \in [1 .. ROW_CNT -> Row]
      /\ \A y \in 1 .. ROW_CNT :
           Shown(more)[y] = IF Top(more) + y <= n + 1 THEN more[Top(more) + y]
                            ELSE Vga!Blank
  BY <1>2, ShownIsSeq DEF Shown
<1>8. a \in [1 .. ROW_CNT -> Row]
  BY <1>1, <1>6, LenProperties
<1> HIDE DEF a, more
<1>9. CASE n >= ROW_CNT
  <2>1. Top(more) = n + 1 - ROW_CNT /\ Top(rows) = n - ROW_CNT
    BY <1>1, <1>2, <1>9 DEF Top
  <2>2. ASSUME NEW y \in 1 .. ROW_CNT PROVE Shown(more)[y] = a[y]
    <3>1. CASE y = ROW_CNT
      BY <1>1, <1>2, <1>6, <1>7, <1>9, <2>1, <3>1
    <3>2. CASE y # ROW_CNT
      <4>1. y \in 1 .. ROW_CNT - 1 /\ y + 1 \in 1 .. ROW_CNT
        BY <1>1, <3>2
      <4>2. a[y] = s[y + 1]
        BY <1>5, <1>6, <4>1
      <4>3. s[y + 1] = rows[n + 1 - ROW_CNT + y]
        BY <1>1, <1>4, <1>9, <2>1, <4>1
      <4>4. n + 1 - ROW_CNT + y \in 1 .. n
        BY <1>1, <1>9, <4>1
      <4>5. Shown(more)[y] = more[n + 1 - ROW_CNT + y]
        BY <1>1, <1>7, <2>1, <4>4
      <4> QED
        BY <1>2, <4>2, <4>3, <4>4, <4>5
    <3> QED
      BY <3>1, <3>2
  <2>3. Shown(more) = a
    <3>1. Shown(more) \in [1 .. ROW_CNT -> Row]
      BY <1>7
    <3>2. \A y \in 1 .. ROW_CNT : Shown(more)[y] = a[y]
      BY <2>2
    <3> QED
      BY <1>8, <3>1, <3>2, SameRows
  <2>4. n - Top(rows) >= ROW_CNT /\ Len(more) - Top(more) - 1 = ROW_CNT - 1
    BY <1>1, <1>2, <2>1
  <2> QED
    BY <1>2, <2>3, <2>4 DEF a, more, t, s
<1>10. CASE ~(n >= ROW_CNT)
  <2>1. Top(more) = 0 /\ Top(rows) = 0
    BY <1>1, <1>2, <1>10 DEF Top
  <2>2. ASSUME NEW y \in 1 .. ROW_CNT PROVE Shown(more)[y] = s[y]
    <3>1. CASE y <= n
      BY <1>1, <1>2, <1>4, <1>7, <2>1, <3>1
    <3>2. CASE y = n + 1
      BY <1>1, <1>2, <1>4, <1>7, <2>1, <3>2
    <3>3. CASE y > n + 1
      BY <1>1, <1>2, <1>4, <1>7, <2>1, <3>3
    <3> QED
      BY <1>1, <3>1, <3>2, <3>3
  <2>3. Shown(more) = s
    BY <1>3, <1>7, <2>2
  <2>4. ~(n - Top(rows) >= ROW_CNT) /\ Len(more) - Top(more) - 1 = n - Top(rows)
    BY <1>1, <1>2, <1>10, <2>1
  <2> QED
    BY <1>2, <2>3, <2>4 DEF more, s
<1> QED
  BY <1>9, <1>10

(* A character in the last row of the sheet is one in the row of the       *)
(* display that shows it.                                                  *)
LEMMA LastRow ==
  ASSUME NEW rows \in Seq(Row), rows # <<>>, NEW r \in Row
  PROVE  LET marked == [rows EXCEPT ![Len(rows)] = r]
         IN /\ marked \in Seq(Row) /\ marked # <<>>
            /\ Len(marked) = Len(rows) /\ Top(marked) = Top(rows)
            /\ Shown(marked) = [Shown(rows) EXCEPT ![Len(rows) - Top(rows)] = r]
            /\ Shown(rows)[Len(rows) - Top(rows)] = rows[Len(rows)]
<1> DEFINE n == Len(rows)
           marked == [rows EXCEPT ![n] = r]
           k == n - Top(rows)
           e == [Shown(rows) EXCEPT ![k] = r]
<1>1. n \in Nat \ {0} /\ ROW_CNT \in Nat \ {0} /\ \A i \in 1 .. n : rows[i] \in Row
  BY Dimensions, EmptySeq
<1>2. /\ marked \in Seq(Row) /\ Len(marked) = n
      /\ \A i \in 1 .. n : marked[i] = IF i = n THEN r ELSE rows[i]
  BY <1>1, ExceptSeq
<1>3. marked # <<>>
  BY <1>1, <1>2, EmptySeq
<1>4. Top(marked) = Top(rows)
  BY <1>2 DEF Top
<1>5. /\ Top(rows) \in Nat /\ k \in 1 .. ROW_CNT
      /\ Shown(rows) \in [1 .. ROW_CNT -> Row]
  BY ShownIsSeq
<1>6. /\ Shown(marked) \in [1 .. ROW_CNT -> Row]
      /\ \A y \in 1 .. ROW_CNT :
           /\ Shown(marked)[y] = IF Top(rows) + y <= n THEN marked[Top(rows) + y]
                                 ELSE Vga!Blank
           /\ Shown(rows)[y] = IF Top(rows) + y <= n THEN rows[Top(rows) + y]
                               ELSE Vga!Blank
  <2>1. Shown(marked) \in [1 .. ROW_CNT -> Row]
    BY <1>2, <1>3, ShownIsSeq
  <2> HIDE DEF marked
  <2>2. \A y \in 1 .. ROW_CNT :
          Shown(marked)[y] = IF Top(rows) + y <= n THEN marked[Top(rows) + y]
                             ELSE Vga!Blank
    BY <1>2, <1>4, ShownAt
  <2> QED
    BY <2>1, <2>2, ShownAt
<1>7. /\ e \in [1 .. ROW_CNT -> Row]
      /\ \A y \in 1 .. ROW_CNT : e[y] = IF y = k THEN r ELSE Shown(rows)[y]
  BY <1>5
<1> HIDE DEF e, marked
<1>8. ASSUME NEW y \in 1 .. ROW_CNT PROVE Shown(marked)[y] = e[y]
  <2>1. CASE y = k
    BY <1>1, <1>2, <1>5, <1>6, <1>7, <2>1
  <2>2. CASE y # k /\ Top(rows) + y <= n
    <3>1. Top(rows) + y \in 1 .. n /\ Top(rows) + y # n
      BY <1>1, <1>5, <2>2
    <3> QED
      BY <1>2, <1>6, <1>7, <2>2, <3>1
  <2>3. CASE y # k /\ ~(Top(rows) + y <= n)
    BY <1>6, <1>7, <2>3
  <2> QED
    BY <2>1, <2>2, <2>3
<1>9. Shown(marked) = e
  <2>1. Shown(marked) \in [1 .. ROW_CNT -> Row] /\ e \in [1 .. ROW_CNT -> Row]
    BY <1>6, <1>7
  <2>2. \A y \in 1 .. ROW_CNT : Shown(marked)[y] = e[y]
    BY <1>8
  <2> QED
    BY <2>1, <2>2, SameRows
<1>10. Shown(rows)[k] = rows[n]
  BY <1>1, <1>5, <1>6
<1> QED
  BY <1>2, <1>3, <1>4, <1>9, <1>10 DEF e, marked

(* newline(), when the display shows the end of rows.                      *)
LEMMA NewlineStep ==
  ASSUME NEW rows \in Seq(Row), rows # <<>>, Vga!newline(Shown(rows)),
         vga_cy = Len(rows) - Top(rows) - 1
  PROVE  LET more == Append(rows, Vga!Blank)
         IN /\ more \in Seq(Row) /\ more # <<>>
            /\ vga_cx' = 0 /\ vga_fb' = Shown(more)
            /\ vga_cy' = Len(more) - Top(more) - 1
<1> DEFINE more == Append(rows, Vga!Blank)
           y == Len(rows) - Top(rows)
<1>1. /\ more \in Seq(Row) /\ more # <<>>
      /\ Shown(more) = IF y >= ROW_CNT THEN Append(Tail(Shown(rows)), Vga!Blank)
                       ELSE Shown(rows)
      /\ Len(more) - Top(more) - 1 = IF y >= ROW_CNT THEN ROW_CNT - 1 ELSE y
  BY NewRow
<1>2. vga_cy + 1 = y /\ y \in Nat
  BY SMTT(30), ShownIsSeq
<1>3. /\ vga_cx' = 0
      /\ vga_cy' = IF y >= ROW_CNT THEN ROW_CNT - 1 ELSE y
      /\ vga_fb' = IF y >= ROW_CNT THEN Append(Tail(Shown(rows)), Vga!Blank)
                   ELSE Shown(rows)
  BY <1>2 DEF Vga!newline
<1> HIDE DEF more, y
<1> QED
  BY <1>1, <1>3 DEF more

(* What VgaInv says of the frame buffer and the position.                  *)
ShowsSheet(sheet, fb, cx, cy) ==
  /\ sheet = [rows |-> sheet.rows, x |-> sheet.x]
  /\ sheet.rows \in Seq(Row) /\ sheet.rows # <<>>
  /\ cx = sheet.x /\ cx \in 0 .. COL_CNT - 1
  /\ cy = Len(sheet.rows) - Top(sheet.rows) - 1
  /\ fb = Shown(sheet.rows)

LEMMA InvIs ==
  VgaInv <=> /\ ShowsSheet(vga_sheet, vga_fb, vga_cx, vga_cy)
             /\ vga_cursor = COL_CNT * vga_cy + vga_cx
BY DEF VgaInv, ShowsSheet

(* A character moves within the row, or to a new one.                      *)
LEMMA MoveStep ==
  ASSUME VgaInv, NEW x \in 0 .. COL_CNT - 1,
         vga_sheet' = Vga!Column(vga_sheet, x), vga_cx' = x, UNCHANGED <<vga_cy, vga_fb>>
  PROVE  ShowsSheet(vga_sheet', vga_fb', vga_cx', vga_cy')
<1>1. vga_sheet' = [rows |-> vga_sheet.rows, x |-> x]
  BY Dimensions DEF Vga!Column, VgaInv
<1> QED
  BY <1>1 DEF VgaInv, ShowsSheet

LEMMA RowStep ==
  ASSUME NEW rows \in Seq(Row), rows # <<>>, Vga!newline(Shown(rows)),
         vga_cy = Len(rows) - Top(rows) - 1, NEW s, NEW x \in Nat, s.rows = rows,
         x >= COL_CNT, vga_sheet' = Vga!Column(s, x)
  PROVE  ShowsSheet(vga_sheet', vga_fb', vga_cx', vga_cy')
<1>1. vga_sheet' = [rows |-> Append(rows, Vga!Blank), x |-> 0]
  BY Dimensions DEF Vga!Column
<1>2. 0 \in 0 .. COL_CNT - 1
  BY Dimensions
<1> DEFINE more == Append(rows, Vga!Blank)
<1>3. /\ more \in Seq(Row) /\ more # <<>>
      /\ vga_cx' = 0 /\ vga_fb' = Shown(more)
      /\ vga_cy' = Len(more) - Top(more) - 1
  BY NewlineStep
<1> HIDE DEF more
<1>4. vga_sheet'.rows = more /\ vga_sheet'.x = 0
      /\ vga_sheet' = [rows |-> vga_sheet'.rows, x |-> vga_sheet'.x]
  BY <1>1 DEF more
<1> QED
  BY <1>2, <1>3, <1>4 DEF ShowsSheet

LEMMA OtherRows ==
  ASSUME NEW sheet, NEW a, NEW b, NEW x, sheet = [rows |-> a, x |-> x]
  PROVE  [sheet EXCEPT !.rows = b] = [rows |-> b, x |-> x]
OBVIOUS

LEMMA PutStep ==
  ASSUME VgaInv, NEW c \in Char \cup {"\n", "\f", "BS", "\r", "\t"}, Vga!vga_putc(c)
  PROVE  VgaInv'
<1> DEFINE rows == vga_sheet.rows
           Shows == ShowsSheet(vga_sheet', vga_fb', vga_cx', vga_cy')
<1>1. /\ rows \in Seq(Row) /\ rows # <<>> /\ vga_fb = Shown(rows)
      /\ vga_sheet = [rows |-> rows, x |-> vga_cx] /\ vga_sheet.x = vga_cx
      /\ vga_cx \in 0 .. COL_CNT - 1
      /\ vga_cy = Len(rows) - Top(rows) - 1
  BY DEF VgaInv
<1>2. /\ vga_sheet' = Vga!Printed(vga_sheet, c)
      /\ vga_cursor' = vga_cx' + COL_CNT * vga_cy'
  BY DEF Vga!vga_putc, Vga!move_cursor
<1>3. COL_CNT \in Nat \ {0} /\ TAB \in Nat \ {0} /\ vga_cx \in Nat /\ vga_sheet.rows = rows
  BY <1>1, Dimensions
<1> HIDE DEF rows
<1>4. ASSUME c = "\n" PROVE Shows
  <2>1. Vga!newline(Shown(rows))
    BY <1>1, <1>4, Dimensions DEF Vga!vga_putc
  <2>2. vga_sheet' = Vga!Column(vga_sheet, COL_CNT)
    BY <1>2, <1>4 DEF Vga!Printed
  <2>3. COL_CNT \in Nat /\ COL_CNT >= COL_CNT
    BY <1>3
  <2> QED
    BY <1>1, <1>3, <2>1, <2>2, <2>3, RowStep
<1>5. ASSUME c = "\f" PROVE Shows
  <2>1. Vga!cls /\ vga_sheet' = [rows |-> <<Vga!Blank>>, x |-> 0]
    BY <1>2, <1>5, Dimensions DEF Vga!vga_putc, Vga!Printed
  <2>2. /\ <<Vga!Blank>> \in Seq(Row) /\ <<Vga!Blank>> # <<>> /\ Len(<<Vga!Blank>>) = 1
        /\ <<Vga!Blank>>[1] = Vga!Blank
    BY BlankRow
  <2> DEFINE one == <<Vga!Blank>>
  <2> HIDE DEF one
  <2>3. Top(one) = 0
    BY <2>2, Dimensions DEF Top, one
  <2>4. Shown(one) = [y \in 1 .. ROW_CNT |-> Vga!Blank]
    <3>1. \A y \in 1 .. ROW_CNT :
            (IF Top(one) + y <= Len(one) THEN one[Top(one) + y] ELSE Vga!Blank) = Vga!Blank
      BY <2>2, <2>3 DEF one
    <3> QED
      BY <3>1 DEF Shown
  <2> QED
    BY <1>3, <2>1, <2>2, <2>3, <2>4 DEF ShowsSheet, Vga!cls, one
<1>6. ASSUME c = "BS" PROVE Shows
  <2> DEFINE x == IF vga_cx = 0 THEN 0 ELSE vga_cx - 1
  <2>1. x \in 0 .. COL_CNT - 1
    BY <1>1, <1>3
  <2>2. vga_cx' = x /\ UNCHANGED <<vga_cy, vga_fb>>
    BY <1>1, <1>3, <1>6, Dimensions DEF Vga!vga_putc
  <2>3. vga_sheet' = Vga!Column(vga_sheet, x)
    BY <1>1, <1>2, <1>6 DEF Vga!Printed
  <2> HIDE DEF x
  <2> QED
    BY <2>1, <2>2, <2>3, MoveStep
<1>7. ASSUME c = "\r" PROVE Shows
  <2>1. vga_cx' = 0 /\ UNCHANGED <<vga_cy, vga_fb>> /\ 0 \in 0 .. COL_CNT - 1
    BY <1>3, <1>7, Dimensions DEF Vga!vga_putc
  <2>2. vga_sheet' = Vga!Column(vga_sheet, 0)
    BY <1>2, <1>7 DEF Vga!Printed
  <2> QED
    BY <2>1, <2>2, MoveStep
<1>8. ASSUME c = "\t" PROVE Shows
  <2> DEFINE x == (vga_cx \div TAB + 1) * TAB
  <2>1. Vga!ROUND_UP(vga_cx + 1, TAB) = x /\ x \in Nat
    BY <1>3, NextStop DEF Vga!ROUND_UP
  <2>2. vga_sheet' = Vga!Column(vga_sheet, x)
    BY <1>1, <1>2, <1>8 DEF Vga!Printed
  <2> HIDE DEF x
  <2>3. Vga!Tab
    BY <1>8, Dimensions DEF Vga!vga_putc
  <2>4. CASE x >= COL_CNT
    <3>1. Vga!newline(Shown(rows))
      BY <1>1, <2>1, <2>3, <2>4 DEF Vga!Tab
    <3> QED
      BY <1>1, <1>3, <2>1, <2>2, <2>4, <3>1, RowStep
  <2>5. CASE ~(x >= COL_CNT)
    <3>1. x \in 0 .. COL_CNT - 1
      BY <1>3, <2>1, <2>5
    <3>2. vga_cx' = x /\ UNCHANGED <<vga_cy, vga_fb>>
      BY <2>1, <2>3, <2>5 DEF Vga!Tab
    <3> QED
      BY <2>2, <3>1, <3>2, MoveStep
  <2> QED
    BY <2>4, <2>5
<1>9. ASSUME c \in Char PROVE Shows
  <2> DEFINE n == Len(rows)
             r == [rows[n] EXCEPT ![vga_cx + 1] = c]
             marked == [rows EXCEPT ![n] = r]
             s == [rows |-> marked, x |-> vga_cx]
  <2>1. c \notin {"\n", "\f", "BS", "\r", "\t"}
    BY <1>9, Dimensions
  <2>2. Vga!Show(c)
    BY <2>1 DEF Vga!vga_putc
  <2>3. vga_sheet' = Vga!Column([vga_sheet EXCEPT !.rows = marked], vga_cx + 1)
    <3>1. c # "\n" /\ c # "\f" /\ c # "BS" /\ c # "\r" /\ c # "\t"
      BY <2>1
    <3>2. Vga!Printed(vga_sheet, c) = Vga!Column([vga_sheet EXCEPT !.rows = marked], vga_cx + 1)
      BY <1>1, <1>3, <3>1 DEF Vga!Printed
    <3> QED
      BY <1>2, <3>2, Zenon
  <2>5. r \in Row
    <3>1. n \in 1 .. n /\ rows[n] \in Row
      BY <1>1, EmptySeq
    <3>2. vga_cx + 1 \in 1 .. COL_CNT
      BY <1>1, <1>3
    <3> QED
      BY <1>9, <3>1, <3>2 DEF Row
  <2> HIDE DEF r
  <2>6. /\ marked \in Seq(Row) /\ marked # <<>>
        /\ Len(marked) = n /\ Top(marked) = Top(rows)
        /\ Shown(marked) = [Shown(rows) EXCEPT ![n - Top(rows)] = r]
        /\ Shown(rows)[n - Top(rows)] = rows[n]
    BY <1>1, <2>5, LastRow
  <2> HIDE DEF marked
  <2>4. [vga_sheet EXCEPT !.rows = marked] = s
    <3>1. vga_sheet = [rows |-> rows, x |-> vga_cx]
      BY <1>1
    <3> QED
      BY <3>1, OtherRows
  <2>7. vga_cy + 1 = n - Top(rows)
    BY <1>1, ShownIsSeq
  <2>8. [vga_fb EXCEPT ![vga_cy + 1] = [@ EXCEPT ![vga_cx + 1] = c]] = Shown(marked)
    BY <1>1, <2>6, <2>7 DEF r
  <2>9. IF vga_cx + 1 >= COL_CNT THEN Vga!newline(Shown(marked))
        ELSE vga_cx' = vga_cx + 1 /\ vga_fb' = Shown(marked) /\ UNCHANGED vga_cy
    BY <2>2, <2>8, Zenon DEF Vga!Show
  <2>10. s.rows = marked
    OBVIOUS
  <2>11. vga_sheet' = Vga!Column(s, vga_cx + 1)
    BY <2>3, <2>4
  <2>12. vga_cy = Len(marked) - Top(marked) - 1
    BY <1>1, <2>6
  <2>13. CASE vga_cx + 1 >= COL_CNT
    <3>1. vga_cx + 1 \in Nat /\ Vga!newline(Shown(marked))
      BY <1>3, <2>9, <2>13
    <3> HIDE DEF s
    <3> QED
      BY <2>6, <2>10, <2>11, <2>12, <2>13, <3>1, RowStep
  <2>14. CASE ~(vga_cx + 1 >= COL_CNT)
    <3>1. vga_cx + 1 \in 0 .. COL_CNT - 1 /\ vga_cx + 1 < COL_CNT
      BY <1>1, <1>3, <2>14
    <3>2. vga_cx' = vga_cx + 1 /\ vga_fb' = Shown(marked) /\ UNCHANGED vga_cy
      BY <2>9, <2>14
    <3>3. vga_sheet' = [rows |-> marked, x |-> vga_cx + 1]
      BY <2>11, <3>1 DEF Vga!Column
    <3> QED
      BY <2>6, <2>12, <3>1, <3>2, <3>3 DEF ShowsSheet
  <2> QED
    BY <2>13, <2>14
<1>10. Shows
  BY <1>4, <1>5, <1>6, <1>7, <1>8, <1>9
<1>11. vga_cx' + COL_CNT * vga_cy' = COL_CNT * vga_cy' + vga_cx'
  <2>1. vga_cx' \in Int /\ vga_cy' \in Int
    <3>1. ASSUME NEW q \in Seq(Row), q # <<>> PROVE Len(q) - Top(q) - 1 \in Int
      BY <3>1, ShownIsSeq
    <3> QED
      BY <1>3, <1>10, <3>1 DEF ShowsSheet
  <2> QED
    BY <1>3, <2>1
<1> QED
  BY <1>2, <1>10, <1>11 DEF VgaInv, ShowsSheet

LEMMA VgaStep == VgaInv /\ Vga!Next => VgaInv'
<1> SUFFICES ASSUME VgaInv, Vga!Next PROVE VgaInv'
  OBVIOUS
<1>1. CASE Vga!Beep
  BY <1>1 DEF Vga!Beep, VgaInv
<1>2. CASE Vga!BeepEnds
  <2>1. /\ UNCHANGED <<vga_fb, vga_cx, vga_cy, vga_sheet>>
        /\ vga_cursor' = vga_cx' + COL_CNT * vga_cy'
    BY <1>2 DEF Vga!BeepEnds, Vga!move_cursor
  <2>2. vga_cx \in Int /\ vga_cy \in Int /\ COL_CNT \in Int
    BY ShownIsSeq, Dimensions DEF VgaInv
  <2>3. vga_cursor' = COL_CNT * vga_cy + vga_cx
    BY <2>1, <2>2
  <2> QED
    BY <2>1, <2>3 DEF VgaInv
<1> QED
  BY <1>1, <1>2, PutStep DEF Vga!Next

LEMMA VgaInit == Vga!Init => VgaInv
<1> SUFFICES ASSUME Vga!Init PROVE VgaInv
  OBVIOUS
<1> DEFINE one == <<Vga!Blank>>
<1>1. /\ one \in Seq(Row) /\ one # <<>> /\ Len(one) = 1 /\ one[1] = Vga!Blank
  BY BlankRow
<1> HIDE DEF one
<1>2. Top(one) = 0
  BY <1>1, Dimensions DEF Top
<1>3. Shown(one) = [y \in 1 .. ROW_CNT |-> Vga!Blank]
  <2>1. \A y \in 1 .. ROW_CNT :
          (IF Top(one) + y <= Len(one) THEN one[Top(one) + y] ELSE Vga!Blank) = Vga!Blank
    BY <1>1, <1>2
  <2> QED
    BY <2>1 DEF Shown
<1>4. /\ vga_sheet = [rows |-> one, x |-> 0] /\ vga_fb = Shown(one)
      /\ vga_cx = 0 /\ vga_cy = 0 /\ vga_cursor = 0
  BY <1>3 DEF Vga!Init, one
<1>5. 0 \in 0 .. COL_CNT - 1 /\ COL_CNT * 0 + 0 = 0
  BY Dimensions
<1> QED
  BY <1>1, <1>2, <1>4, <1>5 DEF VgaInv

LEMMA VgaSound == VgaInv => Vga!ScreenShowsOutput
<1> SUFFICES ASSUME VgaInv PROVE Vga!ScreenShowsOutput
  OBVIOUS
<1> DEFINE rows == vga_sheet.rows
<1>1. /\ rows \in Seq(Row) /\ rows # <<>> /\ vga_cx = vga_sheet.x
      /\ vga_cy = Len(rows) - Top(rows) - 1 /\ vga_fb = Shown(rows)
      /\ vga_cursor = COL_CNT * vga_cy + vga_cx
  BY DEF VgaInv
<1>2. Top(rows) = IF Len(rows) > ROW_CNT THEN Len(rows) - ROW_CNT ELSE 0
  BY DEF Top
<1>3. Top(rows) + vga_cy + 1 = Len(rows)
  BY <1>1, ShownIsSeq, EmptySeq
<1>4. vga_fb = [y \in 1 .. ROW_CNT |-> IF Top(rows) + y <= Len(rows) THEN rows[Top(rows) + y]
                                      ELSE Vga!Blank]
  BY <1>1 DEF Shown
<1> QED
  BY <1>1, <1>2, <1>3, <1>4 DEF Vga!ScreenShowsOutput

-----------------------------------------------------------------------------
(* The block allocator: lemmas about free lists.                           *)

Block == Page \X Nat

LEMMA HeadLeaves ==
  ASSUME NEW S, NEW q \in Seq(S), IsInjective(q), q # <<>>
  PROVE  /\ Head(q) \in ToSet(q) /\ Tail(q) \in Seq(S) /\ IsInjective(Tail(q))
         /\ ToSet(Tail(q)) = ToSet(q) \ {Head(q)}
<1> DEFINE r == Tail(q)
<1>1. /\ r \in Seq(S) /\ \A i \in DOMAIN r : r[i] = q[i + 1]
      /\ DOMAIN r = 1 .. Len(q) - 1 /\ DOMAIN q = 1 .. Len(q)
      /\ Len(q) \in Nat \ {0} /\ Head(q) = q[1]
  BY HeadTailProperties, EmptySeq
<1>2. IsInjective(r)
  BY <1>1 DEF IsInjective
<1>3. \A x : x \in ToSet(r) <=> x \in ToSet(q) /\ x # q[1]
  <2>1. \A i \in DOMAIN r : r[i] \in ToSet(q) /\ r[i] # q[1]
    BY <1>1 DEF ToSet, IsInjective
  <2>2. ASSUME NEW i \in DOMAIN q, q[i] # q[1]
        PROVE  q[i] \in ToSet(r)
    <3>1. i - 1 \in DOMAIN r /\ r[i - 1] = q[i]
      BY <1>1, <2>2
    <3> QED
      BY <3>1 DEF ToSet
  <2> HIDE DEF r
  <2> QED
    BY <2>1, <2>2 DEF ToSet
<1>4. Head(q) \in ToSet(q)
  BY <1>1 DEF ToSet
<1> QED
  BY <1>1, <1>2, <1>3, <1>4

LEMMA FrontJoins ==
  ASSUME NEW S, NEW q \in Seq(S), IsInjective(q), NEW b \in S \ ToSet(q)
  PROVE  /\ <<b>> \o q \in Seq(S) /\ IsInjective(<<b>> \o q)
         /\ ToSet(<<b>> \o q) = ToSet(q) \cup {b}
<1> DEFINE r == <<b>> \o q
           n == Len(q)
<1>1. /\ n \in Nat /\ r \in Seq(S) /\ DOMAIN r = 1 .. n + 1 /\ DOMAIN q = 1 .. n
      /\ r[1] = b /\ \A i \in 2 .. n + 1 : r[i] = q[i - 1]
  <2>1. <<b>> \in Seq(S) /\ Len(<<b>>) = 1 /\ <<b>>[1] = b /\ n \in Nat
    OBVIOUS
  <2>2. /\ r \in Seq(S) /\ Len(r) = 1 + n
        /\ \A i \in 1 .. 1 + n : r[i] = IF i <= 1 THEN <<b>>[i] ELSE q[i - 1]
    BY <2>1, ConcatProperties
  <2> HIDE DEF r
  <2> QED
    BY <2>1, <2>2
<1> HIDE DEF r
<1>2. \A i \in 1 .. n : q[i] # b /\ q[i] \in ToSet(q)
  BY <1>1 DEF ToSet
<1>3. \A i, j \in 1 .. n : q[i] = q[j] => i = j
  BY <1>1 DEF IsInjective
<1>4. ASSUME NEW i \in 1 .. n + 1, NEW j \in 1 .. n + 1, r[i] = r[j] PROVE i = j
  <2>1. CASE i = 1 \/ j = 1
    BY <1>1, <1>2, <1>4, <2>1
  <2>2. CASE i # 1 /\ j # 1
    <3>1. i - 1 \in 1 .. n /\ j - 1 \in 1 .. n /\ q[i - 1] = q[j - 1]
      BY <1>1, <1>4, <2>2
    <3> QED
      BY <1>1, <1>3, <3>1
  <2> QED
    BY <2>1, <2>2
<1>5. IsInjective(r)
  BY <1>1, <1>4 DEF IsInjective
<1>6. \A i \in 1 .. n + 1 : r[i] \in ToSet(q) \cup {b}
  <2>1. ASSUME NEW i \in 2 .. n + 1 PROVE r[i] \in ToSet(q)
    <3>1. i - 1 \in 1 .. n
      BY <1>1
    <3> QED
      BY <1>1, <1>2, <3>1
  <2> QED
    BY <1>1, <2>1
<1>7. \A i \in 1 .. n : q[i] \in ToSet(r)
  <2>1. ASSUME NEW i \in 1 .. n PROVE i + 1 \in DOMAIN r /\ r[i + 1] = q[i]
    BY <1>1
  <2> QED
    BY <2>1 DEF ToSet
<1>8. b \in ToSet(r)
  BY <1>1 DEF ToSet
<1>9. ToSet(r) = ToSet(q) \cup {b}
  BY <1>1, <1>6, <1>7, <1>8 DEF ToSet
<1> QED
  BY <1>1, <1>5, <1>9 DEF r

(* The k-th smallest of a set of indices: there is one for each k.         *)
LEMMA NthIs ==
  ASSUME NEW n \in Nat, NEW K \in SUBSET (1 .. n)
  PROVE  /\ Cardinality(K) \in Nat
         /\ \A k \in 1 .. Cardinality(K) : Nth(K, k) \in K
         /\ \A k, m \in 1 .. Cardinality(K) : Nth(K, k) = Nth(K, m) => k = m
         /\ \A i \in K : \E k \in 1 .. Cardinality(K) : Nth(K, k) = i
<1> DEFINE Upto(i) == {j \in K : j <= i}
           c == Cardinality(K)
           rank == [i \in K |-> Cardinality(Upto(i))]
<1>1. IsFiniteSet(K) /\ c \in Nat
  <2>1. IsFiniteSet(1 .. n)
    BY FS_Interval
  <2>2. IsFiniteSet(K)
    BY <2>1, FS_Subset
  <2> QED
    BY <2>2, FS_CardinalityType
<1>2. \A i \in K : /\ IsFiniteSet(Upto(i)) /\ Cardinality(Upto(i)) \in Nat
                   /\ Cardinality(Upto(i)) <= c
  <2> SUFFICES ASSUME NEW i \in K
               PROVE  /\ IsFiniteSet(Upto(i)) /\ Cardinality(Upto(i)) \in Nat
                      /\ Cardinality(Upto(i)) <= c
    OBVIOUS
  <2>1. Upto(i) \in SUBSET K
    OBVIOUS
  <2> QED
    BY <1>1, <2>1, FS_Subset, FS_CardinalityType
<1>3. \A i \in K : Cardinality(Upto(i)) # 0
  <2> SUFFICES ASSUME NEW i \in K PROVE Cardinality(Upto(i)) # 0
    OBVIOUS
  <2>1. i \in Upto(i)
    OBVIOUS
  <2> QED
    BY <1>2, <2>1, FS_EmptySet
<1>4. \A i, j \in K : i < j => Cardinality(Upto(i)) < Cardinality(Upto(j))
  <2> SUFFICES ASSUME NEW i \in K, NEW j \in K, i < j
               PROVE  Cardinality(Upto(i)) < Cardinality(Upto(j))
    OBVIOUS
  <2>1. Upto(i) \in SUBSET Upto(j) /\ j \in Upto(j) /\ j \notin Upto(i)
    <3>1. i \in Int /\ j \in Int /\ \A k \in K : k \in Int
      OBVIOUS
    <3>2. \A k \in K : k <= i => k <= j
      BY <3>1
    <3>3. j <= j /\ ~(j <= i)
      BY <3>1
    <3> QED
      BY <3>2, <3>3
  <2> HIDE DEF Upto
  <2>2. Cardinality(Upto(i)) <= Cardinality(Upto(j))
    BY <1>2, <2>1, FS_Subset
  <2>3. Cardinality(Upto(i)) # Cardinality(Upto(j))
    BY <1>2, <2>1, FS_Subset
  <2> QED
    BY <1>2, <2>2, <2>3
<1>5. rank \in [K -> 1 .. c]
  BY <1>1, <1>2, <1>3
<1>6. \A i, j \in K : rank[i] = rank[j] => i = j
  <2> SUFFICES ASSUME NEW i \in K, NEW j \in K, rank[i] = rank[j] PROVE i = j
    OBVIOUS
  <2>1. i \in Int /\ j \in Int /\ rank[i] \in Nat /\ rank[j] \in Nat
    BY <1>2
  <2>2. i < j => rank[i] < rank[j]
    BY <1>4
  <2>3. j < i => rank[j] < rank[i]
    BY <1>4
  <2> HIDE DEF rank
  <2> QED
    BY <2>1, <2>2, <2>3
<1>7. \A i \in K : rank[i] = Cardinality({j \in K : j <= i})
  OBVIOUS
<1> HIDE DEF rank, c
<1>8. \A k \in 1 .. c : \E i \in K : rank[i] = k
  <2>1. rank \in Injection(K, 1 .. c)
    BY <1>5, <1>6 DEF Injection, IsInjective
  <2>2. IsFiniteSet(1 .. c) /\ Cardinality(1 .. c) = c
    BY <1>1, FS_Interval
  <2>3. rank \in Surjection(K, 1 .. c)
    BY <2>1, <2>2, FS_Injection DEF c
  <2> QED
    BY <2>3 DEF Surjection
<1>9. \A k \in 1 .. c : Nth(K, k) \in K /\ rank[Nth(K, k)] = k
  <2> SUFFICES ASSUME NEW k \in 1 .. c PROVE Nth(K, k) \in K /\ rank[Nth(K, k)] = k
    OBVIOUS
  <2>1. \E i \in K : Cardinality({j \in K : j <= i}) = k
    BY <1>7, <1>8
  <2>2. Nth(K, k) \in K /\ Cardinality({j \in K : j <= Nth(K, k)}) = k
    BY <2>1 DEF Nth
  <2> QED
    BY <1>7, <2>2
<1>10. \A i \in K : rank[i] \in 1 .. c /\ Nth(K, rank[i]) = i
  BY <1>5, <1>6, <1>9
<1> QED
  BY <1>1, <1>9, <1>10 DEF c

LEMMA KeptIs ==
  ASSUME NEW q \in Seq(Block), IsInjective(q), NEW p
  PROVE  /\ Kept(q, p) \in Seq(Block) /\ IsInjective(Kept(q, p))
         /\ ToSet(Kept(q, p)) = {b \in ToSet(q) : b[1] # p}
<1> DEFINE K == {i \in DOMAIN q : q[i][1] # p}
           c == Cardinality(K)
           r == Kept(q, p)
<1>1. Len(q) \in Nat /\ DOMAIN q = 1 .. Len(q) /\ \A i \in 1 .. Len(q) : q[i] \in Block
  OBVIOUS
<1>2. K \in SUBSET (1 .. Len(q)) /\ \A i \in K : q[i] \in Block /\ q[i][1] # p
  BY <1>1
<1>3. r = [k \in 1 .. c |-> q[Nth(K, k)]]
  BY DEF Kept
<1>4. \A i \in DOMAIN q : q[i][1] # p => i \in K
  OBVIOUS
<1> HIDE DEF K
<1>5. /\ c \in Nat
      /\ \A k \in 1 .. c : Nth(K, k) \in K
      /\ \A k, m \in 1 .. c : Nth(K, k) = Nth(K, m) => k = m
      /\ \A i \in K : \E k \in 1 .. c : Nth(K, k) = i
  BY <1>1, <1>2, NthIs
<1> HIDE DEF c, r
<1>6. r \in [1 .. c -> Block] /\ DOMAIN r = 1 .. c /\ \A k \in 1 .. c : r[k] = q[Nth(K, k)]
  BY <1>2, <1>3, <1>5
<1>7. r \in Seq(Block)
  BY <1>5, <1>6
<1>8. \A i, j \in DOMAIN q : q[i] = q[j] => i = j
  BY DEF IsInjective
<1>9. \A k, m \in 1 .. c : r[k] = r[m] => k = m
  <2> SUFFICES ASSUME NEW k \in 1 .. c, NEW m \in 1 .. c, r[k] = r[m] PROVE k = m
    OBVIOUS
  <2>1. /\ Nth(K, k) \in DOMAIN q /\ Nth(K, m) \in DOMAIN q
        /\ q[Nth(K, k)] = q[Nth(K, m)]
    BY <1>1, <1>2, <1>5, <1>6
  <2> QED
    BY <1>5, <1>8, <2>1
<1>10. IsInjective(r)
  BY <1>6, <1>9 DEF IsInjective
<1>11. ASSUME NEW k \in 1 .. c
       PROVE  r[k] \in ToSet(q) /\ r[k][1] # p
  <2>1. PICK i \in K : i = Nth(K, k)
    BY <1>5
  <2>2. r[k] = q[i]
    BY <1>6, <2>1
  <2>3. i \in DOMAIN q /\ q[i][1] # p
    BY <1>1, <1>2, <2>1
  <2> QED
    BY <2>2, <2>3 DEF ToSet
<1>12. \A i \in K : q[i] \in ToSet(r)
  BY <1>5, <1>6 DEF ToSet
<1>13. \A b : b \in ToSet(r) <=> b \in ToSet(q) /\ b[1] # p
  <2>1. ASSUME NEW b \in ToSet(r) PROVE b \in ToSet(q) /\ b[1] # p
    BY <1>6, <1>11 DEF ToSet
  <2>2. ASSUME NEW b \in ToSet(q), b[1] # p PROVE b \in ToSet(r)
    <3>1. PICK i \in DOMAIN q : b = q[i]
      BY DEF ToSet
    <3> QED
      BY <1>4, <1>12, <2>2, <3>1
  <2> QED
    BY <2>1, <2>2
<1> QED
  BY <1>7, <1>10, <1>13 DEF r

-----------------------------------------------------------------------------
(* The blocks and the pages.                                               *)

Used(use, p) == {b \in use : b[1] = p}

(* What each conjunct of BlocksAreSound says of one descriptor, block or   *)
(* arena.                                                                  *)
ListExact(d, list, ar, use) ==
  /\ IsInjective(list)
  /\ \A x \in Block :
       x \in ToSet(list) <=> /\ x[1] \in DOMAIN ar /\ ar[x[1]].desc = d
                             /\ x[2] < blocks_per_arena[d] /\ x \notin use

InArena(x, ar) ==
  /\ x[1] \in DOMAIN ar
  /\ x[2] < (IF ar[x[1]].desc # BIG THEN blocks_per_arena[ar[x[1]].desc] ELSE 1)

CountExact(p, ar, use) ==
  ar[p].desc # BIG =>
    /\ Cardinality(Used(use, p)) > 0
    /\ ar[p].free_cnt = blocks_per_arena[ar[p].desc] - Cardinality(Used(use, p))

Pages(ar, p) == Group(p, IF ar[p].desc # BIG THEN 1 ELSE ar[p].free_cnt)

Partition(free, ar) ==
  /\ \A i \in Page : i \in free \/ \E p \in DOMAIN ar : i \in Pages(ar, p)
  /\ \A p \in DOMAIN ar :
       /\ Pages(ar, p) \subseteq Page /\ p \in Pages(ar, p)
       /\ \A i \in Pages(ar, p) :
            i \notin free /\ \A q \in DOMAIN ar : i \in Pages(ar, q) => q = p

Arena == [desc : Desc \cup {BIG}, free_cnt : Nat]

MalInv ==
  /\ free_pages \subseteq Page
  /\ DOMAIN arena \subseteq Page /\ arena \in [DOMAIN arena -> Arena]
  /\ free_list \in [Desc -> Seq(Block)]
  /\ in_use \subseteq Block /\ IsFiniteSet(in_use)
  /\ \A d \in Desc : ListExact(d, free_list[d], arena, in_use)
  /\ \A x \in in_use : InArena(x, arena)
  /\ \A p \in DOMAIN arena : CountExact(p, arena, in_use)
  /\ Partition(free_pages, arena)

LEMMA Sizes ==
  /\ BIG \notin Desc /\ PageCnt \in Nat
  /\ \A d \in Desc : blocks_per_arena[d] \in Nat \ {0}
BY MallocAssumption

LEMMA SameBlock ==
  ASSUME NEW x \in Block, NEW y \in Block, x[1] = y[1], x[2] = y[2]
  PROVE  x = y
BY DEF Block

LEMMA UsedFinite ==
  ASSUME NEW use, IsFiniteSet(use), NEW p
  PROVE  IsFiniteSet(Used(use, p)) /\ Cardinality(Used(use, p)) \in Nat
BY FS_Subset, FS_CardinalityType DEF Used

(* An arena has no more blocks in use than it has blocks.                  *)
LEMMA RoomForOne ==
  ASSUME NEW n \in Nat, NEW p \in Page, NEW U \in SUBSET Block, IsFiniteSet(U),
         \A x \in U : x[1] = p /\ x[2] < n,
         NEW b \in Block \ U, b[1] = p, b[2] < n
  PROVE  Cardinality(U) < n /\ Cardinality(U \cup {b}) = Cardinality(U) + 1
<1> DEFINE row == 0 .. n - 1
           slots == {p} \X row
<1>1. IsFiniteSet(slots) /\ Cardinality(slots) = n
  <2>1. IsFiniteSet({p}) /\ Cardinality({p}) = 1
    BY FS_Singleton
  <2>2. IsFiniteSet(row) /\ Cardinality(row) = n
    <3> DEFINE z == 0
               m == n - 1
    <3>1. z \in Int /\ m \in Int
      OBVIOUS
    <3> HIDE DEF z, m
    <3>2. /\ IsFiniteSet(z .. m)
          /\ Cardinality(z .. m) = IF z > m THEN 0 ELSE m - z + 1
      BY <3>1, FS_Interval
    <3> QED
      BY <3>2 DEF z, m
  <2> HIDE DEF row
  <2>3. IsFiniteSet({p} \X row) /\ Cardinality({p} \X row) = Cardinality({p}) * Cardinality(row)
    BY <2>1, <2>2, FS_Product, Zenon
  <2> QED
    BY <2>1, <2>2, <2>3
<1>2. \A x \in U \cup {b} : x \in slots
  <2> SUFFICES ASSUME NEW x \in U \cup {b} PROVE x \in slots
    OBVIOUS
  <2>1. x \in Page \X Nat /\ x[1] = p /\ x[2] < n
    BY DEF Block
  <2>2. x = <<x[1], x[2]>> /\ x[2] \in 0 .. n - 1
    BY <2>1
  <2> QED
    BY <2>1, <2>2
<1> HIDE DEF slots
<1>3. IsFiniteSet(U \cup {b}) /\ Cardinality(U \cup {b}) = Cardinality(U) + 1
  BY FS_AddElement
<1>4. Cardinality(U \cup {b}) <= Cardinality(slots)
  <2>1. U \cup {b} \in SUBSET slots
    BY <1>2
  <2> QED
    BY <1>1, <2>1, FS_Subset
<1>5. Cardinality(U) \in Nat
  BY FS_CardinalityType
<1> QED
  BY <1>1, <1>3, <1>4, <1>5

LEMMA WithIs ==
  ASSUME NEW f, NEW p, NEW v
  PROVE  /\ DOMAIN With(f, p, v) = DOMAIN f \cup {p}
         /\ With(f, p, v)[p] = v
         /\ \A q \in DOMAIN f \ {p} : With(f, p, v)[q] = f[q]
         /\ \A S : f \in [DOMAIN f -> S] /\ v \in S
                   => With(f, p, v) \in [DOMAIN f \cup {p} -> S]
BY DEF With

LEMMA WithoutIs ==
  ASSUME NEW f, NEW p
  PROVE  /\ DOMAIN Without(f, p) = DOMAIN f \ {p}
         /\ \A q \in DOMAIN f \ {p} : Without(f, p)[q] = f[q]
         /\ \A S : f \in [DOMAIN f -> S] => Without(f, p) \in [DOMAIN f \ {p} -> S]
BY DEF Without

(* An arena of its own takes its pages from the free ones.                 *)
LEMMA PagesTaken ==
  ASSUME NEW free, NEW ar, NEW p, NEW a, Partition(free, ar), p \notin DOMAIN ar,
         LET pages == Pages(With(ar, p, a), p)
         IN pages \subseteq free /\ p \in pages /\ pages \subseteq Page
  PROVE  Partition(free \ Pages(With(ar, p, a), p), With(ar, p, a))
<1> DEFINE new == With(ar, p, a)
<1>1. DOMAIN new = DOMAIN ar \cup {p} /\ \A q \in DOMAIN ar : new[q] = ar[q]
  BY DEF With
<1>2. \A q \in DOMAIN ar : Pages(new, q) = Pages(ar, q)
  BY <1>1 DEF Pages
<1> DEFINE P(q) == Pages(ar, q)
           N(q) == Pages(new, q)
<1>3. N(p) \subseteq free /\ p \in N(p) /\ N(p) \subseteq Page
  OBVIOUS
<1>4. /\ \A i \in Page : i \in free \/ \E q \in DOMAIN ar : i \in P(q)
      /\ \A q \in DOMAIN ar :
           /\ P(q) \subseteq Page /\ q \in P(q)
           /\ \A i \in P(q) :
                i \notin free /\ \A r \in DOMAIN ar : i \in P(r) => r = q
  BY DEF Partition
<1>5. \A q \in DOMAIN ar : N(q) = P(q)
  BY <1>2
<1> HIDE DEF P, N
<1>6. \A i \in Page : i \in free \ N(p) \/ \E q \in DOMAIN new : i \in N(q)
  BY <1>1, <1>4, <1>5
<1>7. ASSUME NEW q \in DOMAIN new
      PROVE  /\ N(q) \subseteq Page /\ q \in N(q)
             /\ \A i \in N(q) : i \notin free \ N(p) /\ \A r \in DOMAIN new : i \in N(r) => r = q
  <2>1. CASE q = p
    BY <1>1, <1>3, <1>4, <1>5, <2>1
  <2>2. CASE q # p
    BY <1>1, <1>3, <1>4, <1>5, <2>2
  <2> QED
    BY <2>1, <2>2
<1> HIDE DEF new
<1> QED
  BY <1>6, <1>7 DEF Partition, N, new

(* The pages of an arena that is given back are free.                      *)
LEMMA PagesReturned ==
  ASSUME NEW free, NEW ar, NEW p \in DOMAIN ar, Partition(free, ar)
  PROVE  Partition(free \cup Pages(ar, p), Without(ar, p))
<1> DEFINE new == Without(ar, p)
<1>1. DOMAIN new = DOMAIN ar \ {p} /\ \A q \in DOMAIN new : new[q] = ar[q]
  BY DEF Without
<1>2. \A q \in DOMAIN new : Pages(new, q) = Pages(ar, q)
  BY <1>1 DEF Pages
<1> DEFINE P(q) == Pages(ar, q)
           N(q) == Pages(new, q)
<1>3. /\ \A i \in Page : i \in free \/ \E q \in DOMAIN ar : i \in P(q)
      /\ \A q \in DOMAIN ar :
           /\ P(q) \subseteq Page /\ q \in P(q)
           /\ \A i \in P(q) :
                i \notin free /\ \A r \in DOMAIN ar : i \in P(r) => r = q
  BY DEF Partition
<1>4. \A q \in DOMAIN new : N(q) = P(q)
  BY <1>2
<1> HIDE DEF P, N
<1>5. \A i \in Page : i \in free \cup P(p) \/ \E q \in DOMAIN new : i \in N(q)
  BY <1>1, <1>3, <1>4
<1>6. ASSUME NEW q \in DOMAIN new
      PROVE  /\ N(q) \subseteq Page /\ q \in N(q)
             /\ \A i \in N(q) : /\ i \notin free \cup P(p)
                                /\ \A r \in DOMAIN new : i \in N(r) => r = q
  BY <1>1, <1>3, <1>4
<1> HIDE DEF new
<1> QED
  BY <1>5, <1>6 DEF Partition, N, P, new

(* Counting a block leaves an arena its page.                              *)
LEMMA PagesKept ==
  ASSUME NEW free, NEW ar, NEW p \in DOMAIN ar, NEW n, Partition(free, ar),
         ar \in [DOMAIN ar -> Arena], ar[p].desc # BIG
  PROVE  LET new == [ar EXCEPT ![p].free_cnt = n]
         IN /\ DOMAIN new = DOMAIN ar
            /\ new[p].desc = ar[p].desc /\ new[p].free_cnt = n
            /\ \A q \in DOMAIN ar : new[q].desc = ar[q].desc /\ (q # p => new[q] = ar[q])
            /\ (n \in Nat => new \in [DOMAIN ar -> Arena])
            /\ Partition(free, new)
<1> DEFINE new == [ar EXCEPT ![p].free_cnt = n]
<1>1. \A q \in DOMAIN ar : ar[q] \in Arena
  OBVIOUS
<1>2. /\ DOMAIN new = DOMAIN ar /\ new[p] = [ar[p] EXCEPT !.free_cnt = n]
      /\ \A q \in DOMAIN ar : q # p => new[q] = ar[q]
  OBVIOUS
<1>3. new[p].desc = ar[p].desc /\ new[p].free_cnt = n
  BY <1>1, <1>2 DEF Arena
<1>4. n \in Nat => new[p] \in Arena
  BY <1>1, <1>2 DEF Arena
<1>5. n \in Nat => new \in [DOMAIN ar -> Arena]
  BY <1>1, <1>4
<1> HIDE DEF new
<1>6. \A q \in DOMAIN ar : new[q].desc = ar[q].desc
  BY <1>2, <1>3
<1>7. \A q \in DOMAIN ar : Pages(new, q) = Pages(ar, q)
  <2> SUFFICES ASSUME NEW q \in DOMAIN ar PROVE Pages(new, q) = Pages(ar, q)
    OBVIOUS
  <2>1. CASE q = p
    BY <1>6, <2>1 DEF Pages
  <2>2. CASE q # p
    BY <1>2, <2>2 DEF Pages
  <2> QED
    BY <2>1, <2>2
<1>8. Partition(free, new)
  BY <1>2, <1>7 DEF Partition
<1> QED
  BY <1>2, <1>3, <1>5, <1>6, <1>8 DEF new

LEMMA UsedAdd ==
  ASSUME NEW use, NEW b, NEW p
  PROVE  Used(use \cup {b}, p) = IF b[1] = p THEN Used(use, p) \cup {b} ELSE Used(use, p)
BY DEF Used

LEMMA UsedDrop ==
  ASSUME NEW use, NEW b, NEW p
  PROVE  Used(use \ {b}, p) = IF b[1] = p THEN Used(use, p) \ {b} ELSE Used(use, p)
BY DEF Used

(* The blocks in use of an arena are below its size.                       *)
LEMMA UsedInArena ==
  ASSUME MalInv, NEW p \in DOMAIN arena, arena[p].desc # BIG
  PROVE  /\ arena[p].desc \in Desc /\ p \in Page
         /\ Used(in_use, p) \in SUBSET Block
         /\ \A x \in Used(in_use, p) : x[1] = p /\ x[2] < blocks_per_arena[arena[p].desc]
BY DEF MalInv, Used, InArena, Arena

LEMMA BlockStep ==
  ASSUME MalInv, NEW d \in Desc, MallocBlock(d)
  PROVE  MalInv'
<1> DEFINE list == free_list[d]
           b == Head(list)
           p == b[1]
           n == arena[p].free_cnt
           new == [arena EXCEPT ![p].free_cnt = n - 1]
<1>1. /\ list # <<>> /\ list \in Seq(Block) /\ IsInjective(list)
      /\ in_use' = in_use \cup {b} /\ arena' = new /\ UNCHANGED free_pages
      /\ free_list' = [free_list EXCEPT ![d] = Tail(list)]
  BY DEF MallocBlock, MalInv, ListExact
<1>2. /\ b \in ToSet(list) /\ Tail(list) \in Seq(Block) /\ IsInjective(Tail(list))
      /\ ToSet(Tail(list)) = ToSet(list) \ {b} /\ \A x \in ToSet(list) : x \in Block
  <2>1. \A x \in ToSet(list) : x \in Block
    BY <1>1 DEF ToSet
  <2> QED
    BY <1>1, <2>1, HeadLeaves
<1> HIDE DEF b, list
<1>3. /\ b \in Block /\ p \in DOMAIN arena /\ arena[p].desc = d
      /\ b[2] < blocks_per_arena[d] /\ b \notin in_use
  BY <1>1, <1>2 DEF MalInv, ListExact, list
<1> HIDE DEF p
<1>4. arena[p].desc # BIG /\ d # BIG /\ p \in Page /\ b[1] = p
  BY <1>3, Sizes DEF MalInv, p
<1>5. /\ Cardinality(Used(in_use, p)) < blocks_per_arena[d]
      /\ Cardinality(Used(in_use, p) \cup {b}) = Cardinality(Used(in_use, p)) + 1
      /\ Cardinality(Used(in_use, p)) \in Nat
      /\ n = blocks_per_arena[d] - Cardinality(Used(in_use, p))
  <2>1. IsFiniteSet(Used(in_use, p)) /\ Cardinality(Used(in_use, p)) \in Nat
    BY UsedFinite DEF MalInv
  <2>2. b \in Block \ Used(in_use, p)
    BY <1>3 DEF Used
  <2>3. /\ Used(in_use, p) \in SUBSET Block
        /\ \A x \in Used(in_use, p) : x[1] = p /\ x[2] < blocks_per_arena[d]
    BY <1>3, <1>4, UsedInArena
  <2>4. blocks_per_arena[d] \in Nat
    BY Sizes
  <2>5. n = blocks_per_arena[d] - Cardinality(Used(in_use, p))
    BY <1>3, <1>4 DEF MalInv, CountExact
  <2> QED
    BY <1>3, <1>4, <2>1, <2>2, <2>3, <2>4, <2>5, RoomForOne
<1>6. n - 1 \in Nat
  BY <1>5, Sizes
<1>7. /\ DOMAIN new = DOMAIN arena
      /\ new[p].desc = arena[p].desc /\ new[p].free_cnt = n - 1
      /\ \A q \in DOMAIN arena : new[q].desc = arena[q].desc /\ (q # p => new[q] = arena[q])
      /\ new \in [DOMAIN arena -> Arena]
      /\ Partition(free_pages, new)
  BY SMTT(30), <1>3, <1>4, <1>6, PagesKept DEF MalInv
<1> HIDE DEF new, n
<1>8. ASSUME NEW e \in Desc PROVE ListExact(e, free_list'[e], new, in_use \cup {b})
  <2>1. ListExact(e, free_list[e], arena, in_use)
    BY DEF MalInv
  <2>2. CASE e = d
    <3>1. free_list'[e] = Tail(list)
      BY <1>1, <2>2 DEF MalInv
    <3> QED
      BY <1>2, <1>3, <1>7, <2>1, <2>2, <3>1 DEF ListExact, list
  <2>3. CASE e # d
    <3>1. free_list'[e] = free_list[e]
      BY <1>1, <2>3 DEF MalInv
    <3> QED
      BY <1>3, <1>4, <1>7, <2>1, <2>3, <3>1 DEF ListExact
  <2> QED
    BY <2>2, <2>3
<1>9. ASSUME NEW x \in in_use \cup {b} PROVE InArena(x, new)
  <2>1. CASE x \in in_use
    BY <1>7, <2>1 DEF MalInv, InArena
  <2>2. CASE x = b
    BY <1>3, <1>4, <1>7, <2>2 DEF InArena
  <2> QED
    BY <2>1, <2>2
<1>10. ASSUME NEW q \in DOMAIN arena PROVE CountExact(q, new, in_use \cup {b})
  <2>1. CountExact(q, arena, in_use)
    BY DEF MalInv
  <2>2. CASE q = p
    <3>1. Used(in_use \cup {b}, q) = Used(in_use, p) \cup {b}
      BY <1>4, <2>2, UsedAdd
    <3>2. blocks_per_arena[d] \in Nat
      BY Sizes
    <3> QED
      <4>1. new[q].desc = d /\ new[q].free_cnt = n - 1
        BY <1>3, <1>7, <2>2
      <4>2. LET used == Cardinality(Used(in_use \cup {b}, q))
            IN used > 0 /\ n - 1 = blocks_per_arena[d] - used
        <5>1. Cardinality(Used(in_use \cup {b}, q)) = Cardinality(Used(in_use, p)) + 1
          BY <1>5, <3>1
        <5> QED
          BY <1>5, <3>2, <5>1
      <4> QED
        BY <4>1, <4>2 DEF CountExact
  <2>3. CASE q # p
    <3>1. Used(in_use \cup {b}, q) = Used(in_use, q)
      BY <1>4, <2>3, UsedAdd
    <3> QED
      BY <1>7, <2>1, <2>3, <3>1 DEF CountExact
  <2> QED
    BY <2>2, <2>3
<1>11. free_list' \in [Desc -> Seq(Block)]
  BY <1>1, <1>2 DEF MalInv
<1>12. in_use \cup {b} \subseteq Block /\ IsFiniteSet(in_use \cup {b})
  BY <1>3, FS_AddElement DEF MalInv
<1> QED
  BY <1>1, <1>7, <1>8, <1>9, <1>10, <1>11, <1>12 DEF MalInv

(* The page that the page allocator gives is in no arena.                  *)
LEMMA FreshPage ==
  ASSUME MalInv, NEW n \in 1 .. PageCnt, NEW p \in FirstFit(n)
  PROVE  /\ p \in Page /\ Group(p, n) \subseteq free_pages /\ p \in Group(p, n)
         /\ Group(p, n) \subseteq Page /\ p \notin DOMAIN arena
         /\ \A x \in in_use : x[1] # p
<1>1. p \in Page /\ Group(p, n) \subseteq free_pages
  BY DEF FirstFit
<1>2. p \in Group(p, n)
  BY <1>1, Sizes DEF Group, Page
<1>3. p \notin DOMAIN arena
  BY <1>1, <1>2 DEF MalInv, Partition
<1> QED
  BY <1>1, <1>2, <1>3 DEF MalInv, InArena

LEMMA ArenaStep ==
  ASSUME MalInv, NEW d \in Desc, MallocArena(d)
  PROVE  MalInv'
<1> DEFINE n == blocks_per_arena[d]
           a == [desc |-> d, free_cnt |-> n - 1]
<1>1. PICK p \in FirstFit(1) :
        /\ free_pages' = free_pages \ {p}
        /\ in_use' = in_use \cup {<<p, 0>>}
        /\ arena' = With(arena, p, a)
        /\ free_list' = [free_list EXCEPT ![d] = Tail(Blocks(d, p))]
  BY DEF MallocArena
<1> DEFINE b == <<p, 0>>
           new == With(arena, p, a)
           list == Tail(Blocks(d, p))
<1>2. n \in Nat \ {0} /\ d # BIG /\ a \in Arena /\ 1 \in 1 .. PageCnt
  <2>1. n \in Nat \ {0} /\ d # BIG /\ PageCnt \in Nat
    BY Sizes
  <2>2. 1 \in 1 .. PageCnt
    BY <1>1, <2>1 DEF FirstFit, Page
  <2> QED
    BY <2>1, <2>2 DEF Arena
<1>3. /\ p \in Page /\ Group(p, 1) \subseteq free_pages /\ p \in Group(p, 1)
      /\ Group(p, 1) \subseteq Page /\ p \notin DOMAIN arena
      /\ \A x \in in_use : x[1] # p
  BY <1>1, <1>2, FreshPage
<1>4. Group(p, 1) = {p}
  BY <1>3, Sizes DEF Group, Page
<1>5. b \in Block /\ b[1] = p /\ b[2] = 0
  BY <1>3 DEF Block
<1>6. /\ list \in Seq(Block) /\ IsInjective(list)
      /\ \A x \in Block : x \in ToSet(list) <=> x[1] = p /\ x[2] < n /\ x # b
  <2> DEFINE all == Blocks(d, p)
  <2>1. /\ all \in Seq(Block) /\ Len(all) = n
        /\ \A i \in 1 .. n : all[i] = <<p, i - 1>>
    BY <1>2, <1>3 DEF Blocks, Block
  <2>2. all # <<>>
    BY <1>2, <2>1, EmptySeq
  <2>3. Head(all) = b
    BY <1>2, <2>1
  <2> HIDE DEF all
  <2>4. IsInjective(all)
    BY <1>2, <2>1 DEF IsInjective
  <2>5. \A x \in Block : x \in ToSet(all) <=> x[1] = p /\ x[2] < n
    <3>1. \A i \in 1 .. n : all[i][1] = p /\ all[i][2] < n
      BY <1>2, <2>1
    <3>2. ASSUME NEW x \in Block, x[1] = p, x[2] < n PROVE x \in ToSet(all)
      <4>1. x = <<x[1], x[2]>> /\ x[2] \in Nat
        BY DEF Block
      <4>2. x[2] + 1 \in 1 .. n /\ all[x[2] + 1] = x
        <5> DEFINE k == x[2] + 1
        <5>1. k \in 1 .. n /\ k - 1 = x[2]
          BY <1>2, <3>2, <4>1
        <5> HIDE DEF k
        <5>2. all[k] = <<p, k - 1>>
          BY <2>1, <5>1
        <5> QED
          BY <3>2, <4>1, <5>1, <5>2 DEF k
      <4> QED
        BY <2>1, <4>2 DEF ToSet
    <3>3. ASSUME NEW x \in ToSet(all) PROVE x[1] = p /\ x[2] < n
      BY <2>1, <3>1 DEF ToSet
    <3> QED
      BY <3>2, <3>3
  <2>6. list \in Seq(Block) /\ IsInjective(list) /\ ToSet(list) = ToSet(all) \ {b}
    BY <2>1, <2>2, <2>3, <2>4, HeadLeaves DEF all
  <2> QED
    BY <2>5, <2>6
<1>7. /\ DOMAIN new = DOMAIN arena \cup {p} /\ new[p] = a
      /\ \A q \in DOMAIN arena : new[q] = arena[q]
      /\ new \in [DOMAIN arena \cup {p} -> Arena]
  BY <1>2, <1>3 DEF With, MalInv
<1>8. new[p].desc = d /\ new[p].free_cnt = n - 1
  BY <1>7
<1>9. Pages(new, p) = {p}
  BY <1>2, <1>4, <1>8 DEF Pages
<1>10. Partition(free_pages \ {p}, new)
  BY <1>3, <1>4, <1>9, PagesTaken DEF MalInv
<1> HIDE DEF new, a, list, b
<1>11. ASSUME NEW e \in Desc PROVE ListExact(e, free_list'[e], new, in_use \cup {b})
  <2>1. ListExact(e, free_list[e], arena, in_use)
    BY DEF MalInv
  <2>2. CASE e = d
    <3>1. free_list'[e] = list
      BY <1>1, <2>2 DEF MalInv, list
    <3>2. ToSet(free_list[d]) = {}
      BY DEF MallocArena, ToSet
    <3> QED
      BY <1>3, <1>5, <1>6, <1>7, <1>8, <2>1, <2>2, <3>1, <3>2 DEF ListExact
  <2>3. CASE e # d
    <3>1. free_list'[e] = free_list[e]
      BY <1>1, <2>3 DEF MalInv
    <3> QED
      BY <1>3, <1>5, <1>7, <1>8, <2>1, <2>3, <3>1 DEF ListExact
  <2> QED
    BY <2>2, <2>3
<1>12. ASSUME NEW x \in in_use \cup {b} PROVE InArena(x, new)
  <2>1. CASE x \in in_use
    BY <1>3, <1>7, <2>1 DEF MalInv, InArena
  <2>2. CASE x = b
    BY <1>2, <1>5, <1>7, <1>8, <2>2 DEF InArena
  <2> QED
    BY <2>1, <2>2
<1>13. ASSUME NEW q \in DOMAIN new PROVE CountExact(q, new, in_use \cup {b})
  <2>1. CASE q = p
    <3>1. Used(in_use \cup {b}, p) = {b}
      BY <1>3, <1>5 DEF Used
    <3>2. Cardinality({b}) = 1
      BY FS_Singleton
    <3> QED
      <4>1. Used(in_use \cup {b}, q) = {b} /\ new[q].desc = d /\ new[q].free_cnt = n - 1
        BY <1>8, <2>1, <3>1
      <4> QED
        BY <3>2, <4>1 DEF CountExact
  <2>2. CASE q # p
    <3>1. CountExact(q, arena, in_use) /\ new[q] = arena[q]
      BY <1>7, <2>2 DEF MalInv
    <3> QED
      <4>1. Used(in_use \cup {b}, q) = Used(in_use, q)
        BY <1>5, <2>2, UsedAdd
      <4> QED
        BY <3>1, <4>1 DEF CountExact
  <2> QED
    BY <2>1, <2>2
<1>14. free_list' \in [Desc -> Seq(Block)]
  BY <1>1, <1>6 DEF MalInv, list
<1>15. in_use \cup {b} \subseteq Block /\ IsFiniteSet(in_use \cup {b})
  BY <1>5, FS_AddElement DEF MalInv
<1>16. free_pages \ {p} \subseteq Page /\ DOMAIN new \subseteq Page
  BY <1>3, <1>7 DEF MalInv
<1> QED
  BY <1>1, <1>7, <1>10, <1>11, <1>12, <1>13, <1>14, <1>15, <1>16 DEF MalInv, new, b

LEMMA BigStep ==
  ASSUME MalInv, NEW n \in 1 .. PageCnt, MallocBig(n)
  PROVE  MalInv'
<1> DEFINE a == [desc |-> BIG, free_cnt |-> n]
<1>1. PICK p \in FirstFit(n) :
        /\ free_pages' = free_pages \ Group(p, n)
        /\ in_use' = in_use \cup {<<p, 0>>}
        /\ arena' = With(arena, p, a)
        /\ UNCHANGED free_list
  BY DEF MallocBig
<1> DEFINE b == <<p, 0>>
           new == With(arena, p, a)
<1>2. a \in Arena
  BY Sizes DEF Arena
<1>3. /\ p \in Page /\ Group(p, n) \subseteq free_pages /\ p \in Group(p, n)
      /\ Group(p, n) \subseteq Page /\ p \notin DOMAIN arena
      /\ \A x \in in_use : x[1] # p
  BY <1>1, FreshPage DEF MalInv
<1>4. b \in Block /\ b[1] = p /\ b[2] = 0
  BY <1>3 DEF Block
<1>5. /\ DOMAIN new = DOMAIN arena \cup {p} /\ new[p] = a
      /\ \A q \in DOMAIN arena : new[q] = arena[q]
      /\ new \in [DOMAIN arena \cup {p} -> Arena]
  BY <1>2, <1>3 DEF With, MalInv
<1>6. new[p].desc = BIG /\ new[p].free_cnt = n
  BY <1>5
<1>7. Pages(new, p) = Group(p, n)
  BY <1>6 DEF Pages
<1>8. Partition(free_pages \ Group(p, n), new)
  BY <1>3, <1>7, PagesTaken DEF MalInv
<1> HIDE DEF new, a, b
<1>9. ASSUME NEW e \in Desc PROVE ListExact(e, free_list[e], new, in_use \cup {b})
  <2>1. ListExact(e, free_list[e], arena, in_use) /\ e # BIG
    BY Sizes DEF MalInv
  <2> QED
    BY <1>3, <1>4, <1>5, <1>6, <2>1 DEF ListExact
<1>10. ASSUME NEW x \in in_use \cup {b} PROVE InArena(x, new)
  <2>1. CASE x \in in_use
    BY <1>3, <1>5, <2>1 DEF MalInv, InArena
  <2>2. CASE x = b
    BY <1>4, <1>5, <1>6, <2>2 DEF InArena
  <2> QED
    BY <2>1, <2>2
<1>11. ASSUME NEW q \in DOMAIN new PROVE CountExact(q, new, in_use \cup {b})
  <2>1. CASE q = p
    BY <1>6, <2>1 DEF CountExact
  <2>2. CASE q # p
    <3>1. CountExact(q, arena, in_use) /\ new[q] = arena[q]
      BY <1>5, <2>2 DEF MalInv
    <3>2. Used(in_use \cup {b}, q) = Used(in_use, q)
      BY <1>4, <2>2, UsedAdd
    <3> QED
      BY <3>1, <3>2 DEF CountExact
  <2> QED
    BY <2>1, <2>2
<1>12. in_use \cup {b} \subseteq Block /\ IsFiniteSet(in_use \cup {b})
  BY <1>4, FS_AddElement DEF MalInv
<1>13. free_pages \ Group(p, n) \subseteq Page /\ DOMAIN new \subseteq Page
  BY <1>3, <1>5 DEF MalInv
<1>14. free_list \in [Desc -> Seq(Block)]
  BY DEF MalInv
<1> QED
  BY <1>1, <1>5, <1>8, <1>9, <1>10, <1>11, <1>12, <1>13, <1>14 DEF MalInv, new, b

LEMMA FreeBigStep ==
  ASSUME MalInv, NEW b \in in_use, FreeBig(b)
  PROVE  MalInv'
<1> DEFINE p == b[1]
           new == Without(arena, p)
<1>1. /\ arena[p].desc = BIG
      /\ free_pages' = free_pages \cup Group(p, arena[p].free_cnt)
      /\ arena' = new /\ in_use' = in_use \ {b} /\ UNCHANGED free_list
  BY DEF FreeBig
<1>2. /\ b \in Block /\ p \in DOMAIN arena /\ b[2] = 0
      /\ \A x \in in_use : x[1] = p => x = b
  <2>1. \A x \in in_use : x \in Block /\ InArena(x, arena)
    BY DEF MalInv
  <2>2. \A x \in in_use : x[1] = p => x[2] = 0
    BY <1>1, <2>1 DEF InArena, Block
  <2> QED
    BY <2>1, <2>2, SameBlock DEF InArena
<1>3. Pages(arena, p) = Group(p, arena[p].free_cnt)
  BY <1>1 DEF Pages
<1>4. /\ DOMAIN new = DOMAIN arena \ {p} /\ \A q \in DOMAIN new : new[q] = arena[q]
      /\ new \in [DOMAIN new -> Arena]
  BY DEF Without, MalInv
<1>5. Partition(free_pages \cup Pages(arena, p), new)
  BY <1>2, PagesReturned DEF MalInv
<1>6. Pages(arena, p) \subseteq Page
  BY <1>2 DEF MalInv, Partition
<1> HIDE DEF new, p
<1>7. ASSUME NEW e \in Desc PROVE ListExact(e, free_list[e], new, in_use \ {b})
  <2>1. ListExact(e, free_list[e], arena, in_use) /\ e # BIG
    BY Sizes DEF MalInv
  <2> QED
    BY <1>1, <1>2, <1>4, <2>1 DEF ListExact, p
<1>8. ASSUME NEW x \in in_use \ {b} PROVE InArena(x, new)
  BY <1>2, <1>4 DEF MalInv, InArena
<1>9. ASSUME NEW q \in DOMAIN new PROVE CountExact(q, new, in_use \ {b})
  <2>1. CountExact(q, arena, in_use) /\ new[q] = arena[q] /\ q # p
    BY <1>4 DEF MalInv
  <2>2. Used(in_use \ {b}, q) = Used(in_use, q)
    BY <2>1, UsedDrop DEF p
  <2> QED
    BY <2>1, <2>2 DEF CountExact
<1>10. in_use \ {b} \subseteq Block /\ IsFiniteSet(in_use \ {b})
  BY FS_RemoveElement DEF MalInv
<1>11. free_pages' \subseteq Page /\ DOMAIN new \subseteq Page
  BY <1>1, <1>3, <1>4, <1>6 DEF MalInv
<1>12. free_list \in [Desc -> Seq(Block)]
  BY DEF MalInv
<1> QED
  BY <1>1, <1>3, <1>4, <1>5, <1>7, <1>8, <1>9, <1>10, <1>11, <1>12 DEF MalInv

(* free() puts the block first on its list; the list then holds the free   *)
(* blocks as if the arena stayed.                                          *)
LEMMA FreedList ==
  ASSUME MalInv, NEW b \in in_use, arena[b[1]].desc # BIG
  PROVE  LET d == arena[b[1]].desc
             list == <<b>> \o free_list[d]
         IN /\ d \in Desc /\ b \in Block /\ b[1] \in DOMAIN arena
            /\ b[2] < blocks_per_arena[d]
            /\ list \in Seq(Block) /\ IsInjective(list)
            /\ ListExact(d, list, arena, in_use \ {b})
<1> DEFINE d == arena[b[1]].desc
           list == <<b>> \o free_list[d]
<1>1. b \in Block /\ b[1] \in DOMAIN arena /\ d \in Desc /\ b[2] < blocks_per_arena[d]
  <2>1. b \in Block /\ InArena(b, arena)
    BY DEF MalInv
  <2> QED
    BY <2>1 DEF MalInv, InArena, Arena
<1>2. free_list[d] \in Seq(Block) /\ ListExact(d, free_list[d], arena, in_use)
  BY <1>1 DEF MalInv
<1>3. b \in Block \ ToSet(free_list[d]) /\ IsInjective(free_list[d])
  BY <1>1, <1>2 DEF ListExact
<1> HIDE DEF d
<1>4. list \in Seq(Block) /\ IsInjective(list) /\ ToSet(list) = ToSet(free_list[d]) \cup {b}
  BY <1>2, <1>3, FrontJoins
<1> HIDE DEF list
<1>5. ListExact(d, list, arena, in_use \ {b})
  BY <1>1, <1>2, <1>4 DEF ListExact, d
<1> QED
  BY <1>1, <1>4, <1>5 DEF d, list

LEMMA FreeStep ==
  ASSUME MalInv, NEW b \in in_use, Free(b)
  PROVE  MalInv'
<1> DEFINE p == b[1]
           d == arena[p].desc
           n == arena[p].free_cnt
           size == blocks_per_arena[d]
           used == Used(in_use, p)
           list == <<b>> \o free_list[d]
<1>1. d # BIG /\ in_use' = in_use \ {b}
  BY DEF Free
<1>2. IF n + 1 >= size
        THEN /\ arena' = Without(arena, p) /\ free_pages' = free_pages \cup {p}
             /\ free_list' = [free_list EXCEPT ![d] = Kept(list, p)]
        ELSE /\ arena' = [arena EXCEPT ![p].free_cnt = n + 1] /\ UNCHANGED free_pages
             /\ free_list' = [free_list EXCEPT ![d] = list]
  BY DEF Free
<1>3. /\ d \in Desc /\ b \in Block /\ p \in DOMAIN arena /\ p \in Page
      /\ b[2] < size /\ list \in Seq(Block) /\ IsInjective(list)
      /\ ListExact(d, list, arena, in_use \ {b})
  BY <1>1, FreedList DEF MalInv
<1> HIDE DEF list
<1>4. /\ IsFiniteSet(used) /\ Cardinality(used) \in Nat \ {0} /\ b \in used
      /\ n = size - Cardinality(used) /\ size \in Nat /\ n \in Nat
      /\ Cardinality(used \ {b}) = Cardinality(used) - 1
  <2>1. IsFiniteSet(used) /\ Cardinality(used) \in Nat
    BY UsedFinite DEF MalInv
  <2>2. Cardinality(used) > 0 /\ n = size - Cardinality(used)
    BY <1>1, <1>3 DEF MalInv, CountExact
  <2>3. b \in used
    BY DEF Used
  <2>4. Cardinality(used \ {b}) = Cardinality(used) - 1
    BY <2>1, <2>3, FS_RemoveElement
  <2>5. size \in Nat /\ n \in Nat
    BY <1>3, Sizes DEF MalInv, Arena
  <2> QED
    BY <2>1, <2>2, <2>3, <2>4, <2>5
<1>5. /\ Used(in_use \ {b}, p) = used \ {b}
      /\ \A q : q # p => Used(in_use \ {b}, q) = Used(in_use, q)
  BY UsedDrop DEF p
<1>6. in_use \ {b} \subseteq Block /\ IsFiniteSet(in_use \ {b})
  BY FS_RemoveElement DEF MalInv
<1>7. b[1] = p /\ arena[p].desc = d
  OBVIOUS
<1> HIDE DEF p, d, n, size, used
<1>8. CASE n + 1 >= size
  <2> DEFINE new == Without(arena, p)
             rest == Kept(list, p)
  <2>1. \A x \in in_use : x[1] = p => x = b
    <3>1. Cardinality(used \ {b}) = 0
      BY <1>4, <1>8
    <3>2. used \ {b} = {}
      BY <1>4, <3>1, FS_RemoveElement, FS_EmptySet
    <3> QED
      BY <3>2 DEF Used, used
  <2>2. Pages(arena, p) = {p}
    BY <1>1, <1>3, <1>7 DEF Pages, Group, Page
  <2>3. /\ DOMAIN new = DOMAIN arena \ {p} /\ \A q \in DOMAIN new : new[q] = arena[q]
        /\ new \in [DOMAIN new -> Arena]
    BY DEF Without, MalInv
  <2>4. Partition(free_pages \cup {p}, new)
    BY <1>3, <2>2, PagesReturned DEF MalInv
  <2>5. /\ rest \in Seq(Block) /\ IsInjective(rest)
        /\ ToSet(rest) = {x \in ToSet(list) : x[1] # p}
    BY <1>3, KeptIs
  <2>6. free_list' = [free_list EXCEPT ![d] = rest] /\ arena' = new
        /\ free_pages' = free_pages \cup {p}
    BY <1>2, <1>8
  <2> HIDE DEF new, rest
  <2>7. ASSUME NEW e \in Desc PROVE ListExact(e, free_list'[e], new, in_use \ {b})
    <3>1. CASE e = d
      <4>1. free_list'[e] = rest
        BY <2>6, <3>1 DEF MalInv
      <4> QED
        BY <1>3, <2>3, <2>5, <3>1, <4>1 DEF ListExact
    <3>2. CASE e # d
      <4>1. free_list'[e] = free_list[e] /\ ListExact(e, free_list[e], arena, in_use)
        BY <2>6, <3>2 DEF MalInv
      <4> QED
        BY <1>7, <2>3, <3>2, <4>1 DEF ListExact
    <3> QED
      BY <3>1, <3>2
  <2>8. ASSUME NEW x \in in_use \ {b} PROVE InArena(x, new)
    BY <2>1, <2>3 DEF MalInv, InArena
  <2>9. ASSUME NEW q \in DOMAIN new PROVE CountExact(q, new, in_use \ {b})
    <3>1. CountExact(q, arena, in_use) /\ new[q] = arena[q] /\ q # p
      BY <2>3 DEF MalInv
    <3>2. Used(in_use \ {b}, q) = Used(in_use, q)
      BY <1>5, <3>1
    <3> QED
      BY <3>1, <3>2 DEF CountExact
  <2>10. free_list' \in [Desc -> Seq(Block)]
    BY <2>5, <2>6 DEF MalInv
  <2>11. free_pages \cup {p} \subseteq Page /\ DOMAIN new \subseteq Page
    BY <1>3, <2>3 DEF MalInv
  <2> QED
    BY <1>1, <1>6, <2>3, <2>4, <2>6, <2>7, <2>8, <2>9, <2>10, <2>11 DEF MalInv
<1>9. CASE ~(n + 1 >= size)
  <2> DEFINE new == [arena EXCEPT ![p].free_cnt = n + 1]
  <2>1. /\ DOMAIN new = DOMAIN arena
        /\ new[p].desc = arena[p].desc /\ new[p].free_cnt = n + 1
        /\ \A q \in DOMAIN arena : new[q].desc = arena[q].desc /\ (q # p => new[q] = arena[q])
        /\ new \in [DOMAIN arena -> Arena]
        /\ Partition(free_pages, new)
    <3>1. /\ n + 1 \in Nat /\ p \in DOMAIN arena /\ arena[p].desc # BIG
          /\ Partition(free_pages, arena) /\ arena \in [DOMAIN arena -> Arena]
      BY <1>1, <1>3, <1>4, <1>7 DEF MalInv
    <3> QED
      BY <3>1, PagesKept
  <2>2. free_list' = [free_list EXCEPT ![d] = list] /\ arena' = new /\ UNCHANGED free_pages
    BY <1>2, <1>9
  <2> HIDE DEF new
  <2>3. ASSUME NEW e \in Desc PROVE ListExact(e, free_list'[e], new, in_use \ {b})
    <3>1. CASE e = d
      <4>1. free_list'[e] = list
        BY <2>2, <3>1 DEF MalInv
      <4> QED
        BY <1>3, <2>1, <3>1, <4>1 DEF ListExact
    <3>2. CASE e # d
      <4>1. free_list'[e] = free_list[e] /\ ListExact(e, free_list[e], arena, in_use)
        BY <2>2, <3>2 DEF MalInv
      <4> QED
        BY <1>7, <2>1, <3>2, <4>1 DEF ListExact
    <3> QED
      BY <3>1, <3>2
  <2>4. ASSUME NEW x \in in_use \ {b} PROVE InArena(x, new)
    BY <2>1 DEF MalInv, InArena
  <2>5. ASSUME NEW q \in DOMAIN new PROVE CountExact(q, new, in_use \ {b})
    <3>1. CASE q = p
      <4>1. new[q].desc = d /\ new[q].free_cnt = n + 1
        BY <1>7, <2>1, <3>1
      <4>2. LET k == Cardinality(Used(in_use \ {b}, q))
            IN k > 0 /\ n + 1 = size - k
        <5>1. Cardinality(Used(in_use \ {b}, q)) = Cardinality(used) - 1
          BY <1>4, <1>5, <3>1
        <5> QED
          BY <1>4, <1>9, <5>1
      <4> QED
        BY <4>1, <4>2 DEF CountExact, size
    <3>2. CASE q # p
      <4>1. CountExact(q, arena, in_use) /\ new[q] = arena[q]
        BY <2>1, <3>2 DEF MalInv
      <4>2. Used(in_use \ {b}, q) = Used(in_use, q)
        BY <1>5, <3>2
      <4> QED
        BY <4>1, <4>2 DEF CountExact
    <3> QED
      BY <3>1, <3>2
  <2>6. free_list' \in [Desc -> Seq(Block)]
    BY <1>3, <2>2 DEF MalInv
  <2> QED
    BY <1>1, <1>6, <2>1, <2>2, <2>3, <2>4, <2>5, <2>6 DEF MalInv
<1> QED
  BY <1>8, <1>9

LEMMA MalStep == MalInv /\ Next => MalInv'
BY BlockStep, ArenaStep, BigStep, FreeStep, FreeBigStep DEF Next

LEMMA MalInit == Init => MalInv
<1> SUFFICES ASSUME Init PROVE MalInv
  OBVIOUS
<1>1. /\ free_pages = Page /\ arena = <<>> /\ in_use = {}
      /\ free_list = [d \in Desc |-> <<>>]
  BY DEF Init
<1>2. DOMAIN arena = {} /\ arena \in [DOMAIN arena -> Arena]
  BY <1>1
<1>3. IsFiniteSet(in_use)
  BY <1>1, FS_EmptySet
<1>4. ASSUME NEW d \in Desc PROVE ListExact(d, free_list[d], arena, in_use)
  <2>1. free_list[d] = <<>> /\ DOMAIN free_list[d] = {}
    BY <1>1
  <2> QED
    BY <1>2, <2>1 DEF ListExact, IsInjective, ToSet
<1>5. Partition(free_pages, arena)
  BY <1>1, <1>2 DEF Partition
<1>6. free_list \in [Desc -> Seq(Block)]
  BY <1>1
<1> QED
  BY <1>1, <1>2, <1>3, <1>4, <1>5, <1>6 DEF MalInv

LEMMA MalSound == MalInv => BlocksAreSound
<1> SUFFICES ASSUME MalInv PROVE BlocksAreSound
  OBVIOUS
<1>1. \A p \in DOMAIN arena : p \in Small <=> arena[p].desc # BIG
  BY DEF Small
<1>2. FreeListExact
  <2> SUFFICES ASSUME NEW d \in Desc
               PROVE  /\ IsInjective(free_list[d])
                      /\ ToSet(free_list[d]) =
                           (UNION {ToSet(Blocks(d, p)) : p \in {q \in Small : arena[q].desc = d}})
                           \ in_use
    BY DEF FreeListExact
  <2>1. ListExact(d, free_list[d], arena, in_use) /\ d # BIG /\ blocks_per_arena[d] \in Nat
    BY Sizes DEF MalInv
  <2>2. \A x \in ToSet(free_list[d]) : x \in Block
    BY DEF MalInv, ToSet
  <2>3. \A p \in Page : \A x : x \in ToSet(Blocks(d, p)) <=>
          x \in Block /\ x[1] = p /\ x[2] < blocks_per_arena[d]
    <3> SUFFICES ASSUME NEW p \in Page, NEW x
                 PROVE  x \in ToSet(Blocks(d, p)) <=>
                          x \in Block /\ x[1] = p /\ x[2] < blocks_per_arena[d]
      OBVIOUS
    <3>1. ASSUME NEW i \in 1 .. blocks_per_arena[d]
          PROVE  LET y == <<p, i - 1>>
                 IN y \in Block /\ y[1] = p /\ y[2] < blocks_per_arena[d]
      BY <2>1 DEF Block
    <3>2. ASSUME x \in Block, x[1] = p, x[2] < blocks_per_arena[d]
          PROVE  \E i \in 1 .. blocks_per_arena[d] : x = <<p, i - 1>>
      <4>1. x = <<x[1], x[2]>> /\ x[2] \in Nat
        BY <3>2 DEF Block
      <4>2. x[2] + 1 \in 1 .. blocks_per_arena[d] /\ (x[2] + 1) - 1 = x[2]
        BY <2>1, <3>2, <4>1
      <4> QED
        BY <3>2, <4>1, <4>2
    <3>3. x \in ToSet(Blocks(d, p)) <=> \E i \in 1 .. blocks_per_arena[d] : x = <<p, i - 1>>
      BY DEF ToSet, Blocks
    <3> QED
      BY <3>1, <3>2, <3>3
  <2>4. \A p \in Small : p \in Page
    BY DEF Small, MalInv
  <2>5. \A x : x \in ToSet(free_list[d]) <=>
          /\ \E p \in {q \in Small : arena[q].desc = d} : x \in ToSet(Blocks(d, p))
          /\ x \notin in_use
    <3> SUFFICES ASSUME NEW x
                 PROVE  x \in ToSet(free_list[d]) <=>
                   /\ \E p \in {q \in Small : arena[q].desc = d} : x \in ToSet(Blocks(d, p))
                   /\ x \notin in_use
      OBVIOUS
    <3>1. (\E p \in {q \in Small : arena[q].desc = d} : x \in ToSet(Blocks(d, p))) <=>
            /\ x \in Block /\ x[1] \in DOMAIN arena /\ arena[x[1]].desc = d
            /\ x[2] < blocks_per_arena[d]
      BY <1>1, <2>1, <2>3, <2>4 DEF Small
    <3> QED
      BY <2>1, <2>2, <3>1 DEF ListExact
  <2> QED
    <3> DEFINE blocks == UNION {ToSet(Blocks(d, p)) : p \in {q \in Small : arena[q].desc = d}}
    <3>1. \A x : x \in blocks <=>
            \E p \in {q \in Small : arena[q].desc = d} : x \in ToSet(Blocks(d, p))
      OBVIOUS
    <3>2. IsInjective(free_list[d])
      BY <2>1 DEF ListExact
    <3> HIDE DEF blocks
    <3>3. ToSet(free_list[d]) = blocks \ in_use
      BY <2>5, <3>1
    <3> QED
      BY <3>2, <3>3 DEF blocks
<1>3. InUseHaveArenas
  BY <1>1 DEF InUseHaveArenas, MalInv, InArena
<1>4. ArenasInUse
  BY DEF ArenasInUse, Small, MalInv, CountExact, Used
<1>5. PagesPartitioned
  <2>1. \A p \in DOMAIN arena : PagesOf(p) = Pages(arena, p)
    BY <1>1 DEF PagesOf, Pages
  <2>2. Partition(free_pages, arena) /\ free_pages \subseteq Page
    BY DEF MalInv
  <2>3. free_pages \cup UNION {PagesOf(p) : p \in DOMAIN arena} = Page
    BY <2>1, <2>2 DEF Partition
  <2>4. \A p \in DOMAIN arena :
          /\ PagesOf(p) \cap free_pages = {}
          /\ \A q \in DOMAIN arena \ {p} : PagesOf(p) \cap PagesOf(q) = {}
    BY <2>1, <2>2 DEF Partition
  <2> QED
    BY <2>3, <2>4 DEF PagesPartitioned
<1> QED
  BY <1>2, <1>3, <1>4, <1>5 DEF BlocksAreSound

-----------------------------------------------------------------------------
(* The list of all threads.                                                *)

LEMMA LeastOf ==
  ASSUME NEW S, S \subseteq Nat, S # {}
  PROVE  \E x \in S : \A y \in S : x <= y
<1> DEFINE R == OpToRel(<, Nat)
<1>1. R = {p \in Nat \X Nat : p[1] < p[2]}
  BY DEF OpToRel
<1>2. IsWellFoundedOn(R, Nat)
  BY NatLessThanWellFounded, Zenon
<1> HIDE DEF R
<1>3. PICK x \in S : \A y \in S : <<y, x>> \notin R
  BY <1>2, WFMin
<1>4. ASSUME NEW y \in S PROVE ~(y < x)
  BY <1>1, <1>3
<1>5. \A y \in S : y \in Int /\ x \in Int
  OBVIOUS
<1> QED
  BY <1>4, <1>5

(* The pointers, read as a sequence: list_insert() and list_remove() keep   *)
(* every next right, and every prev but that of the tail, which is behind  *)
(* as long as a new element is linked and not linked back.                 *)
Chain(seq) ==
  LET last == Len(seq) - 1 IN
    /\ seq \in Seq(All!Element) /\ Len(seq) >= 2
    /\ seq[1] = ListHead /\ seq[Len(seq)] = ListTail
    /\ \A i, j \in 1 .. Len(seq) : seq[i] = seq[j] => i = j
    /\ \A t \in Tcb :
         all_state[t] \in {"linked", "listed"} <=> \E i \in 2 .. last : seq[i] = t
    /\ \A i \in 1 .. last : all_next[seq[i]] = seq[i + 1]
    /\ \A i \in 2 .. last : all_prev[seq[i]] = seq[i - 1]
    /\ (\A t \in Tcb : all_state[t] # "linked") => all_prev[ListTail] = seq[last]
    /\ \A t \in Tcb :
         /\ all_state[t] = "linked" => seq[last] = t
         /\ all_state[t] = "pointed" => all_prev[t] = seq[last] /\ all_next[t] = ListTail

AllInv ==
  /\ all_prev \in [All!Element -> All!Element] /\ all_next \in [All!Element -> All!Element]
  /\ all_state \in [Tcb -> {"none", "pointed", "linked", "listed"}]
  /\ all_next[ListTail] = ListTail /\ all_raced \in BOOLEAN
  /\ ~all_raced => /\ \E seq \in Seq(All!Element) : Chain(seq)
                   /\ \A t, u \in All!Inserting : t = u

LEMMA AllInit == All!Init => AllInv
<1> SUFFICES ASSUME All!Init PROVE AllInv
  OBVIOUS
<1> DEFINE seq == <<ListHead, ListTail>>
<1>1. /\ seq \in Seq(All!Element) /\ Len(seq) = 2 /\ seq[1] = ListHead /\ seq[2] = ListTail
      /\ ListHead # ListTail /\ ListHead \in All!Element /\ ListTail \in All!Element
  BY ListAssumption DEF All!Element
<1> HIDE DEF seq
<1>2. \A t \in Tcb : all_state[t] = "none"
  BY DEF All!Init
<1>3. all_prev[ListTail] = ListHead /\ all_next[ListHead] = ListTail
  BY <1>1 DEF All!Init
<1>4. Chain(seq)
  BY <1>1, <1>2, <1>3 DEF Chain
<1>5. All!Inserting = {}
  BY <1>2 DEF All!Inserting
<1> QED
  BY <1>1, <1>4, <1>5 DEF AllInv, All!Init, All!Element

(* The elements of a chain, and the one before the tail.                   *)
LEMMA ChainIs ==
  ASSUME NEW seq, Chain(seq), all_state \in [Tcb -> {"none", "pointed", "linked", "listed"}]
  PROVE  /\ Len(seq) \in Nat /\ Len(seq) >= 2
         /\ \A i \in 1 .. Len(seq) : seq[i] \in All!Element
         /\ \A i \in 2 .. Len(seq) - 1 :
              seq[i] \in Tcb /\ all_state[seq[i]] \in {"linked", "listed"}
         /\ \A i \in 1 .. Len(seq) - 1 : seq[i] # ListTail
<1>1. /\ Len(seq) \in Nat /\ Len(seq) >= 2 /\ seq[1] = ListHead /\ seq[Len(seq)] = ListTail
      /\ \A i \in 1 .. Len(seq) : seq[i] \in All!Element
      /\ \A i, j \in 1 .. Len(seq) : seq[i] = seq[j] => i = j
  BY DEF Chain
<1>2. ASSUME NEW i \in 2 .. Len(seq) - 1 PROVE seq[i] \in Tcb
  <2>1. seq[i] # seq[1] /\ seq[i] # seq[Len(seq)] /\ seq[i] \in All!Element
    BY <1>1
  <2> QED
    BY <1>1, <2>1 DEF All!Element
<1>3. ASSUME NEW i \in 2 .. Len(seq) - 1 PROVE all_state[seq[i]] \in {"linked", "listed"}
  BY <1>2 DEF Chain
<1>4. ASSUME NEW i \in 1 .. Len(seq) - 1 PROVE seq[i] # ListTail
  BY <1>1
<1> QED
  BY <1>1, <1>2, <1>3, <1>4

LEMMA PointStep ==
  ASSUME AllInv, ~all_raced, NEW t \in Tcb, All!Point(t)
  PROVE  AllInv'
<1>1. /\ all_prev' = [all_prev EXCEPT ![t] = all_prev[ListTail]]
      /\ all_next' = [all_next EXCEPT ![t] = ListTail]
      /\ all_state' = [all_state EXCEPT ![t] = "pointed"] /\ all_state[t] = "none"
      /\ all_raced' = (All!Inserting # {})
  BY DEF All!Point
<1>2. /\ all_prev' \in [All!Element -> All!Element] /\ all_next' \in [All!Element -> All!Element]
      /\ all_state' \in [Tcb -> {"none", "pointed", "linked", "listed"}]
      /\ all_next'[ListTail] = ListTail /\ all_raced' \in BOOLEAN
  BY <1>1, ListAssumption DEF AllInv, All!Element
<1>3. ASSUME All!Inserting = {} PROVE \E seq \in Seq(All!Element) : Chain(seq)'
  <2>1. PICK seq \in Seq(All!Element) : Chain(seq)
    BY DEF AllInv
  <2>2. \A u \in Tcb : all_state[u] \notin {"pointed", "linked"}
    BY <1>3 DEF All!Inserting
  <2>3. \A u \in Tcb \ {t} : all_state'[u] = all_state[u]
    BY <1>1 DEF AllInv
  <2>4. all_state'[t] = "pointed"
    BY <1>1 DEF AllInv
  <2>5. all_prev'[t] = seq[Len(seq) - 1] /\ all_next'[t] = ListTail
    BY <1>1, <2>1, <2>2 DEF AllInv, Chain, All!Element
  <2>6. \A e \in All!Element : e # t => all_prev'[e] = all_prev[e] /\ all_next'[e] = all_next[e]
    BY <1>1 DEF AllInv
  <2>7. \A i \in 1 .. Len(seq) : seq[i] \in All!Element /\ seq[i] # t
    <3> SUFFICES ASSUME NEW i \in 1 .. Len(seq) PROVE seq[i] \in All!Element /\ seq[i] # t
      OBVIOUS
    <3>1. CASE i \in 2 .. Len(seq) - 1
      BY <1>1, <2>1, <3>1, ChainIs DEF AllInv
    <3>2. CASE i = 1 \/ i = Len(seq)
      BY <2>1, <3>2, ListAssumption DEF Chain, All!Element
    <3> QED
      BY <3>1, <3>2
  <2>8. Len(seq) \in Nat /\ ListTail \in All!Element /\ ListTail # t /\ Len(seq) >= 2
    BY <2>1, ListAssumption DEF All!Element, Chain
  <2>9. /\ \A i \in 1 .. Len(seq) - 1 : all_next'[seq[i]] = seq[i + 1]
        /\ \A i \in 2 .. Len(seq) - 1 : all_prev'[seq[i]] = seq[i - 1]
        /\ all_prev'[ListTail] = seq[Len(seq) - 1]
    <3>1. all_prev[ListTail] = seq[Len(seq) - 1]
      BY <2>1, <2>2 DEF Chain
    <3>2. all_prev'[ListTail] = all_prev[ListTail]
      BY <2>6, <2>8
    <3>3. /\ \A i \in 1 .. Len(seq) - 1 : all_next[seq[i]] = seq[i + 1]
          /\ \A i \in 2 .. Len(seq) - 1 : all_prev[seq[i]] = seq[i - 1]
      BY <2>1 DEF Chain
    <3>4. \A i \in 1 .. Len(seq) :
            all_prev'[seq[i]] = all_prev[seq[i]] /\ all_next'[seq[i]] = all_next[seq[i]]
      BY <2>6, <2>7
    <3>5. ASSUME NEW i \in 1 .. Len(seq) - 1 PROVE all_next'[seq[i]] = seq[i + 1]
      <4>1. i \in 1 .. Len(seq)
        BY <2>8
      <4> QED
        BY <3>3, <3>4, <4>1
    <3>6. ASSUME NEW i \in 2 .. Len(seq) - 1 PROVE all_prev'[seq[i]] = seq[i - 1]
      <4>1. i \in 1 .. Len(seq)
        BY <2>8
      <4> QED
        BY <3>3, <3>4, <4>1
    <3> QED
      BY <3>1, <3>2, <3>5, <3>6
  <2>10. \A u \in Tcb :
           /\ all_state'[u] \in {"linked", "listed"} <=> all_state[u] \in {"linked", "listed"}
           /\ all_state'[u] # "linked" /\ (all_state'[u] = "pointed" => u = t)
    BY <1>1, <2>2, <2>3, <2>4
  <2>11. Chain(seq)'
    BY <2>1, <2>5, <2>9, <2>10 DEF Chain
  <2> QED
    BY <2>11
<1>4. ASSUME All!Inserting = {} PROVE \A x, y \in All!Inserting' : x = y
  BY <1>1, <1>4 DEF All!Inserting, AllInv
<1> QED
  BY <1>1, <1>2, <1>3, <1>4 DEF AllInv

LEMMA LinkStep ==
  ASSUME AllInv, ~all_raced, NEW t \in Tcb, All!Link(t)
  PROVE  AllInv'
<1>1. PICK before \in {all_prev[ListTail], all_prev[t]} :
        all_next' = [all_next EXCEPT ![before] = t]
  BY DEF All!Link
<1>2. /\ all_state' = [all_state EXCEPT ![t] = "linked"] /\ all_state[t] = "pointed"
      /\ all_prev' = all_prev /\ all_raced' = all_raced
  BY DEF All!Link
<1>3. PICK seq \in Seq(All!Element) : Chain(seq)
  BY DEF AllInv
<1>4. \A x, y \in All!Inserting : x = y
  BY DEF AllInv
<1>5. \A u \in Tcb \ {t} : all_state'[u] = all_state[u] /\ all_state[u] \in {"none", "listed"}
  BY <1>2, <1>4 DEF AllInv, All!Inserting
<1>6. all_state'[t] = "linked"
  BY <1>2 DEF AllInv
<1> DEFINE n == Len(seq)
<1>7. /\ n \in Nat /\ n >= 2 /\ seq[1] = ListHead /\ seq[n] = ListTail
      /\ \A i, j \in 1 .. n : seq[i] = seq[j] => i = j
      /\ \A i \in 1 .. n : seq[i] \in All!Element
      /\ \A i \in 1 .. n - 1 : seq[i] # ListTail
  BY <1>3, ChainIs DEF Chain, AllInv
<1>8. \A i \in 1 .. n : seq[i] # t
  <2> SUFFICES ASSUME NEW i \in 1 .. n PROVE seq[i] # t
    OBVIOUS
  <2>1. CASE i \in 2 .. n - 1
    BY <1>2, <1>3, <2>1, ChainIs DEF AllInv
  <2>2. CASE i = 1 \/ i = n
    BY <1>7, <2>2, ListAssumption
  <2> QED
    BY <1>7, <2>1, <2>2
<1>9. before = seq[n - 1] /\ all_prev[t] = seq[n - 1] /\ all_next[t] = ListTail
  <2>1. \A u \in Tcb : all_state[u] # "linked"
    BY <1>2, <1>5
  <2> QED
    BY <1>1, <1>2, <1>3, <2>1 DEF Chain
<1>10. t \in All!Element /\ ListTail \in All!Element /\ t # ListTail
  BY ListAssumption DEF All!Element
<1>11. /\ all_next' \in [All!Element -> All!Element] /\ all_next'[before] = t
       /\ \A e \in All!Element : e # before => all_next'[e] = all_next[e]
       /\ before \in All!Element /\ before # ListTail /\ before # t
  BY <1>1, <1>7, <1>8, <1>9, <1>10 DEF AllInv
<1>12. PICK new \in Seq(All!Element) :
         /\ Len(new) = n + 1 /\ new[n] = t /\ new[n + 1] = ListTail
         /\ \A i \in 1 .. n - 1 : new[i] = seq[i]
  <2> DEFINE new == [i \in 1 .. n + 1 |-> IF i < n THEN seq[i] ELSE IF i = n THEN t ELSE ListTail]
  <2>1. \A i \in 1 .. n + 1 : new[i] \in All!Element
    BY <1>7, <1>10
  <2>2. new \in Seq(All!Element) /\ Len(new) = n + 1
    BY <1>7, <2>1
  <2>3. new[n] = t /\ new[n + 1] = ListTail /\ \A i \in 1 .. n - 1 : new[i] = seq[i]
    BY <1>7
  <2> QED
    BY <2>2, <2>3
<1> HIDE DEF n
<1>13. new[1] = ListHead /\ \A i, j \in 1 .. n + 1 : new[i] = new[j] => i = j
  <2>1. \A i \in 1 .. n - 1 : new[i] # t /\ new[i] # ListTail
    BY <1>7, <1>8, <1>12
  <2>2. \A i, j \in 1 .. n - 1 : new[i] = new[j] => i = j
    BY <1>7, <1>12
  <2>3. \A i \in 1 .. n + 1 : i \in 1 .. n - 1 \/ i = n \/ i = n + 1
    BY <1>7
  <2> QED
    BY <1>7, <1>10, <1>12, <2>1, <2>2, <2>3
<1>14. \A i \in 1 .. n : all_next'[new[i]] = new[i + 1]
  <2> SUFFICES ASSUME NEW i \in 1 .. n PROVE all_next'[new[i]] = new[i + 1]
    OBVIOUS
  <2>1. CASE i = n
    BY <1>9, <1>10, <1>11, <1>12, <2>1
  <2>2. CASE i = n - 1
    <3>1. new[i] = before /\ new[i + 1] = t
      BY <1>7, <1>9, <1>12, <2>2
    <3> QED
      BY <1>11, <3>1
  <2>3. CASE i \in 1 .. n - 2
    <3>1. new[i] = seq[i] /\ new[i + 1] = seq[i + 1] /\ seq[i] # before /\ seq[i] \in All!Element
      BY <1>7, <1>9, <1>12, <2>3
    <3>2. all_next[seq[i]] = seq[i + 1]
      BY <1>3, <1>7, <2>3 DEF Chain, n
    <3> QED
      BY <1>11, <3>1, <3>2
  <2> QED
    BY <1>7, <2>1, <2>2, <2>3
<1>15. \A i \in 2 .. n : all_prev'[new[i]] = new[i - 1]
  <2> SUFFICES ASSUME NEW i \in 2 .. n PROVE all_prev'[new[i]] = new[i - 1]
    OBVIOUS
  <2>1. CASE i = n
    BY <1>2, <1>7, <1>9, <1>12, <2>1
  <2>2. CASE i \in 2 .. n - 1
    <3>1. new[i] = seq[i] /\ new[i - 1] = seq[i - 1]
      BY <1>7, <1>12, <2>2
    <3>2. all_prev[seq[i]] = seq[i - 1]
      BY <1>3, <2>2 DEF Chain, n
    <3> QED
      BY <1>2, <3>1, <3>2
  <2> QED
    BY <1>7, <2>1, <2>2
<1>16. \A u \in Tcb :
         all_state'[u] \in {"linked", "listed"} <=> \E i \in 2 .. n : new[i] = u
  <2> SUFFICES ASSUME NEW u \in Tcb
               PROVE  all_state'[u] \in {"linked", "listed"} <=> \E i \in 2 .. n : new[i] = u
    OBVIOUS
  <2>1. CASE u = t
    BY <1>6, <1>7, <1>12, <2>1
  <2>2. CASE u # t
    <3>1. all_state[u] \in {"linked", "listed"} <=> \E i \in 2 .. n - 1 : seq[i] = u
      BY <1>3 DEF Chain, n
    <3>2. (\E i \in 2 .. n : new[i] = u) <=> \E i \in 2 .. n - 1 : seq[i] = u
      <4>1. \A i \in 2 .. n : i = n \/ i \in 2 .. n - 1
        BY <1>7
      <4>2. \A i \in 2 .. n - 1 : i \in 2 .. n /\ new[i] = seq[i]
        BY <1>7, <1>12
      <4> QED
        BY <1>12, <2>2, <4>1, <4>2
    <3> QED
      BY <1>5, <2>2, <3>1, <3>2
  <2> QED
    BY <2>1, <2>2
<1>17. \A u \in Tcb : all_state'[u] # "pointed" /\ (all_state'[u] = "linked" => u = t)
  BY <1>5, <1>6
<1>18. Chain(new)'
  <2>1. Len(new) - 1 = n /\ Len(new) >= 2 /\ Len(new) = n + 1
    BY <1>7, <1>12
  <2> QED
    BY <1>6, <1>12, <1>13, <1>14, <1>15, <1>16, <1>17, <2>1 DEF Chain
<1>19. \A x, y \in All!Inserting' : x = y
  BY <1>17 DEF All!Inserting
<1>20. all_state' \in [Tcb -> {"none", "pointed", "linked", "listed"}]
  BY <1>2 DEF AllInv
<1>21. all_next'[ListTail] = ListTail
  BY <1>10, <1>11 DEF AllInv
<1> QED
  BY <1>2, <1>11, <1>18, <1>19, <1>20, <1>21 DEF AllInv

LEMMA LinkBackStep ==
  ASSUME AllInv, ~all_raced, NEW t \in Tcb, All!LinkBack(t)
  PROVE  AllInv'
<1>1. /\ all_state' = [all_state EXCEPT ![t] = "listed"] /\ all_state[t] = "linked"
      /\ all_prev' = [all_prev EXCEPT ![ListTail] = t]
      /\ all_next' = all_next /\ all_raced' = all_raced
  BY DEF All!LinkBack
<1>2. PICK seq \in Seq(All!Element) : Chain(seq)
  BY DEF AllInv
<1>3. \A u \in Tcb \ {t} : all_state'[u] = all_state[u] /\ all_state[u] \in {"none", "listed"}
  BY <1>1 DEF AllInv, All!Inserting
<1>4. all_state'[t] = "listed"
  BY <1>1 DEF AllInv
<1>5. t \in All!Element /\ ListTail \in All!Element
  BY DEF All!Element
<1>6. all_prev'[ListTail] = t /\ \A e \in All!Element : e # ListTail => all_prev'[e] = all_prev[e]
  BY <1>1, <1>5 DEF AllInv
<1>7. t = seq[Len(seq) - 1]
  BY <1>1, <1>2 DEF Chain
<1>8. \A i \in 2 .. Len(seq) - 1 : all_prev'[seq[i]] = seq[i - 1]
  <2> SUFFICES ASSUME NEW i \in 2 .. Len(seq) - 1 PROVE all_prev'[seq[i]] = seq[i - 1]
    OBVIOUS
  <2>1. seq[i] \in All!Element /\ seq[i] # ListTail
    BY <1>2, ChainIs DEF AllInv
  <2>2. all_prev[seq[i]] = seq[i - 1]
    BY <1>2 DEF Chain
  <2> QED
    BY <1>6, <2>1, <2>2
<1>9. \A u \in Tcb :
        /\ all_state'[u] \in {"linked", "listed"} <=> all_state[u] \in {"linked", "listed"}
        /\ all_state'[u] \in {"none", "listed"}
  BY <1>1, <1>3, <1>4
<1>10. Chain(seq)'
  BY <1>1, <1>2, <1>6, <1>7, <1>8, <1>9 DEF Chain
<1>11. All!Inserting' = {}
  BY <1>9 DEF All!Inserting
<1> QED
  BY <1>1, <1>5, <1>10, <1>11 DEF AllInv

LEMMA RemoveStep ==
  ASSUME AllInv, ~all_raced, NEW t \in Tcb, All!Remove(t)
  PROVE  AllInv'
<1>1. /\ all_next' = [all_next EXCEPT ![all_prev[t]] = all_next[t]]
      /\ all_prev' = [all_prev EXCEPT ![all_next[t]] = all_prev[t]]
      /\ all_state' = [all_state EXCEPT ![t] = "none"] /\ all_state[t] = "listed"
      /\ all_raced' = \E u \in All!Inserting : all_state[u] = "pointed" /\ all_prev[u] = t
  BY DEF All!Remove
<1>2. PICK seq \in Seq(All!Element) : Chain(seq)
  BY DEF AllInv
<1> DEFINE n == Len(seq)
<1>3. /\ n \in Nat /\ n >= 2 /\ seq[1] = ListHead /\ seq[n] = ListTail
      /\ \A i, j \in 1 .. n : seq[i] = seq[j] => i = j
      /\ \A i \in 1 .. n : seq[i] \in All!Element
      /\ \A i \in 1 .. n - 1 : seq[i] # ListTail
  BY <1>2, ChainIs DEF Chain, AllInv
<1>4. PICK k \in 2 .. n - 1 : seq[k] = t
  BY <1>1, <1>2 DEF Chain
<1>5. all_next[t] = seq[k + 1] /\ all_prev[t] = seq[k - 1]
  <2>1. k \in 1 .. n - 1
    BY <1>3
  <2> QED
    BY <1>2, <1>4, <2>1 DEF Chain
<1>6. /\ k + 1 \in 1 .. n /\ k - 1 \in 1 .. n - 1 /\ k \in Nat
      /\ t \in All!Element /\ ListTail \in All!Element
  BY <1>3 DEF All!Element
<1>7. /\ all_next'[seq[k - 1]] = seq[k + 1] /\ all_prev'[seq[k + 1]] = seq[k - 1]
      /\ \A e \in All!Element : e # seq[k - 1] => all_next'[e] = all_next[e]
      /\ \A e \in All!Element : e # seq[k + 1] => all_prev'[e] = all_prev[e]
      /\ all_next' \in [All!Element -> All!Element] /\ all_prev' \in [All!Element -> All!Element]
      /\ all_next'[ListTail] = ListTail
  BY <1>1, <1>3, <1>5, <1>6 DEF AllInv
<1>8. /\ all_state' \in [Tcb -> {"none", "pointed", "linked", "listed"}]
      /\ all_state'[t] = "none" /\ \A u \in Tcb \ {t} : all_state'[u] = all_state[u]
  BY <1>1 DEF AllInv
<1>9. \A x, y \in All!Inserting' : x = y
  <2>1. All!Inserting' \subseteq All!Inserting
    BY <1>8 DEF All!Inserting
  <2> QED
    BY <2>1 DEF AllInv
<1>10. PICK new \in Seq(All!Element) :
         /\ Len(new) = n - 1
         /\ \A i \in 1 .. k - 1 : new[i] = seq[i]
         /\ \A i \in k .. n - 1 : new[i] = seq[i + 1]
  <2> DEFINE new == [i \in 1 .. n - 1 |-> IF i < k THEN seq[i] ELSE seq[i + 1]]
  <2>1. \A i \in 1 .. n - 1 : new[i] \in All!Element
    BY <1>3
  <2>2. new \in Seq(All!Element) /\ Len(new) = n - 1
    BY <1>3, <2>1
  <2>3. /\ \A i \in 1 .. k - 1 : new[i] = seq[i]
        /\ \A i \in k .. n - 1 : new[i] = seq[i + 1]
    BY <1>3
  <2> QED
    BY <2>2, <2>3
<1> HIDE DEF n
<1>11. ASSUME ~all_raced' PROVE Chain(new)'
  <2>1. \A u \in Tcb : all_state[u] = "pointed" => all_prev[u] # t
    BY <1>1, <1>11 DEF All!Inserting
  <2>2. /\ Len(new) >= 2 /\ new[1] = ListHead /\ new[n - 1] = ListTail
    BY <1>3, <1>10
  <2>3. \A i, j \in 1 .. n - 1 : new[i] = new[j] => i = j
    <3>1. PICK old \in [1 .. n - 1 -> 1 .. n] :
            /\ \A i \in 1 .. n - 1 : new[i] = seq[old[i]]
            /\ \A i, j \in 1 .. n - 1 : old[i] = old[j] => i = j
      <4> DEFINE old == [i \in 1 .. n - 1 |-> IF i < k THEN i ELSE i + 1]
      <4>1. old \in [1 .. n - 1 -> 1 .. n]
        BY <1>3
      <4>2. \A i \in 1 .. n - 1 : new[i] = seq[old[i]]
        BY <1>3, <1>10
      <4>3. \A i, j \in 1 .. n - 1 : old[i] = old[j] => i = j
        BY <1>3
      <4> QED
        BY <4>1, <4>2, <4>3
    <3> SUFFICES ASSUME NEW i \in 1 .. n - 1, NEW j \in 1 .. n - 1, new[i] = new[j] PROVE i = j
      OBVIOUS
    <3>2. seq[old[i]] = seq[old[j]] /\ old[i] \in 1 .. n /\ old[j] \in 1 .. n
      BY <3>1
    <3>3. old[i] = old[j]
      BY <1>3, <3>2
    <3> QED
      BY <3>1, <3>3
  <2>4. \A i \in 1 .. n - 2 : all_next'[new[i]] = new[i + 1]
    <3> SUFFICES ASSUME NEW i \in 1 .. n - 2 PROVE all_next'[new[i]] = new[i + 1]
      OBVIOUS
    <3>1. \A j \in 1 .. n - 1 : all_next[seq[j]] = seq[j + 1]
      BY <1>2 DEF Chain, n
    <3>2. CASE i = k - 1
      <4>1. new[i] = seq[k - 1] /\ new[i + 1] = seq[k + 1]
        <5>1. i \in 1 .. k - 1 /\ i + 1 = k /\ k \in k .. n - 1
          BY <1>3, <1>6, <3>2
        <5> QED
          BY <1>10, <3>2, <5>1
      <4> QED
        BY <1>7, <4>1
    <3>3. CASE i < k - 1
      <4>1. new[i] = seq[i] /\ new[i + 1] = seq[i + 1]
        <5>1. i \in 1 .. k - 1 /\ i + 1 \in 1 .. k - 1
          BY <1>3, <1>6, <3>3
        <5> QED
          BY <1>10, <5>1
      <4>2. seq[i] \in All!Element /\ seq[i] # seq[k - 1] /\ i \in 1 .. n - 1
        BY <1>3, <1>6, <3>3
      <4> QED
        BY <1>7, <3>1, <4>1, <4>2
    <3>4. CASE i > k - 1
      <4>1. new[i] = seq[i + 1] /\ new[i + 1] = seq[i + 2]
        <5>1. i \in k .. n - 1 /\ i + 1 \in k .. n - 1 /\ (i + 1) + 1 = i + 2
          BY <1>3, <1>6, <3>4
        <5> QED
          BY <1>10, <5>1
      <4>2. seq[i + 1] \in All!Element /\ seq[i + 1] # seq[k - 1] /\ i + 1 \in 1 .. n - 1
        BY <1>3, <1>6, <3>4
      <4>3. all_next[seq[i + 1]] = seq[i + 2]
        BY <1>3, <3>1, <4>2
      <4> QED
        BY <1>7, <4>1, <4>2, <4>3
    <3> QED
      BY <1>3, <1>6, <3>2, <3>3, <3>4
  <2>5. \A i \in 2 .. n - 2 : all_prev'[new[i]] = new[i - 1]
    <3> SUFFICES ASSUME NEW i \in 2 .. n - 2 PROVE all_prev'[new[i]] = new[i - 1]
      OBVIOUS
    <3>1. \A j \in 2 .. n - 1 : all_prev[seq[j]] = seq[j - 1]
      BY <1>2 DEF Chain, n
    <3>2. CASE i = k
      <4>1. new[i] = seq[k + 1] /\ new[i - 1] = seq[k - 1]
        <5>1. k \in k .. n - 1 /\ k - 1 \in 1 .. k - 1
          BY <1>3, <1>6
        <5> QED
          BY <1>10, <3>2, <5>1
      <4> QED
        BY <1>7, <4>1
    <3>3. CASE i < k
      <4>1. new[i] = seq[i] /\ new[i - 1] = seq[i - 1]
        <5>1. i \in 1 .. k - 1 /\ i - 1 \in 1 .. k - 1
          BY <1>3, <1>6, <3>3
        <5> QED
          BY <1>10, <5>1
      <4>2. seq[i] \in All!Element /\ seq[i] # seq[k + 1] /\ i \in 2 .. n - 1
        BY <1>3, <1>6, <3>3
      <4> QED
        BY <1>7, <3>1, <4>1, <4>2
    <3>4. CASE i > k
      <4>1. new[i] = seq[i + 1] /\ new[i - 1] = seq[i]
        <5>1. i \in k .. n - 1 /\ i - 1 \in k .. n - 1 /\ (i - 1) + 1 = i
          BY <1>3, <1>6, <3>4
        <5> QED
          BY <1>10, <5>1
      <4>2. seq[i + 1] \in All!Element /\ seq[i + 1] # seq[k + 1] /\ i + 1 \in 2 .. n - 1
        BY <1>3, <1>6, <3>4
      <4>3. all_prev[seq[i + 1]] = seq[i]
        BY <1>3, <3>1, <4>2
      <4> QED
        BY <1>7, <4>1, <4>2, <4>3
    <3> QED
      BY <1>3, <1>6, <3>2, <3>3, <3>4
  <2>6. \A u \in Tcb :
          all_state'[u] \in {"linked", "listed"} <=> \E i \in 2 .. n - 2 : new[i] = u
    <3> SUFFICES ASSUME NEW u \in Tcb
                 PROVE  all_state'[u] \in {"linked", "listed"} <=> \E i \in 2 .. n - 2 : new[i] = u
      OBVIOUS
    <3>1. all_state[u] \in {"linked", "listed"} <=> \E i \in 2 .. n - 1 : seq[i] = u
      BY <1>2 DEF Chain, n
    <3>2. ASSUME NEW i \in 2 .. n - 2, new[i] = u PROVE u # t /\ \E j \in 2 .. n - 1 : seq[j] = u
      <4>1. CASE i < k
        <5>1. i \in 1 .. k - 1 /\ i \in 2 .. n - 1 /\ i \in 1 .. n /\ k \in 1 .. n /\ i # k
          BY <1>3, <1>6, <4>1
        <5>2. new[i] = seq[i] /\ seq[i] # seq[k]
          BY <1>3, <1>10, <5>1
        <5> QED
          BY <1>4, <3>2, <5>1, <5>2
      <4>2. CASE i >= k
        <5>1. /\ i \in k .. n - 1 /\ i + 1 \in 2 .. n - 1
              /\ i + 1 \in 1 .. n /\ k \in 1 .. n /\ i + 1 # k
          BY <1>3, <1>6, <4>2
        <5>2. new[i] = seq[i + 1] /\ seq[i + 1] # seq[k]
          BY <1>3, <1>10, <5>1
        <5> QED
          BY <1>4, <3>2, <5>1, <5>2
      <4> QED
        BY <1>6, <4>1, <4>2
    <3>3. ASSUME NEW j \in 2 .. n - 1, seq[j] = u, u # t PROVE \E i \in 2 .. n - 2 : new[i] = u
      <4>1. j # k
        BY <1>4, <3>3
      <4>2. CASE j < k
        <5>1. j \in 1 .. k - 1 /\ j \in 2 .. n - 2
          BY <1>3, <1>4, <1>6, <4>2
        <5>2. new[j] = seq[j]
          BY <1>10, <5>1
        <5> QED
          BY <3>3, <5>1, <5>2
      <4>3. CASE j > k
        <5>1. j - 1 \in k .. n - 1 /\ j - 1 \in 2 .. n - 2 /\ (j - 1) + 1 = j
          BY <1>3, <4>3
        <5> QED
          BY <1>10, <3>3, <5>1
      <4> QED
        BY <1>6, <4>1, <4>2, <4>3
    <3>4. CASE u = t
      BY <1>8, <3>2, <3>4
    <3>5. CASE u # t
      BY <1>8, <3>1, <3>2, <3>3, <3>5
    <3> QED
      BY <3>4, <3>5
  <2>7. k = n - 1 => new[n - 2] = seq[n - 2] /\ seq[k + 1] = ListTail /\ seq[k - 1] = seq[n - 2]
    <3> SUFFICES ASSUME k = n - 1
                 PROVE  /\ new[n - 2] = seq[n - 2] /\ seq[k + 1] = ListTail
                        /\ seq[k - 1] = seq[n - 2]
      OBVIOUS
    <3>1. n - 2 \in 1 .. k - 1 /\ k + 1 = n /\ k - 1 = n - 2
      BY <1>3, <1>6
    <3> QED
      BY <1>3, <1>10, <3>1
  <2>8. k # n - 1 => new[n - 2] = seq[n - 1] /\ seq[k + 1] # ListTail
    <3> SUFFICES ASSUME k # n - 1
                 PROVE  new[n - 2] = seq[n - 1] /\ seq[k + 1] # ListTail
      OBVIOUS
    <3>1. n - 2 \in k .. n - 1 /\ (n - 2) + 1 = n - 1 /\ k + 1 \in 1 .. n - 1
      BY <1>3, <1>6
    <3> QED
      BY <1>3, <1>10, <3>1
  <2>9. (\A u \in Tcb : all_state'[u] # "linked") => all_prev'[ListTail] = new[n - 2]
    <3> SUFFICES ASSUME \A u \in Tcb : all_state'[u] # "linked"
                 PROVE  all_prev'[ListTail] = new[n - 2]
      OBVIOUS
    <3>1. \A u \in Tcb : all_state[u] # "linked"
      BY <1>1, <1>8
    <3>2. all_prev[ListTail] = seq[n - 1]
      BY <1>2, <3>1 DEF Chain, n
    <3> QED
      BY <1>6, <1>7, <2>7, <2>8, <3>2
  <2>10. ASSUME NEW u \in Tcb, all_state'[u] = "linked" PROVE new[n - 2] = u
    <3>1. u # t /\ all_state[u] = "linked"
      BY <1>8, <2>10
    <3>2. seq[n - 1] = u
      BY <1>2, <3>1 DEF Chain, n
    <3>3. k # n - 1
      BY <1>4, <3>1, <3>2
    <3> QED
      BY <2>8, <3>2, <3>3
  <2>11. ASSUME NEW u \in Tcb, all_state'[u] = "pointed"
         PROVE  all_prev'[u] = new[n - 2] /\ all_next'[u] = ListTail
    <3>1. u # t /\ all_state[u] = "pointed" /\ u \in All!Element
      BY <1>8, <2>11 DEF All!Element
    <3>2. all_prev[u] = seq[n - 1] /\ all_next[u] = ListTail
      BY <1>2, <3>1 DEF Chain, n
    <3>3. k # n - 1
      BY <1>4, <2>1, <3>1, <3>2
    <3>4. \A i \in 1 .. n : seq[i] # u
      <4> SUFFICES ASSUME NEW i \in 1 .. n PROVE seq[i] # u
        OBVIOUS
      <4>1. CASE i \in 2 .. n - 1
        BY <1>2, <3>1, <4>1, ChainIs DEF AllInv, n
      <4>2. CASE i = 1 \/ i = n
        BY <1>3, <4>2, ListAssumption
      <4> QED
        BY <1>3, <4>1, <4>2
    <3>5. u # seq[k - 1] /\ u # seq[k + 1]
      BY <1>3, <1>6, <3>4
    <3> QED
      BY <1>7, <2>8, <3>1, <3>2, <3>3, <3>5
  <2>12. Len(new) = n - 1 /\ Len(new) - 1 = n - 2
    BY <1>3, <1>10
  <2> QED
    BY <2>2, <2>3, <2>4, <2>5, <2>6, <2>9, <2>10, <2>11, <2>12 DEF Chain
<1>12. all_raced' \in BOOLEAN
  BY <1>1
<1> QED
  BY <1>7, <1>8, <1>9, <1>11, <1>12 DEF AllInv

LEMMA AllNext == AllInv /\ All!Next => AllInv'
  BY PointStep, LinkStep, LinkBackStep, RemoveStep DEF All!Next
LEMMA AllStutters == AllInv /\ UNCHANGED Allvars => AllInv'
  BY DEF AllInv, All!Inserting, Chain, Allvars

(* A walk from the head over any length is along the chain.                *)
LEMMA WalkIs ==
  ASSUME NEW seq, Chain(seq), all_next[ListTail] = ListTail, NEW C \in Nat,
         all_state \in [Tcb -> {"none", "pointed", "linked", "listed"}]
  PROVE  LET walk[n \in 0 .. C] == IF n = 0 THEN ListHead ELSE all_next[walk[n - 1]]
         IN /\ DOMAIN walk = 0 .. C
            /\ \A n \in 0 .. C : walk[n] = IF n < Len(seq) THEN seq[n + 1] ELSE ListTail
<1> DEFINE F(w) == [n \in 0 .. C |-> IF n = 0 THEN ListHead ELSE all_next[w[n - 1]]]
           g == [n \in 0 .. C |-> IF n < Len(seq) THEN seq[n + 1] ELSE ListTail]
           walk == CHOOSE w : w = F(w)
<1>1. /\ Len(seq) \in Nat /\ Len(seq) >= 2 /\ seq[1] = ListHead /\ seq[Len(seq)] = ListTail
      /\ \A i \in 1 .. Len(seq) - 1 : all_next[seq[i]] = seq[i + 1]
  BY ChainIs DEF Chain
<1>2. g = F(g)
  <2>1. ASSUME NEW n \in 0 .. C PROVE g[n] = IF n = 0 THEN ListHead ELSE all_next[g[n - 1]]
    <3>1. CASE n = 0
      BY <1>1, <3>1
    <3>2. CASE n # 0 /\ n < Len(seq)
      <4>1. n \in 1 .. Len(seq) - 1 /\ n - 1 \in 0 .. C /\ (n - 1) + 1 = n
        BY <1>1, <3>2
      <4>2. g[n] = seq[n + 1] /\ g[n - 1] = seq[n]
        BY <1>1, <3>2, <4>1
      <4> QED
        BY <1>1, <3>2, <4>1, <4>2
    <3>3. CASE n # 0 /\ n >= Len(seq)
      <4>1. n - 1 \in 0 .. C /\ g[n] = ListTail /\ g[n - 1] = ListTail
        <5>1. n - 1 \in 0 .. C /\ (n - 1) + 1 = n
          BY <3>3
        <5>2. CASE n = Len(seq)
          BY <1>1, <3>3, <5>1, <5>2
        <5>3. CASE n > Len(seq)
          BY <1>1, <3>3, <5>1, <5>3
        <5> QED
          BY <1>1, <3>3, <5>2, <5>3
      <4> QED
        BY <3>3, <4>1
    <3> QED
      BY <1>1, <3>1, <3>2, <3>3
  <2> QED
    BY <2>1
<1>3. walk = F(walk)
  <2>1. \E w : w = F(w)
    BY <1>2
  <2> HIDE DEF F
  <2> QED
    BY <2>1
<1> HIDE DEF walk
<1>4. \A n \in 0 .. C : walk[n] = g[n]
  <2> DEFINE Wrong == {n \in 0 .. C : walk[n] # g[n]}
  <2> SUFFICES ASSUME Wrong # {} PROVE FALSE
    OBVIOUS
  <2>1. PICK n \in 0 .. C : walk[n] # g[n] /\ \A i \in 0 .. C : walk[i] # g[i] => n <= i
    <3>1. Wrong \subseteq Nat
      OBVIOUS
    <3> HIDE DEF Wrong
    <3>2. PICK n \in Wrong : \A i \in Wrong : n <= i
      BY <3>1, LeastOf
    <3> QED
      BY <3>2 DEF Wrong
  <2>2. walk[n] = IF n = 0 THEN ListHead ELSE all_next[walk[n - 1]]
    BY <1>3
  <2>3. g[n] = IF n = 0 THEN ListHead ELSE all_next[g[n - 1]]
    BY <1>2
  <2> HIDE DEF g, F
  <2>4. n # 0
    BY <2>1, <2>2, <2>3
  <2>5. n - 1 \in 0 .. C /\ ~(n <= n - 1)
    BY <2>4
  <2>6. walk[n - 1] = g[n - 1]
    BY <2>1, <2>5
  <2> QED
    BY <2>1, <2>2, <2>3, <2>4, <2>6
<1>5. DOMAIN walk = 0 .. C
  BY <1>3
<1> QED
  BY <1>4, <1>5 DEF walk

LEMMA ListCardinality == \A S : All!Cardinality(S) = Cardinality(S)
BY DEF All!Cardinality, Cardinality

LEMMA AllSound == AllInv => ListSurvives
<1> SUFFICES ASSUME AllInv, ~all_raced
             PROVE  /\ All!Listed \cup {ListHead, ListTail} \subseteq All!Passed
                    /\ All!Passed \subseteq All!Listed \cup All!Inserting \cup {ListHead, ListTail}
                    /\ \A t \in All!Listed :
                         /\ all_next[all_prev[t]] = t
                         /\ \/ all_prev[all_next[t]] = t
                            \/ all_next[t] = ListTail /\ All!Inserting # {}
                         /\ {all_prev[t], all_next[t]} \cap Tcb
                              \subseteq All!Listed \cup All!Inserting
  BY DEF ListSurvives, All!ListSurvives
<1>1. PICK seq \in Seq(All!Element) : Chain(seq)
  BY DEF AllInv
<1> DEFINE n == Len(seq)
           C == Cardinality(Tcb) + 1
<1>2. /\ n \in Nat /\ n >= 2 /\ seq[1] = ListHead /\ seq[n] = ListTail
      /\ \A i, j \in 1 .. n : seq[i] = seq[j] => i = j
      /\ \A i \in 1 .. n : seq[i] \in All!Element
      /\ \A i \in 2 .. n - 1 : seq[i] \in Tcb /\ all_state[seq[i]] \in {"linked", "listed"}
  BY <1>1, ChainIs DEF Chain, AllInv
<1>3. \A i \in 1 .. n : seq[i] \in All!Listed \cup All!Inserting \cup {ListHead, ListTail}
  <2> SUFFICES ASSUME NEW i \in 1 .. n
               PROVE  seq[i] \in All!Listed \cup All!Inserting \cup {ListHead, ListTail}
    OBVIOUS
  <2>1. CASE i \in 2 .. n - 1
    BY <1>2, <2>1 DEF All!Listed, All!Inserting
  <2>2. CASE i = 1 \/ i = n
    BY <1>2, <2>2
  <2> QED
    BY <1>2, <2>1, <2>2
<1>4. \A t \in All!Listed : \E i \in 2 .. n - 1 : seq[i] = t
  BY <1>1 DEF Chain, All!Listed
<1>5. n <= C + 1 /\ C \in Nat
  <2>1. IsFiniteSet(All!Element) /\ Cardinality(All!Element) = Cardinality(Tcb) + 2
        /\ Cardinality(Tcb) \in Nat
    <3>1. /\ IsFiniteSet(Tcb \cup {ListHead})
          /\ Cardinality(Tcb \cup {ListHead}) = Cardinality(Tcb) + 1
      BY ListAssumption, FS_AddElement
    <3>2. /\ IsFiniteSet((Tcb \cup {ListHead}) \cup {ListTail})
          /\ Cardinality((Tcb \cup {ListHead}) \cup {ListTail})
               = Cardinality(Tcb \cup {ListHead}) + 1
      BY <3>1, ListAssumption, FS_AddElement
    <3>3. All!Element = (Tcb \cup {ListHead}) \cup {ListTail}
      BY DEF All!Element
    <3>4. Cardinality(Tcb) \in Nat
      BY ListAssumption, FS_CardinalityType
    <3> QED
      BY <3>1, <3>2, <3>3, <3>4
  <2>2. IsFiniteSet(1 .. n) /\ Cardinality(1 .. n) = n
    <3>1. 1 \in Int /\ n \in Int /\ n - 1 + 1 = n /\ ~(1 > n)
      BY <1>2
    <3> HIDE DEF n
    <3> QED
      BY <3>1, FS_Interval
  <2>3. seq \in Injection(1 .. n, All!Element)
    BY <1>1, <1>2 DEF Injection, IsInjective, Chain
  <2>4. n <= Cardinality(All!Element)
    <3> HIDE DEF n
    <3> QED
      BY <2>1, <2>2, <2>3, FS_Injection
  <2> QED
    BY <1>2, <2>1, <2>4
<1>6. All!Passed = {seq[i] : i \in 1 .. n}
  <2> DEFINE walk[m \in 0 .. C] == IF m = 0 THEN ListHead ELSE all_next[walk[m - 1]]
  <2>1. /\ DOMAIN walk = 0 .. C
        /\ \A m \in 0 .. C : walk[m] = IF m < n THEN seq[m + 1] ELSE ListTail
    <3> HIDE DEF C
    <3> QED
      BY <1>1, <1>5, WalkIs DEF AllInv
  <2>2. All!Passed = {walk[m] : m \in DOMAIN walk}
    BY ListCardinality DEF All!Passed
  <2> HIDE DEF walk, C
  <2>3. ASSUME NEW m \in 0 .. C PROVE walk[m] \in {seq[i] : i \in 1 .. n}
    <3>1. CASE m < n
      <4>1. m + 1 \in 1 .. n /\ walk[m] = seq[m + 1]
        BY <1>2, <2>1, <3>1
      <4> QED
        BY <4>1
    <3>2. CASE ~(m < n)
      BY <1>2, <2>1, <3>2
    <3> QED
      BY <3>1, <3>2
  <2>4. ASSUME NEW i \in 1 .. n PROVE seq[i] \in {walk[m] : m \in 0 .. C}
    <3>1. i - 1 \in 0 .. C /\ i - 1 < n /\ (i - 1) + 1 = i
      BY <1>2, <1>5
    <3>2. walk[i - 1] = seq[i]
      BY <2>1, <3>1
    <3> QED
      BY <3>1, <3>2
  <2> QED
    BY <2>1, <2>2, <2>3, <2>4
<1>7. ASSUME NEW t \in All!Listed
      PROVE  /\ all_next[all_prev[t]] = t
             /\ all_prev[all_next[t]] = t \/ (all_next[t] = ListTail /\ All!Inserting # {})
             /\ {all_prev[t], all_next[t]} \cap Tcb \subseteq All!Listed \cup All!Inserting
  <2>1. PICK i \in 2 .. n - 1 : seq[i] = t
    BY <1>4
  <2>2. i - 1 \in 1 .. n - 1 /\ (i - 1) + 1 = i /\ i + 1 \in 1 .. n /\ i \in 1 .. n - 1
    BY <1>2
  <2>3. all_prev[t] = seq[i - 1] /\ all_next[t] = seq[i + 1] /\ all_next[seq[i - 1]] = t
    BY <1>1, <2>1, <2>2 DEF Chain
  <2>4. all_prev[all_next[t]] = t \/ (all_next[t] = ListTail /\ All!Inserting # {})
    <3>1. CASE i + 1 \in 2 .. n - 1
      <4>1. (i + 1) - 1 = i
        BY <2>2
      <4> QED
        BY <1>1, <2>1, <2>3, <3>1, <4>1 DEF Chain
    <3>2. CASE i = n - 1
      <4>1. all_next[t] = ListTail
        BY <1>2, <2>3, <3>2
      <4>2. All!Inserting = {} => all_prev[ListTail] = t
        BY <1>1, <2>1, <3>2 DEF Chain, All!Inserting
      <4> QED
        BY <4>1, <4>2
    <3> QED
      BY <1>2, <2>2, <3>1, <3>2
  <2>5. {seq[i - 1], seq[i + 1]} \cap Tcb \subseteq All!Listed \cup All!Inserting
    <3>1. i - 1 \in 1 .. n
      BY <1>2, <2>2
    <3> QED
      BY <1>3, <2>2, <3>1, ListAssumption
  <2> QED
    BY <2>3, <2>4, <2>5
<1>8. All!Listed \cup {ListHead, ListTail} \subseteq {seq[i] : i \in 1 .. n}
  <2>1. 1 \in 1 .. n /\ n \in 1 .. n /\ \A i \in 2 .. n - 1 : i \in 1 .. n
    BY <1>2
  <2> QED
    BY <1>2, <1>4, <2>1
<1> QED
  BY <1>3, <1>6, <1>7, <1>8

-----------------------------------------------------------------------------
(* Reading and writing a file.                                             *)

(* Two sectors are the same or have no byte in common.                     *)
LEMMA SectorsApart ==
  ASSUME NEW s \in Nat \ {0}, NEW x \in Nat, NEW y \in Nat, NEW b \in Int,
         b \in x - (x % s) .. x + (s - (x % s)) - 1,
         b \in y - (y % s) .. y + (s - (y % s)) - 1
  PROVE  x - (x % s) = y - (y % s)
<1> DEFINE i == x \div s
           j == y \div s
           p == x % s
           q == y % s
<1>1. i \in Int /\ p \in 0 .. s - 1 /\ x = s * i + p
  BY Divided
<1>2. j \in Int /\ q \in 0 .. s - 1 /\ y = s * j + q
  BY Divided
<1>3. b \in x - p .. x + (s - p) - 1 /\ b \in y - q .. y + (s - q) - 1
  OBVIOUS
<1> SUFFICES x - p = y - q
  OBVIOUS
<1> HIDE DEF i, j, p, q
<1>4. s * i \in Int /\ s * j \in Int /\ s * (i - j) \in Int
  BY <1>1, <1>2, Multiple
<1>5. s * (i - j) = s * i - s * j
  BY <1>1, <1>2
<1>6. s * (i - j) < s /\ s * (i - j) > -s
  BY <1>1, <1>2, <1>3, <1>4, <1>5
<1>7. i - j \in Int /\ ~(i - j >= 1) /\ ~(i - j <= -1)
  BY <1>1, <1>2, <1>6, Multiple
<1>8. i = j
  BY <1>1, <1>2, <1>7
<1> QED
  BY <1>1, <1>2, <1>4, <1>8

(* What a byte of the file can be: nobody's, or the thread's that wrote it. *)
DatTypes ==
  /\ dat_data \in [Dat!Byte -> Caller \cup {0}]
  /\ dat_meant \in [Dat!Byte -> Caller \cup {0}]
  /\ dat_pos \in [Caller -> Nat] /\ dat_start \in [Caller -> Nat]
  /\ dat_wanted \in [Caller -> Nat] /\ dat_bytes \in [Caller -> Nat]
  /\ dat_op \in [Caller -> {"none", "read", "write"}]
  /\ dat_at \in [Caller -> {"next", "bounce"}]
  /\ dat_bounce \in [Caller -> [Dat!Byte -> Caller \cup {0}]]
  /\ dat_raced \in BOOLEAN

(* How far a transfer has got.                                             *)
TransferOK(t) ==
  /\ dat_bytes[t] <= dat_wanted[t]
  /\ dat_bytes[t] > 0 => dat_start[t] + dat_bytes[t] <= FileLength
  /\ dat_at[t] = "bounce" => dat_op[t] = "write" /\ ~Dat!WholeSector(t)

(* What a writer has read of a sector is still there.                      *)
BounceOK(t) ==
  dat_at[t] = "bounce" =>
    \A b \in Dat!Byte : b \in Dat!SectorOf(t) => dat_bounce[t][b] = dat_data[b]

DatInv ==
  /\ DatTypes
  /\ \A b \in Dat!Byte : dat_data[b] # 0 => b < FileLength
  /\ \A t \in Caller : TransferOK(t)
  /\ ~dat_raced => dat_data = dat_meant /\ \A t \in Caller : BounceOK(t)

LEMMA DatInit == Dat!Init => DatInv
<1> SUFFICES ASSUME Dat!Init PROVE DatInv
  OBVIOUS
<1>1. DatTypes
  BY DEF Dat!Init, DatTypes, Dat!Nobody
<1>2. \A t \in Caller : TransferOK(t) /\ BounceOK(t)
  BY DEF Dat!Init, TransferOK, BounceOK
<1> QED
  BY <1>1, <1>2 DEF Dat!Init, DatInv, Dat!Nobody

(* The numbers of a round.                                                 *)
LEMMA RoundIs ==
  ASSUME DatInv, NEW t \in Caller
  PROVE  /\ Dat!offset(t) \in Nat /\ Dat!offset(t) = dat_start[t] + dat_bytes[t]
         /\ Dat!sector_ofs(t) \in 0 .. SECTOR_SIZE - 1
         /\ Dat!sector_left(t) = SECTOR_SIZE - Dat!sector_ofs(t)
         /\ Dat!sector_left(t) \in Nat \ {0}
         /\ Dat!chunk_size(t) \in Int
         /\ Dat!chunk_size(t) <= dat_wanted[t] - dat_bytes[t]
         /\ Dat!chunk_size(t) <= FileLength - Dat!offset(t)
         /\ Dat!chunk_size(t) <= Dat!sector_left(t)
         /\ Dat!Goes(t) <=> Dat!chunk_size(t) > 0
         /\ \/ Dat!chunk_size(t) = dat_wanted[t] - dat_bytes[t]
            \/ Dat!chunk_size(t) = FileLength - Dat!offset(t)
            \/ Dat!chunk_size(t) = Dat!sector_left(t)
<1>1. Dat!offset(t) \in Nat /\ Dat!offset(t) = dat_start[t] + dat_bytes[t]
  BY DEF DatInv, DatTypes, Dat!offset
<1>2. Dat!sector_ofs(t) \in 0 .. SECTOR_SIZE - 1
  <2>1. PICK x \in Nat : x = Dat!offset(t)
    BY <1>1
  <2>2. x % SECTOR_SIZE \in 0 .. SECTOR_SIZE - 1
    <3>1. SECTOR_SIZE \in Nat \ {0} /\ x \in Int
      BY DataAssumption
    <3> QED
      BY <3>1, Divided, Zenon
  <2> QED
    BY <2>1, <2>2 DEF Dat!sector_ofs
<1>3. Dat!sector_left(t) = SECTOR_SIZE - Dat!sector_ofs(t) /\ Dat!sector_left(t) \in Nat \ {0}
  BY <1>2, DataAssumption DEF Dat!sector_left
<1>4. /\ Dat!size_left(t) = dat_wanted[t] - dat_bytes[t] /\ Dat!size_left(t) \in Int
      /\ Dat!inode_left(t) = FileLength - Dat!offset(t) /\ Dat!inode_left(t) \in Int
  BY <1>1, DataAssumption DEF DatInv, DatTypes, Dat!size_left, Dat!inode_left
<1> QED
  BY <1>1, <1>2, <1>3, <1>4 DEF Dat!chunk_size, Dat!Minimum, Dat!Goes

(* Only the thread's own variables matter to its round.                    *)
LEMMA SeekStep ==
  ASSUME DatInv, NEW t \in Caller, NEW n \in Nat, Dat!file_seek(t, n)
  PROVE  DatInv'
<1>1. /\ dat_pos' \in [Caller -> Nat]
      /\ UNCHANGED <<dat_data, dat_op, dat_at, dat_start, dat_wanted, dat_bytes,
                     dat_bounce, dat_meant, dat_raced>>
  BY DEF Dat!file_seek, DatInv, DatTypes
<1> QED
  BY <1>1 DEF DatInv, DatTypes, TransferOK, BounceOK, Dat!WholeSector, Dat!SectorOf,
              Dat!sector_ofs, Dat!sector_left, Dat!offset, Dat!chunk_size,
              Dat!size_left, Dat!inode_left

LEMMA OthersKept ==
  ASSUME DatInv, NEW t \in Caller,
         dat_op'[t] = dat_op[t], dat_at'[t] = dat_at[t], dat_start'[t] = dat_start[t],
         dat_wanted'[t] = dat_wanted[t], dat_bytes'[t] = dat_bytes[t]
  PROVE  /\ TransferOK(t)' /\ Dat!SectorOf(t)' = Dat!SectorOf(t)
         /\ dat_bounce'[t] = dat_bounce[t] /\ dat_data' = dat_data =>
              (BounceOK(t) => BounceOK(t)')
<1>1. Dat!offset(t)' = Dat!offset(t) /\ Dat!size_left(t)' = Dat!size_left(t)
  BY DEF Dat!offset, Dat!size_left
<1>2. Dat!sector_ofs(t)' = Dat!sector_ofs(t) /\ Dat!inode_left(t)' = Dat!inode_left(t)
  BY <1>1 DEF Dat!sector_ofs, Dat!inode_left
<1>3. Dat!sector_left(t)' = Dat!sector_left(t)
  BY <1>2 DEF Dat!sector_left
<1>4. Dat!chunk_size(t)' = Dat!chunk_size(t)
  BY <1>1, <1>2, <1>3 DEF Dat!chunk_size
<1>5. Dat!SectorOf(t)' = Dat!SectorOf(t)
  BY <1>1, <1>2, <1>3 DEF Dat!SectorOf
<1>6. Dat!WholeSector(t)' <=> Dat!WholeSector(t)
  BY <1>2, <1>4 DEF Dat!WholeSector
<1>7. TransferOK(t)'
  BY <1>6 DEF DatInv, TransferOK
<1> QED
  BY <1>5, <1>7 DEF BounceOK

(* A step of t that writes nothing leaves DatInv to t's own part of it.    *)
LEMMA QuietStep ==
  ASSUME DatInv, NEW t \in Caller, DatTypes',
         UNCHANGED <<dat_data, dat_meant>>, dat_raced' = dat_raced,
         \A u \in Caller \ {t} :
           /\ dat_op'[u] = dat_op[u] /\ dat_at'[u] = dat_at[u]
           /\ dat_start'[u] = dat_start[u]
           /\ dat_wanted'[u] = dat_wanted[u] /\ dat_bytes'[u] = dat_bytes[u]
           /\ dat_bounce'[u] = dat_bounce[u],
         TransferOK(t)', ~dat_raced => BounceOK(t)'
  PROVE  DatInv'
<1>1. ASSUME NEW u \in Caller, u # t
      PROVE  TransferOK(u)' /\ (BounceOK(u) => BounceOK(u)')
  BY <1>1, OthersKept
<1>2. \A u \in Caller : TransferOK(u)'
  BY <1>1
<1>3. ~dat_raced => \A u \in Caller : BounceOK(u)'
  BY <1>1 DEF DatInv
<1>4. (\A b \in Dat!Byte : dat_data[b] # 0 => b < FileLength)'
  BY DEF DatInv
<1> QED
  BY <1>2, <1>3, <1>4 DEF DatInv

LEMMA BeginStep ==
  ASSUME DatInv, NEW t \in Caller, NEW o \in {"read", "write"}, NEW n \in Nat, Dat!Begin(t, o, n)
  PROVE  DatInv'
<1>1. /\ dat_op' = [dat_op EXCEPT ![t] = o]
      /\ dat_start' = [dat_start EXCEPT ![t] = dat_pos[t]]
      /\ dat_wanted' = [dat_wanted EXCEPT ![t] = n]
      /\ dat_bytes' = [dat_bytes EXCEPT ![t] = 0]
      /\ UNCHANGED <<dat_data, dat_pos, dat_at, dat_bounce, dat_meant,
                     dat_raced>> /\ dat_op[t] = "none"
  BY DEF Dat!Begin
<1>2. DatTypes'
  BY <1>1 DEF DatInv, DatTypes
<1>3. dat_at[t] = "next"
  BY <1>1 DEF DatInv, DatTypes, TransferOK
<1>4. dat_bytes'[t] = 0 /\ dat_wanted'[t] = n /\ dat_at'[t] = "next"
  BY <1>1, <1>3 DEF DatInv, DatTypes
<1>5. TransferOK(t)' /\ BounceOK(t)'
  BY <1>4 DEF TransferOK, BounceOK
<1>6. \A u \in Caller \ {t} :
        /\ dat_op'[u] = dat_op[u] /\ dat_at'[u] = dat_at[u] /\ dat_start'[u] = dat_start[u]
        /\ dat_wanted'[u] = dat_wanted[u] /\ dat_bytes'[u] = dat_bytes[u]
        /\ dat_bounce'[u] = dat_bounce[u]
  BY <1>1 DEF DatInv, DatTypes
<1> QED
  BY <1>1, <1>2, <1>5, <1>6, QuietStep

LEMMA ReadSectorStep ==
  ASSUME DatInv, NEW t \in Caller, Dat!ReadSector(t)
  PROVE  DatInv'
<1>1. /\ dat_bytes' = [dat_bytes EXCEPT ![t] = dat_bytes[t] + Dat!chunk_size(t)]
      /\ UNCHANGED <<dat_data, dat_pos, dat_op, dat_at, dat_start, dat_wanted,
                     dat_bounce, dat_meant, dat_raced>>
      /\ dat_op[t] = "read" /\ Dat!Goes(t)
  BY DEF Dat!ReadSector
<1>2. PICK k \in Nat \ {0} : /\ k = Dat!chunk_size(t) /\ k <= dat_wanted[t] - dat_bytes[t]
                             /\ k <= FileLength - (dat_start[t] + dat_bytes[t])
  BY <1>1, RoundIs
<1>3. dat_bytes' = [dat_bytes EXCEPT ![t] = dat_bytes[t] + k]
      /\ dat_bytes[t] \in Nat /\ dat_wanted[t] \in Nat
      /\ dat_start[t] \in Nat
  BY <1>1, <1>2 DEF DatInv, DatTypes
<1>4. DatTypes'
  BY <1>1, <1>3 DEF DatInv, DatTypes
<1>5. dat_at[t] = "next"
  BY <1>1 DEF DatInv, DatTypes, TransferOK
<1>6. /\ dat_bytes'[t] = dat_bytes[t] + k /\ dat_wanted'[t] = dat_wanted[t]
      /\ dat_at'[t] = "next"
      /\ dat_start'[t] = dat_start[t]
  BY <1>1, <1>3, <1>5 DEF DatInv, DatTypes
<1>7. TransferOK(t)' /\ BounceOK(t)'
  BY <1>2, <1>3, <1>6, DataAssumption DEF TransferOK, BounceOK
<1>8. \A u \in Caller \ {t} : dat_bytes'[u] = dat_bytes[u]
  BY <1>3 DEF DatInv, DatTypes
<1> QED
  BY <1>1, <1>4, <1>7, <1>8, QuietStep

LEMMA ReadBounceStep ==
  ASSUME DatInv, NEW t \in Caller, Dat!ReadBounce(t)
  PROVE  DatInv'
<1> DEFINE f == [b \in Dat!Byte |-> IF b \in Dat!SectorOf(t) THEN dat_data[b] ELSE 0]
<1>1. /\ dat_bounce' = [dat_bounce EXCEPT ![t] = f]
      /\ dat_at' = [dat_at EXCEPT ![t] = "bounce"]
      /\ UNCHANGED <<dat_data, dat_pos, dat_op, dat_start, dat_wanted, dat_bytes,
                     dat_meant, dat_raced>>
      /\ dat_op[t] = "write" /\ Dat!Goes(t) /\ ~Dat!WholeSector(t)
  BY DEF Dat!ReadBounce
<1>2. f \in [Dat!Byte -> Caller \cup {0}]
      /\ \A b \in Dat!Byte : b \in Dat!SectorOf(t) => f[b] = dat_data[b]
  BY DEF DatInv, DatTypes
<1> HIDE DEF f
<1>3. DatTypes' /\ dat_bounce'[t] = f
  BY <1>1, <1>2 DEF DatInv, DatTypes
<1>4. /\ Dat!offset(t)' = Dat!offset(t) /\ Dat!size_left(t)' = Dat!size_left(t)
  BY <1>1 DEF Dat!offset, Dat!size_left
<1>5. Dat!sector_ofs(t)' = Dat!sector_ofs(t) /\ Dat!inode_left(t)' = Dat!inode_left(t)
  BY <1>4 DEF Dat!sector_ofs, Dat!inode_left
<1>6. Dat!sector_left(t)' = Dat!sector_left(t)
  BY <1>5 DEF Dat!sector_left
<1>7. Dat!chunk_size(t)' = Dat!chunk_size(t) /\ Dat!SectorOf(t)' = Dat!SectorOf(t)
  BY <1>4, <1>5, <1>6 DEF Dat!chunk_size, Dat!SectorOf
<1>8. TransferOK(t)'
  BY <1>1, <1>5, <1>7 DEF DatInv, TransferOK, Dat!WholeSector
<1>9. BounceOK(t)'
  BY <1>1, <1>2, <1>3, <1>7 DEF BounceOK
<1>10. \A u \in Caller \ {t} : dat_at'[u] = dat_at[u] /\ dat_bounce'[u] = dat_bounce[u]
  BY <1>1 DEF DatInv, DatTypes
<1> QED
  BY <1>1, <1>3, <1>8, <1>9, <1>10, QuietStep

LEMMA ReturnStep ==
  ASSUME DatInv, NEW t \in Caller, Dat!Return(t)
  PROVE  DatInv'
<1>1. /\ dat_pos' = [dat_pos EXCEPT ![t] = dat_pos[t] + dat_bytes[t]]
      /\ dat_op' = [dat_op EXCEPT ![t] = "none"]
      /\ dat_start' = [dat_start EXCEPT ![t] = 0]
      /\ dat_wanted' = [dat_wanted EXCEPT ![t] = 0]
      /\ dat_bytes' = [dat_bytes EXCEPT ![t] = 0]
      /\ UNCHANGED <<dat_data, dat_at, dat_bounce, dat_meant,
                     dat_raced>> /\ dat_at[t] = "next"
  BY DEF Dat!Return
<1>2. DatTypes'
  BY <1>1 DEF DatInv, DatTypes
<1>3. dat_bytes'[t] = 0 /\ dat_wanted'[t] = 0 /\ dat_at'[t] = "next"
  BY <1>1 DEF DatInv, DatTypes
<1>4. TransferOK(t)' /\ BounceOK(t)'
  BY <1>3 DEF TransferOK, BounceOK
<1>5. \A u \in Caller \ {t} :
        /\ dat_op'[u] = dat_op[u] /\ dat_at'[u] = dat_at[u] /\ dat_start'[u] = dat_start[u]
        /\ dat_wanted'[u] = dat_wanted[u] /\ dat_bytes'[u] = dat_bytes[u]
        /\ dat_bounce'[u] = dat_bounce[u]
  BY <1>1 DEF DatInv, DatTypes
<1> QED
  BY <1>1, <1>2, <1>4, <1>5, QuietStep

LEMMA WriteSectorStep ==
  ASSUME DatInv, ~dat_raced, NEW t \in Caller, Dat!WriteSector(t)
  PROVE  DatInv'
<1>1. /\ dat_op[t] = "write" /\ Dat!Goes(t) /\ (dat_at[t] = "bounce" \/ Dat!WholeSector(t))
      /\ dat_bytes' = [dat_bytes EXCEPT ![t] = dat_bytes[t] + Dat!chunk_size(t)]
      /\ dat_at' = [dat_at EXCEPT ![t] = "next"]
      /\ dat_bounce' = [dat_bounce EXCEPT ![t] = Dat!Nobody]
      /\ UNCHANGED <<dat_pos, dat_op, dat_start, dat_wanted>>
  BY DEF Dat!WriteSector
<1>2. /\ dat_data' = [b \in Dat!Byte |-> CASE b \in Dat!Chunk(t) -> t
                                   [] b \in Dat!SectorOf(t) \ Dat!Chunk(t) -> dat_bounce[t][b]
                                   [] OTHER -> dat_data[b]]
      /\ dat_meant' = [b \in Dat!Byte |-> IF b \in Dat!Chunk(t) THEN t ELSE dat_meant[b]]
      /\ dat_raced' = \E u \in Caller \ {t} :
                      dat_at[u] = "bounce" /\ Dat!SectorOf(u) = Dat!SectorOf(t)
  BY DEF Dat!WriteSector
<1>3. PICK k \in Nat \ {0} : /\ k = Dat!chunk_size(t) /\ k <= dat_wanted[t] - dat_bytes[t]
                             /\ k <= FileLength - (dat_start[t] + dat_bytes[t])
                             /\ k <= Dat!sector_left(t)
  BY <1>1, RoundIs
<1>4. PICK x \in Nat : x = Dat!offset(t) /\ x = dat_start[t] + dat_bytes[t]
  BY RoundIs
<1>5. Dat!Chunk(t) = x .. x + k - 1
  BY <1>3, <1>4 DEF Dat!Chunk
<1>6. \A b \in Dat!Byte : b \in Dat!Chunk(t) => b < FileLength
  <2>1. Dat!Byte \subseteq Int
    BY DEF Dat!Byte
  <2>2. x + k <= FileLength
    BY <1>3, <1>4, DataAssumption
  <2> QED
    BY <1>3, <1>5, <2>1, <2>2, DataAssumption
<1>7. ASSUME NEW b \in Dat!Byte, b \in Dat!SectorOf(t), b \notin Dat!Chunk(t)
      PROVE  dat_bounce[t][b] = dat_data[b]
  <2>1. CASE dat_at[t] = "bounce"
    BY <1>7, <2>1 DEF DatInv, BounceOK
  <2>2. CASE Dat!WholeSector(t)
    <3>1. Dat!sector_ofs(t) = 0 /\ k = SECTOR_SIZE /\ Dat!sector_left(t) = SECTOR_SIZE
      BY <1>3, <2>2, DataAssumption DEF Dat!WholeSector, Dat!sector_left
    <3>2. Dat!SectorOf(t) = x .. x + k - 1
      BY <1>4, <3>1 DEF Dat!SectorOf
    <3> QED
      BY <1>5, <1>7, <3>2
  <2> QED
    BY <1>1, <2>1, <2>2
<1>8. \A b \in Dat!Byte : dat_data'[b] = IF b \in Dat!Chunk(t) THEN t ELSE dat_data[b]
  BY <1>2, <1>7
<1>9. dat_data' = dat_meant'
  <2>1. dat_data = dat_meant
    BY DEF DatInv
  <2>2. dat_data' = [b \in Dat!Byte |-> IF b \in Dat!Chunk(t) THEN t ELSE dat_data[b]]
    BY <1>2, <1>7
  <2> QED
    BY <1>2, <2>1, <2>2
<1>10. \A b \in Dat!Byte : dat_data'[b] # 0 => b < FileLength
  BY <1>6, <1>8 DEF DatInv
<1>11. /\ dat_bytes' = [dat_bytes EXCEPT ![t] = dat_bytes[t] + k]
       /\ dat_bytes[t] \in Nat /\ dat_wanted[t] \in Nat /\ dat_start[t] \in Nat
  BY <1>1, <1>3 DEF DatInv, DatTypes
<1>12. DatTypes'
  <2>1. dat_data' \in [Dat!Byte -> Caller \cup {0}]
    <3>1. \A b \in Dat!Byte : dat_data'[b] \in Caller \cup {0}
      BY <1>8 DEF DatInv, DatTypes
    <3> QED
      BY <1>2, <3>1
  <2>2. dat_bytes' \in [Caller -> Nat]
    BY <1>11 DEF DatInv, DatTypes
  <2>3. dat_raced' \in BOOLEAN /\ dat_at' \in [Caller -> {"next", "bounce"}]
    BY <1>1, <1>2 DEF DatInv, DatTypes
  <2>4. dat_bounce' \in [Caller -> [Dat!Byte -> Caller \cup {0}]]
    BY <1>1 DEF DatInv, DatTypes, Dat!Nobody
  <2> QED
    BY <1>1, <1>9, <2>1, <2>2, <2>3, <2>4 DEF DatInv, DatTypes
<1>13. /\ dat_bytes'[t] = dat_bytes[t] + k /\ dat_wanted'[t] = dat_wanted[t]
       /\ dat_at'[t] = "next"
       /\ dat_start'[t] = dat_start[t]
  BY <1>1, <1>11 DEF DatInv, DatTypes
<1>14. TransferOK(t)' /\ BounceOK(t)'
  BY <1>3, <1>11, <1>13, DataAssumption DEF TransferOK, BounceOK
<1>15. ASSUME NEW u \in Caller, u # t
       PROVE  /\ dat_op'[u] = dat_op[u] /\ dat_at'[u] = dat_at[u] /\ dat_start'[u] = dat_start[u]
              /\ dat_wanted'[u] = dat_wanted[u] /\ dat_bytes'[u] = dat_bytes[u]
              /\ dat_bounce'[u] = dat_bounce[u]
  BY <1>1, <1>11, <1>15 DEF DatInv, DatTypes
<1>16. ASSUME NEW u \in Caller, u # t, ~dat_raced'
       PROVE  BounceOK(u)'
  <2>1. Dat!SectorOf(u)' = Dat!SectorOf(u)
    BY <1>15, <1>16, OthersKept
  <2>2. SUFFICES ASSUME dat_at[u] = "bounce", NEW b \in Dat!Byte, b \in Dat!SectorOf(u)
                 PROVE  dat_bounce[u][b] = dat_data'[b]
    BY <1>15, <1>16, <2>1 DEF BounceOK
  <2>3. dat_bounce[u][b] = dat_data[b]
    BY <2>2 DEF DatInv, BounceOK
  <2>4. Dat!SectorOf(u) # Dat!SectorOf(t)
    BY <1>2, <1>16, <2>2
  <2>5. b \notin Dat!SectorOf(t)
    <3>1. PICK y \in Nat : y = Dat!offset(u)
      BY RoundIs
    <3>2. /\ Dat!SectorOf(t) = x - (x % SECTOR_SIZE) .. x + (SECTOR_SIZE - (x % SECTOR_SIZE)) - 1
          /\ Dat!SectorOf(u) = y - (y % SECTOR_SIZE) .. y + (SECTOR_SIZE - (y % SECTOR_SIZE)) - 1
      BY <1>4, <3>1 DEF Dat!SectorOf, Dat!sector_left, Dat!sector_ofs
    <3>3. ASSUME b \in Dat!SectorOf(t) PROVE FALSE
      <4>1. b \in Int /\ SECTOR_SIZE \in Nat \ {0}
        BY DataAssumption DEF Dat!Byte
      <4>2. x - (x % SECTOR_SIZE) = y - (y % SECTOR_SIZE)
        BY <2>2, <3>2, <3>3, <4>1, SectorsApart
      <4>3. x + (SECTOR_SIZE - (x % SECTOR_SIZE)) - 1 = y + (SECTOR_SIZE - (y % SECTOR_SIZE)) - 1
        <5>1. PICK p \in Int : p = x % SECTOR_SIZE
          BY <4>1, Divided
        <5>2. PICK q \in Int : q = y % SECTOR_SIZE
          BY <4>1, Divided
        <5>3. x - p = y - q
          BY <4>2, <5>1, <5>2
        <5>4. x + (SECTOR_SIZE - p) - 1 = y + (SECTOR_SIZE - q) - 1
          BY <4>1, <5>3
        <5> QED
          BY <5>1, <5>2, <5>4
      <4> QED
        BY <2>4, <3>2, <4>2, <4>3
    <3> QED
      BY <3>3
  <2>6. b \notin Dat!Chunk(t)
    <3>1. Dat!Chunk(t) \subseteq Dat!SectorOf(t)
      <4>1. Dat!SectorOf(t) = x - Dat!sector_ofs(t) .. x + Dat!sector_left(t) - 1
        BY <1>4 DEF Dat!SectorOf
      <4>2. Dat!sector_ofs(t) \in 0 .. SECTOR_SIZE - 1 /\ Dat!sector_left(t) \in Nat \ {0}
        BY RoundIs
      <4> QED
        BY <1>3, <1>5, <4>1, <4>2, DataAssumption
    <3> QED
      BY <2>5, <3>1
  <2> QED
    BY <1>8, <2>3, <2>6
<1>17. \A u \in Caller : TransferOK(u)'
  BY <1>14, <1>15, OthersKept
<1> QED
  BY <1>9, <1>10, <1>12, <1>14, <1>16, <1>17 DEF DatInv

LEMMA DatNext == ASSUME DatInv, Dat!Next PROVE DatInv'
<1>1. ~dat_raced /\ \E t \in Caller :
        \/ \E n \in 0 .. MaxTransfer : Dat!file_seek(t, n)
        \/ \E o \in {"read", "write"}, n \in 0 .. MaxTransfer : Dat!Begin(t, o, n)
        \/ Dat!ReadSector(t) \/ Dat!ReadBounce(t) \/ Dat!WriteSector(t) \/ Dat!Return(t)
  BY DEF Dat!Next
<1>2. 0 .. MaxTransfer \subseteq Nat
  BY DataAssumption
<1> QED
  BY <1>1, <1>2, SeekStep, BeginStep, ReadSectorStep, ReadBounceStep, WriteSectorStep,
     ReturnStep

LEMMA DatStutters == ASSUME DatInv, UNCHANGED Datvars PROVE DatInv'
BY DEF Datvars, DatInv, DatTypes, TransferOK, BounceOK, Dat!WholeSector, Dat!SectorOf,
       Dat!sector_ofs, Dat!sector_left, Dat!offset, Dat!chunk_size, Dat!size_left, Dat!inode_left

(* A transfer that has ended has moved the bytes of the file in its range. *)
LEMMA Transferred ==
  ASSUME NEW s \in Nat, NEW w \in Nat, NEW n \in Nat, n <= w,
         n > 0 => s + n <= FileLength, n = w \/ s + n >= FileLength
  PROVE  n = Cardinality((s .. s + w - 1) \cap (0 .. FileLength - 1))
<1> DEFINE T == (s .. s + w - 1) \cap (0 .. FileLength - 1)
<1>1. FileLength \in Nat
  BY DataAssumption
<1>2. CASE n = 0
  <2>1. T = {}
    BY <1>1, <1>2
  <2> QED
    BY <1>2, <2>1, FS_EmptySet
<1>3. CASE n > 0
  <2>1. T = s .. s + n - 1
    BY <1>1, <1>3
  <2>2. Cardinality(s .. s + n - 1) = n
    <3>1. s \in Int /\ s + n - 1 \in Int /\ s <= s + n - 1 /\ (s + n - 1) - s + 1 = n
      BY <1>3
    <3> QED
      BY <3>1, FS_Interval
  <2> QED
    BY <2>1, <2>2
<1> QED
  BY <1>2, <1>3

LEMMA DataCardinality == \A S : Dat!Cardinality(S) = Cardinality(S)
BY DEF Dat!Cardinality, Cardinality

LEMMA DatSound == ASSUME DatInv PROVE TransfersAreExact
<1>1. ASSUME NEW t \in Caller
      PROVE  /\ \A b \in Dat!Byte : dat_data[b] # 0 => b < FileLength
             /\ dat_bytes[t] <= dat_wanted[t]
             /\ dat_bytes[t] > 0 => Dat!offset(t) <= FileLength
             /\ dat_op[t] # "none" /\ dat_at[t] = "next" /\ ~Dat!Goes(t) =>
                  dat_bytes[t] = Dat!Cardinality((dat_start[t] .. dat_start[t] + dat_wanted[t] - 1)
                                               \cap (0 .. FileLength - 1))
  <2>1. /\ dat_start[t] \in Nat /\ dat_wanted[t] \in Nat /\ dat_bytes[t] \in Nat
        /\ dat_bytes[t] <= dat_wanted[t]
        /\ (dat_bytes[t] > 0 => dat_start[t] + dat_bytes[t] <= FileLength)
    BY DEF DatInv, DatTypes, TransferOK
  <2>2. Dat!offset(t) = dat_start[t] + dat_bytes[t]
    BY RoundIs
  <2>3. ASSUME ~Dat!Goes(t)
        PROVE  dat_bytes[t] = dat_wanted[t] \/ dat_start[t] + dat_bytes[t] >= FileLength
    <3>1. /\ Dat!chunk_size(t) \in Int /\ ~(Dat!chunk_size(t) > 0)
          /\ \/ Dat!chunk_size(t) = dat_wanted[t] - dat_bytes[t]
             \/ Dat!chunk_size(t) = FileLength - Dat!offset(t)
             \/ Dat!chunk_size(t) = Dat!sector_left(t)
          /\ Dat!sector_left(t) \in Nat \ {0}
      BY <2>3, RoundIs
    <3> QED
      BY <2>1, <2>2, <3>1, DataAssumption
  <2> QED
    BY <2>1, <2>2, <2>3, Transferred, DataCardinality DEF DatInv
<1> QED
  BY <1>1 DEF TransfersAreExact, Dat!TransfersAreExact, DatInv

USE ServicesAssumption

-----------------------------------------------------------------------------
(* The interrupt framework: in a handler the interrupt it runs for is in   *)
(* service and nothing else, with the line of the slave if it is of the    *)
(* slave; of a spurious one, at most that line.                            *)

PicInv ==
  /\ interrupts_in_external_intr \in BOOLEAN
  /\ interrupts_enabled \in BOOLEAN
  /\ ~interrupts_in_external_intr => interrupts_in_service = {}
  /\ interrupts_in_external_intr =>
       /\ ~interrupts_enabled
       /\ interrupts_vec_no \in 0 .. 15
       /\ \/ interrupts_in_service = Pic!Lines(interrupts_vec_no)
          \/ interrupts_in_service
               = Pic!Lines(interrupts_vec_no) \ {interrupts_vec_no}

LEMMA MinOfOne ==
  ASSUME NEW x \in Int PROVE Pic!Min({x}) = x
<1>1. \E y \in {x} : \A z \in {x} : y <= z
  OBVIOUS
<1> QED
  BY <1>1 DEF Pic!Min

(* The end of interrupt leaves nothing in service.                         *)
LEMMA EndClears ==
  ASSUME PicInv, interrupts_in_external_intr,
         Pic!pic_end_of_interrupt(interrupts_vec_no)
  PROVE  interrupts_in_service' = {}
<1> DEFINE irq == interrupts_vec_no
           S == interrupts_in_service
<1>1. irq \in 0 .. 15 /\ (S = Pic!Lines(irq) \/ S = Pic!Lines(irq) \ {irq})
  BY DEF PicInv
<1>2. S' = S \ ({l \in Pic!Master : l = Pic!Min(Pic!Master)} \cup
                {s \in Pic!Slave : irq >= 8 /\ s = Pic!Min(Pic!Slave)})
  BY DEF Pic!pic_end_of_interrupt
<1>3. CASE irq < 8
  <2>1. S \subseteq {irq}
    BY <1>1, <1>3 DEF Pic!Lines
  <2>2. Pic!Master = S
    BY <1>1, <1>3, <2>1 DEF Pic!Master
  <2>3. S = {irq} => Pic!Min(S) = irq
    BY <1>1, MinOfOne
  <2> QED
    BY <1>2, <2>1, <2>2, <2>3
<1>4. CASE irq >= 8
  <2>1. S = {2} \/ S = {2, irq}
    BY <1>1, <1>4 DEF Pic!Lines, Pic!Cascade
  <2>2. Pic!Master = {2} /\ Pic!Slave = S \ {2}
    BY <1>1, <1>4, <2>1 DEF Pic!Master, Pic!Slave
  <2>3. Pic!Min({2}) = 2 /\ Pic!Min({irq}) = irq
    BY <1>1, MinOfOne
  <2>4. Pic!Slave = {} \/ Pic!Slave = {irq}
    BY <1>1, <1>4, <2>1, <2>2
  <2> QED
    BY <1>2, <1>4, <2>1, <2>2, <2>3, <2>4
<1> QED
  BY <1>1, <1>3, <1>4

LEMMA PicStep == PicInv /\ Pic!Next => PicInv'
<1> SUFFICES ASSUME PicInv, Pic!Next PROVE PicInv'
  OBVIOUS
<1>1. CASE Pic!EndOfInterrupt
  BY <1>1, EndClears DEF Pic!EndOfInterrupt, PicInv
<1>2. ASSUME NEW irq \in 0 .. 15, Pic!Enter(irq),
             \/ interrupts_in_service' = interrupts_in_service \cup Pic!Lines(irq)
             \/ interrupts_in_service' = interrupts_in_service \cup (Pic!Lines(irq) \ {irq})
      PROVE  PicInv'
  BY <1>2 DEF PicInv, Pic!Enter
<1>3. ASSUME NEW irq \in Irq, Pic!Raise(irq) PROVE PicInv'
  BY <1>3 DEF PicInv, Pic!Raise
<1>4. ASSUME NEW irq \in Irq, Pic!Deliver(irq) PROVE PicInv'
  BY <1>2, <1>4 DEF Pic!Deliver
<1>5. ASSUME NEW irq \in {7, 15}, Pic!Spurious(irq) PROVE PicInv'
  BY <1>2, <1>5 DEF Pic!Spurious
<1>6. CASE Pic!intr_yield_on_return
  BY <1>6 DEF PicInv, Pic!intr_yield_on_return
<1>7. CASE Pic!Return
  BY <1>7 DEF PicInv, Pic!Return
<1>8. CASE Pic!intr_set_level
  BY <1>8 DEF PicInv, Pic!intr_set_level
<1> QED
  BY <1>1, <1>3, <1>4, <1>5, <1>6, <1>7, <1>8 DEF Pic!Next

(* The keyboard: the state that the driver keeps is that of the keys.      *)

KbdInv ==
  /\ keyboard_state = keyboard_down
  /\ keyboard_down \subseteq Kbd!ShiftKey
  /\ keyboard_caps_lock = keyboard_locked
  /\ keyboard_locked \in BOOLEAN
  /\ Kbd!CharactersFollowKeys

LEMMA Keys ==
  /\ Kbd!Letter = 30 /\ Kbd!Digit = 2 /\ Kbd!Delete = 83
  /\ Kbd!CapsLock \notin Kbd!Mapped
  /\ Kbd!ShiftKey \cap (Kbd!Mapped \cup {Kbd!CapsLock}) = {}
BY DEF Kbd!Letter, Kbd!Digit, Kbd!Delete, Kbd!CapsLock, Kbd!Mapped,
       Kbd!ShiftKey, Kbd!Shift, Kbd!Alt, Kbd!Ctrl, Kbd!E0

(* The character of a key, when the shift state is that of the keys.       *)
LEMMA CharacterFollows ==
  ASSUME KbdInv, NEW key \in Kbd!Mapped, keyboard_put' = Kbd!character(key),
         UNCHANGED <<keyboard_down, keyboard_locked>>
  PROVE  Kbd!CharactersFollowKeys'
<1>1. CASE key = Kbd!Delete /\ Kbd!Down(Kbd!Ctrl) /\ Kbd!Down(Kbd!Alt)
  <2>1. keyboard_put' = Kbd!Reboot
    BY <1>1 DEF Kbd!character
  <2>2. Kbd!Reboot.key = -1
    BY DEF Kbd!Reboot
  <2> QED
    BY <1>1, <2>1, <2>2, Keys DEF Kbd!CharactersFollowKeys, KbdInv, Kbd!Down, Kbd!Mapped
<1>2. CASE ~(key = Kbd!Delete /\ Kbd!Down(Kbd!Ctrl) /\ Kbd!Down(Kbd!Alt))
  <2>1. /\ keyboard_put'.key = key
        /\ keyboard_put'.alt = Kbd!Down(Kbd!Alt)
        /\ keyboard_put'.form =
             CASE key = Kbd!Delete -> "delete"
               [] key = Kbd!Digit -> IF Kbd!Down(Kbd!Shift) THEN "symbol" ELSE "digit"
               [] key = Kbd!Letter /\ Kbd!Down(Kbd!Ctrl) -> "control"
               [] OTHER -> IF Kbd!Down(Kbd!Shift) = keyboard_caps_lock
                           THEN "lower" ELSE "upper"
    BY <1>2, Zenon DEF Kbd!character
  <2>2. keyboard_put' # Kbd!Reboot
    <3>1. Kbd!Reboot.key = -1
      BY DEF Kbd!Reboot
    <3> QED
      BY <2>1, <3>1, Keys DEF Kbd!Mapped
  <2>3. CASE key = Kbd!Delete
    BY <2>1, <2>2, <2>3, Keys DEF Kbd!CharactersFollowKeys, KbdInv, Kbd!Down
  <2>4. CASE key = Kbd!Digit
    BY <2>1, <2>2, <2>4, Keys DEF Kbd!CharactersFollowKeys, KbdInv, Kbd!Down
  <2>5. CASE key = Kbd!Letter
    BY <2>1, <2>2, <2>5, Keys DEF Kbd!CharactersFollowKeys, KbdInv, Kbd!Down
  <2> QED
    BY <2>3, <2>4, <2>5 DEF Kbd!Mapped
<1> QED
  BY <1>1, <1>2

LEMMA NothingFollows ==
  ASSUME keyboard_put' = Kbd!Nothing
  PROVE  Kbd!CharactersFollowKeys'
<1>1. Kbd!Nothing.key = 0 /\ Kbd!Reboot.key = -1
  BY DEF Kbd!Nothing, Kbd!Reboot
<1>2. keyboard_put'.key = 0 /\ keyboard_put' # Kbd!Reboot
  BY <1>1
<1> QED
  BY <1>2, Keys DEF Kbd!CharactersFollowKeys, Kbd!Mapped

LEMMA KbdStep == KbdInv /\ Kbd!Next => KbdInv'
<1> SUFFICES ASSUME KbdInv,
                    NEW key \in Kbd!ShiftKey \cup Kbd!Mapped
                                  \cup {Kbd!CapsLock, Kbd!Slash2},
                    Kbd!Press(key) \/ Kbd!Release(key)
             PROVE  KbdInv'
  BY DEF Kbd!Next
<1>1. CASE Kbd!Press(key)
  <2>1. /\ keyboard_down' = keyboard_down \cup ({key} \cap Kbd!ShiftKey)
        /\ keyboard_locked' = IF key = Kbd!CapsLock THEN ~keyboard_locked
                              ELSE keyboard_locked
        /\ keyboard_caps_lock' = IF key = Kbd!CapsLock THEN ~keyboard_caps_lock
                                 ELSE keyboard_caps_lock
        /\ keyboard_put' = IF key \in Kbd!Mapped THEN Kbd!character(key)
                           ELSE Kbd!Nothing
        /\ keyboard_state' = IF key \notin Kbd!ShiftKey THEN keyboard_state
                             ELSE keyboard_state \cup {key}
    BY <1>1, Zenon DEF Kbd!Press, Kbd!keyboard_interrupt, Kbd!code
  <2>2. /\ keyboard_state' = keyboard_down' /\ keyboard_down' \subseteq Kbd!ShiftKey
        /\ keyboard_caps_lock' = keyboard_locked' /\ keyboard_locked' \in BOOLEAN
    BY <2>1 DEF KbdInv
  <2>3. CASE key \in Kbd!Mapped
    <3>1. UNCHANGED <<keyboard_down, keyboard_locked>>
      BY <2>1, <2>3, Keys
    <3> QED
      BY <2>1, <2>2, <2>3, <3>1, CharacterFollows DEF KbdInv
  <2>4. CASE key \notin Kbd!Mapped
    BY <2>1, <2>2, <2>4, NothingFollows DEF KbdInv
  <2> QED
    BY <2>3, <2>4
<1>2. CASE Kbd!Release(key)
  <2>1. /\ keyboard_down' = keyboard_down \ {key}
        /\ UNCHANGED <<keyboard_locked, keyboard_caps_lock>>
        /\ keyboard_put' = Kbd!Nothing
        /\ keyboard_state' = IF key \notin Kbd!ShiftKey THEN keyboard_state
                             ELSE keyboard_state \ {key}
    BY <1>2, Zenon DEF Kbd!Release, Kbd!keyboard_interrupt, Kbd!code
  <2> QED
    BY <2>1, NothingFollows DEF KbdInv
<1> QED
  BY <1>1, <1>2

-----------------------------------------------------------------------------
(* Address spaces.  Every page that is not free is the page directory of   *)
(* one thread, or one frame that one user page of one thread is mapped to. *)
(* dir gives the directory of each thread, NULL if it has none.            *)

Mapping == [Vpage -> UserPage \cup {NULL}]

OwnPages(dir, table, free) ==
  /\ dir \in [Caller -> UserPage \cup {NULL}]
  /\ table \in [UserPage -> Mapping \cup {NULL}]
  /\ free \subseteq UserPage
  /\ \A t \in Caller : dir[t] # NULL => table[dir[t]] # NULL /\ dir[t] \notin free
  /\ \A t, u \in Caller : dir[t] # NULL /\ dir[t] = dir[u] => t = u
  /\ \A t, u \in Caller, v \in Vpage :
       dir[t] # NULL /\ dir[u] # NULL => table[dir[t]][v] # dir[u]
  /\ \A t, u \in Caller, v, w \in Vpage :
       /\ dir[t] # NULL /\ dir[u] # NULL
       /\ table[dir[t]][v] # NULL /\ table[dir[t]][v] = table[dir[u]][w]
       => t = u /\ v = w
  /\ \A t \in Caller, v \in Vpage : dir[t] # NULL => table[dir[t]][v] \notin free
  /\ \A p \in UserPage \ free : \E t \in Caller :
       dir[t] # NULL /\ (p = dir[t] \/ \E v \in Vpage : p = table[dir[t]][v])

LEMMA OwnedOnce ==
  ASSUME NEW dir, NEW table, NEW free, OwnPages(dir, table, free),
         NEW t \in Caller, NEW u \in Caller, NEW v \in Vpage, NEW w \in Vpage,
         dir[t] # NULL, dir[u] # NULL, table[dir[t]][v] # NULL,
         table[dir[t]][v] = table[dir[u]][w]
  PROVE  t = u /\ v = w
BY DEF OwnPages

(* pagedir_create(), install_page(), and the two parts of                  *)
(* pagedir_destroy().                                                      *)
LEMMA OwnCreate ==
  ASSUME NEW dir, NEW table, NEW free, OwnPages(dir, table, free),
         NEW t \in Caller, dir[t] = NULL, NEW p \in free
  PROVE  OwnPages([dir EXCEPT ![t] = p],
                  [table EXCEPT ![p] = [v \in Vpage |-> NULL]], free \ {p})
<1> DEFINE d == [dir EXCEPT ![t] = p]
           tab == [table EXCEPT ![p] = [v \in Vpage |-> NULL]]
           f == free \ {p}
<1>1. /\ d \in [Caller -> UserPage \cup {NULL}] /\ f \subseteq UserPage
      /\ p \in UserPage /\ p # NULL
  BY DEF OwnPages
<1>2. tab \in [UserPage -> Mapping \cup {NULL}] /\ tab[p] = [v \in Vpage |-> NULL]
  BY DEF OwnPages, Mapping
<1>3. /\ d[t] = p /\ \A u \in Caller \ {t} : d[u] = dir[u]
      /\ \A q \in UserPage \ {p} : tab[q] = table[q]
      /\ \A v \in Vpage : tab[p][v] = NULL
      /\ tab[p] # NULL
  <2>1. [v \in Vpage |-> NULL] # NULL
    <3>1. [v \in Vpage |-> NULL] \in [Vpage -> UserPage \cup {NULL}]
      OBVIOUS
    <3> QED
      BY <3>1
  <2> QED
    BY <1>2, <2>1 DEF OwnPages
<1> HIDE DEF d, tab
<1>4. \A u \in Caller : d[u] # NULL => tab[d[u]] # NULL /\ d[u] \notin f
  BY <1>1, <1>3 DEF OwnPages
<1>5. \A u, x \in Caller : d[u] # NULL /\ d[u] = d[x] => u = x
  BY <1>1, <1>3 DEF OwnPages
<1>6. \A u \in Caller \ {t} : dir[u] # NULL => dir[u] \in UserPage \ {p}
  BY DEF OwnPages
<1>7. \A u \in Caller \ {t}, v \in Vpage : dir[u] # NULL => table[dir[u]][v] # p
  BY DEF OwnPages
<1>8. \A u, x \in Caller, v \in Vpage :
        d[u] # NULL /\ d[x] # NULL => tab[d[u]][v] # d[x]
  BY <1>1, <1>3, <1>6, <1>7 DEF OwnPages
<1>9. \A u, x \in Caller, v, w \in Vpage :
        /\ d[u] # NULL /\ d[x] # NULL
        /\ tab[d[u]][v] # NULL /\ tab[d[u]][v] = tab[d[x]][w]
        => u = x /\ v = w
  BY <1>1, <1>3, <1>6 DEF OwnPages
<1>10. \A u \in Caller, v \in Vpage : d[u] # NULL => tab[d[u]][v] \notin f
  BY <1>1, <1>3, <1>6 DEF OwnPages
<1>11. ASSUME NEW q \in UserPage \ f
       PROVE  \E u \in Caller :
                d[u] # NULL /\ (q = d[u] \/ \E v \in Vpage : q = tab[d[u]][v])
  <2>1. CASE q = p
    BY <2>1, <1>1, <1>3
  <2>2. CASE q # p
    <3>1. PICK u \in Caller :
            dir[u] # NULL /\ (q = dir[u] \/ \E v \in Vpage : q = table[dir[u]][v])
      BY <2>2 DEF OwnPages
    <3>2. u # t
      BY <3>1
    <3> QED
      BY <3>1, <3>2, <1>3, <1>6
  <2> QED
    BY <2>1, <2>2
<1> QED
  BY <1>1, <1>2, <1>4, <1>5, <1>8, <1>9, <1>10, <1>11 DEF OwnPages, d, tab

(* A user page is mapped to a free frame, or its frame is freed.           *)
LEMMA OwnRemap ==
  ASSUME NEW dir, NEW table, NEW free, OwnPages(dir, table, free),
         NEW t \in Caller, dir[t] # NULL, NEW v \in Vpage,
         NEW f, NEW e,
         \/ table[dir[t]][v] = NULL /\ e \in free /\ f = free \ {e}
         \/ table[dir[t]][v] # NULL /\ e = NULL /\ f = free \cup {table[dir[t]][v]}
  PROVE  OwnPages(dir, [table EXCEPT ![dir[t]][v] = e], f)
<1> DEFINE tab == [table EXCEPT ![dir[t]][v] = e]
           p == dir[t]
<1>1. /\ p \in UserPage /\ table[p] \in Mapping /\ table[p][v] \in UserPage \cup {NULL}
      /\ NULL \notin UserPage
  BY DEF OwnPages, Mapping
<1>2. e \in UserPage \cup {NULL} /\ f \subseteq UserPage /\ f \cap {p} = {}
  BY <1>1 DEF OwnPages
<1>3. /\ tab \in [UserPage -> Mapping \cup {NULL}]
      /\ \A q \in UserPage \ {p} : tab[q] = table[q]
      /\ \A w \in Vpage \ {v} : tab[p][w] = table[p][w]
      /\ tab[p][v] = e
      /\ tab[p] \in Mapping
  <2>1. tab = [table EXCEPT ![p] = [table[p] EXCEPT ![v] = e]]
    OBVIOUS
  <2>2. [table[p] EXCEPT ![v] = e] \in Mapping
    BY <1>1, <1>2 DEF Mapping
  <2>3. tab[p] = [table[p] EXCEPT ![v] = e]
    BY <1>1, <2>1 DEF OwnPages
  <2> QED
    BY <1>1, <1>2, <2>1, <2>2, <2>3 DEF OwnPages, Mapping
<1>4. tab[p] # NULL
  BY <1>3 DEF Mapping
<1> HIDE DEF tab
<1>5. \A u \in Caller \ {t} : dir[u] # NULL => dir[u] \in UserPage \ {p}
  BY <1>1 DEF OwnPages
<1>6. \A u \in Caller : dir[u] # NULL => tab[dir[u]] # NULL /\ dir[u] \notin f
  <2>1. \A u \in Caller : dir[u] # NULL => dir[u] # table[p][v]
    BY DEF OwnPages
  <2> QED
    BY <1>1, <1>2, <1>3, <1>4, <1>5, <2>1 DEF OwnPages
<1>7. \A u \in Caller, w \in Vpage :
        dir[u] # NULL /\ (u # t \/ w # v) => tab[dir[u]][w] = table[dir[u]][w]
  BY <1>3, <1>5
<1>8. \A u \in Caller : e # NULL => dir[u] # e
  BY <1>1 DEF OwnPages
<1>9. \A u \in Caller, w \in Vpage : e # NULL /\ dir[u] # NULL => table[dir[u]][w] # e
  BY <1>1 DEF OwnPages
<1>10. \A u, x \in Caller, w \in Vpage :
        dir[u] # NULL /\ dir[x] # NULL => tab[dir[u]][w] # dir[x]
  <2> SUFFICES ASSUME NEW u \in Caller, NEW x \in Caller, NEW w \in Vpage,
                      dir[u] # NULL, dir[x] # NULL
               PROVE  tab[dir[u]][w] # dir[x]
    OBVIOUS
  <2>1. CASE u = t /\ w = v
    BY <1>3, <1>8, <2>1
  <2>2. CASE ~(u = t /\ w = v)
    <3>1. tab[dir[u]][w] = table[dir[u]][w]
      BY <1>7, <2>2
    <3>2. table[dir[u]][w] # dir[x]
      BY DEF OwnPages
    <3> QED
      BY <3>1, <3>2
  <2> QED
    BY <2>1, <2>2
<1>11. \A u, x \in Caller, w, y \in Vpage :
         /\ dir[u] # NULL /\ dir[x] # NULL
         /\ tab[dir[u]][w] # NULL /\ tab[dir[u]][w] = tab[dir[x]][y]
         => u = x /\ w = y
  <2> SUFFICES ASSUME NEW u \in Caller, NEW x \in Caller,
                      NEW w \in Vpage, NEW y \in Vpage,
                      dir[u] # NULL, dir[x] # NULL,
                      tab[dir[u]][w] # NULL, tab[dir[u]][w] = tab[dir[x]][y]
               PROVE  u = x /\ w = y
    OBVIOUS
  <2>1. CASE u = t /\ w = v
    BY <1>3, <1>7, <1>9, <2>1
  <2>2. CASE x = t /\ y = v
    BY <1>3, <1>7, <1>9, <2>2
  <2>3. CASE ~(u = t /\ w = v) /\ ~(x = t /\ y = v)
    <3>1. tab[dir[u]][w] = table[dir[u]][w] /\ tab[dir[x]][y] = table[dir[x]][y]
      BY <1>3, <1>7, <2>3
    <3>2. table[dir[u]][w] # NULL
      BY <3>1
    <3>3. table[dir[u]][w] = table[dir[x]][y]
      BY <3>1
    <3> HIDE <3>1
    <3> QED
      BY <3>2, <3>3, OwnedOnce
  <2> QED
    BY <2>1, <2>2, <2>3
<1>12. ASSUME NEW u \in Caller, NEW w \in Vpage, dir[u] # NULL
       PROVE  tab[dir[u]][w] \notin f
  <2>1. table[dir[u]][w] \notin free
    BY <1>12 DEF OwnPages
  <2>2. ~(u = t /\ w = v) /\ table[p][v] # NULL => table[dir[u]][w] # table[p][v]
    BY <1>12 DEF OwnPages
  <2> QED
    BY <1>1, <1>2, <1>3, <1>7, <1>12, <2>1, <2>2
<1>13. ASSUME NEW q \in UserPage \ f
       PROVE  \E u \in Caller :
                dir[u] # NULL /\ (q = dir[u] \/ \E w \in Vpage : q = tab[dir[u]][w])
  <2>1. CASE q = e
    BY <2>1, <1>3
  <2>2. CASE q # e
    <3>1. q \in UserPage \ free /\ q # table[p][v]
      BY <2>2, <1>1
    <3>2. PICK u \in Caller :
            dir[u] # NULL /\ (q = dir[u] \/ \E w \in Vpage : q = table[dir[u]][w])
      BY <3>1 DEF OwnPages
    <3> QED
      BY <3>1, <3>2, <1>3, <1>7
  <2> QED
    BY <2>1, <2>2
<1> QED
  BY <1>2, <1>3, <1>6, <1>10, <1>11, <1>12, <1>13 DEF OwnPages, tab

(* A directory without frames is freed.                                    *)
LEMMA OwnDestroy ==
  ASSUME NEW dir, NEW table, NEW free, OwnPages(dir, table, free),
         NEW t \in Caller, dir[t] # NULL,
         \A v \in Vpage : table[dir[t]][v] = NULL
  PROVE  OwnPages([dir EXCEPT ![t] = NULL],
                  [table EXCEPT ![dir[t]] = NULL], free \cup {dir[t]})
<1> DEFINE d == [dir EXCEPT ![t] = NULL]
           tab == [table EXCEPT ![dir[t]] = NULL]
           p == dir[t]
           f == free \cup {p}
<1>1. /\ d \in [Caller -> UserPage \cup {NULL}] /\ f \subseteq UserPage
      /\ tab \in [UserPage -> Mapping \cup {NULL}]
      /\ p \in UserPage /\ NULL \notin UserPage
  BY DEF OwnPages
<1>2. /\ d[t] = NULL /\ \A u \in Caller \ {t} : d[u] = dir[u]
      /\ \A q \in UserPage \ {p} : tab[q] = table[q]
  BY <1>1 DEF OwnPages
<1>3. \A u \in Caller \ {t} : dir[u] # NULL => dir[u] \in UserPage \ {p}
  BY <1>1 DEF OwnPages
<1> HIDE DEF d, tab
<1>4. \A u \in Caller : d[u] # NULL =>
        /\ u # t /\ d[u] = dir[u] /\ dir[u] # NULL /\ dir[u] # p
        /\ tab[d[u]] = table[dir[u]]
  BY <1>1, <1>2, <1>3
<1>5. \A u \in Caller : d[u] # NULL => tab[d[u]] # NULL /\ d[u] \notin f
  BY <1>4 DEF OwnPages
<1>6. \A u, x \in Caller : d[u] # NULL /\ d[u] = d[x] => u = x
  BY <1>4 DEF OwnPages
<1>7. \A u, x \in Caller, v \in Vpage :
        d[u] # NULL /\ d[x] # NULL => tab[d[u]][v] # d[x]
  BY <1>4 DEF OwnPages
<1>8. \A u, x \in Caller, v, w \in Vpage :
        /\ d[u] # NULL /\ d[x] # NULL
        /\ tab[d[u]][v] # NULL /\ tab[d[u]][v] = tab[d[x]][w]
        => u = x /\ v = w
  BY <1>4 DEF OwnPages
<1>9. \A u \in Caller, v \in Vpage : d[u] # NULL => tab[d[u]][v] \notin f
  BY <1>4 DEF OwnPages
<1>10. ASSUME NEW q \in UserPage \ f
       PROVE  \E u \in Caller :
                d[u] # NULL /\ (q = d[u] \/ \E v \in Vpage : q = tab[d[u]][v])
  <2>1. PICK u \in Caller :
          dir[u] # NULL /\ (q = dir[u] \/ \E v \in Vpage : q = table[dir[u]][v])
    BY <1>10 DEF OwnPages
  <2>2. u # t
    BY <2>1, <1>1
  <2> QED
    BY <2>1, <2>2, <1>2, <1>3
<1> QED
  BY <1>1, <1>5, <1>6, <1>3, <1>7, <1>8, <1>9, <1>10 DEF OwnPages, d, tab

Dirs ==
  [t \in Caller |-> IF pageDir_pagedir[t] # NULL THEN pageDir_pagedir[t]
                    ELSE pageDir_pd[t]]

(* Which of the two variables names the page directory of t.               *)
PhaseOK ==
  \A t \in Caller :
    /\ pageDir_at[t] = "kernel" => pageDir_pagedir[t] = NULL /\ pageDir_pd[t] = NULL
    /\ pageDir_at[t] \in {"created", "load", "user"} =>
         pageDir_pagedir[t] # NULL /\ pageDir_pd[t] = NULL
    /\ pageDir_at[t] \in {"cleared", "destroy"} =>
         pageDir_pagedir[t] = NULL /\ pageDir_pd[t] # NULL

(* The processor uses the directory of the running thread or Base, and     *)
(* Base once the thread destroys it.                                       *)
ProcessorOK ==
  LET t == pageDir_running IN
  /\ pageDir_cr3 # Base =>
       /\ pageDir_at[t] \in {"created", "load", "user", "cleared"}
       /\ Dirs[t] # NULL /\ pageDir_cr3 = Dirs[t]
  /\ pageDir_at[t] \in {"load", "user"} =>
       pageDir_cr3 = pageDir_pagedir[t] /\ pageDir_esp0 = t
  /\ \A e \in pageDir_tlb :
       /\ pageDir_cr3 # Base /\ e[1] \in Vpage
       /\ e[2] # NULL /\ pageDir_table[pageDir_cr3][e[1]] = e[2]

DirTypes ==
  /\ pageDir_running \in Caller
  /\ pageDir_at \in [Caller -> Dir!At]
  /\ pageDir_pagedir \in [Caller -> UserPage \cup {NULL}]
  /\ pageDir_pd \in [Caller -> UserPage \cup {NULL}]

DirInv ==
  /\ DirTypes /\ PhaseOK /\ ProcessorOK
  /\ OwnPages(Dirs, pageDir_table, pageDir_free)

LEMMA DirInit == Dir!Init => DirInv
<1> SUFFICES ASSUME Dir!Init PROVE DirInv
  OBVIOUS
<1>1. pageDir_running \in Caller
  BY DEF Dir!Init
<1>2. Dirs = [t \in Caller |-> NULL]
  BY DEF Dir!Init, Dirs
<1>3. OwnPages(Dirs, pageDir_table, pageDir_free)
  BY <1>2 DEF Dir!Init, OwnPages
<1> QED
  BY <1>1, <1>3 DEF Dir!Init, DirInv, DirTypes, PhaseOK, ProcessorOK, Dir!At

(* What a thread that has a directory owns.                                *)
LEMMA Owned ==
  ASSUME DirInv, NEW t \in Caller, Dirs[t] # NULL
  PROVE  /\ Dirs[t] \in UserPage /\ Dirs[t] # Base
         /\ Dirs[t] \notin pageDir_free
         /\ pageDir_table[Dirs[t]] \in Mapping
         /\ pageDir_table[Dirs[t]] # NULL
         /\ \A v \in Vpage : pageDir_table[Dirs[t]][v] \notin pageDir_free
BY DEF DirInv, OwnPages

LEMMA CreateStep ==
  ASSUME DirInv, NEW t \in Caller, Dir!Create(t)
  PROVE  DirInv'
<1>1. PICK p \in pageDir_free :
        /\ pageDir_free' = pageDir_free \ {p}
        /\ pageDir_table' = [pageDir_table EXCEPT ![p] = [v \in Vpage |-> NULL]]
        /\ pageDir_pagedir' = [pageDir_pagedir EXCEPT ![t] = p]
  BY DEF Dir!Create
<1>2. /\ pageDir_running = t /\ pageDir_at[t] = "kernel"
      /\ pageDir_at' = [pageDir_at EXCEPT ![t] = "created"]
      /\ UNCHANGED <<pageDir_running, pageDir_pd, pageDir_cr3, pageDir_tlb, pageDir_esp0>>
  BY DEF Dir!Create
<1>3. p \in UserPage /\ Dirs[t] = NULL
  BY <1>2 DEF DirInv, OwnPages, PhaseOK, Dirs
<1>4. Dirs' = [Dirs EXCEPT ![t] = p]
  BY <1>1, <1>2, <1>3 DEF DirInv, DirTypes, Dirs
<1>5. OwnPages(Dirs, pageDir_table, pageDir_free)'
  <2>1. OwnPages([Dirs EXCEPT ![t] = p], pageDir_table', pageDir_free')
    BY <1>1, <1>3, OwnCreate DEF DirInv
  <2> QED
    BY <1>4, <2>1 DEF OwnPages, Mapping
<1>6. DirTypes' /\ PhaseOK'
  BY <1>1, <1>2, <1>3 DEF DirInv, DirTypes, PhaseOK, Dir!At
<1>7. pageDir_cr3 = Base /\ pageDir_tlb = {}
  BY <1>2 DEF DirInv, ProcessorOK
<1>8. ProcessorOK'
  BY <1>2, <1>7 DEF DirInv, DirTypes, ProcessorOK
<1> QED
  BY <1>5, <1>6, <1>8 DEF DirInv

(* process_activate(): in load(), and for the thread switched to.          *)
LEMMA ActivateStep ==
  ASSUME DirInv, NEW t \in Caller, Dir!Activate(t) \/ Dir!Switch(t)
  PROVE  DirInv'
<1>1. /\ pageDir_running' = t /\ pageDir_tlb' = {} /\ pageDir_esp0' = t
      /\ pageDir_cr3' = IF pageDir_pagedir[t] = NULL THEN Base ELSE pageDir_pagedir[t]
      /\ \/ pageDir_at' = pageDir_at
         \/ pageDir_at[t] = "created" /\ pageDir_at' = [pageDir_at EXCEPT ![t] = "load"]
      /\ UNCHANGED <<pageDir_pagedir, pageDir_pd, pageDir_table, pageDir_free>>
  BY DEF Dir!Activate, Dir!Switch, Dir!pagedir_activate
<1>2. Dirs' = Dirs
  BY <1>1 DEF Dirs
<1>3. OwnPages(Dirs, pageDir_table, pageDir_free)'
  BY <1>1, <1>2 DEF DirInv, OwnPages, Mapping
<1>4. DirTypes' /\ PhaseOK'
  BY <1>1 DEF DirInv, DirTypes, PhaseOK, Dir!At
<1>5. ProcessorOK'
  <2>1. pageDir_pagedir[t] # NULL => Dirs[t] = pageDir_pagedir[t]
    BY DEF Dirs
  <2>2. pageDir_pagedir[t] # NULL =>
          pageDir_at'[t] \in {"created", "load", "user"}
    BY <1>1 DEF DirInv, DirTypes, PhaseOK, Dir!At
  <2>3. pageDir_at'[t] \in {"load", "user"} => pageDir_pagedir[t] # NULL
    BY <1>1 DEF DirInv, DirTypes, PhaseOK, Dir!At
  <2> QED
    BY <1>1, <1>2, <2>1, <2>2, <2>3 DEF ProcessorOK
<1> QED
  BY <1>3, <1>4, <1>5 DEF DirInv

LEMMA InstallStep ==
  ASSUME DirInv, NEW t \in Caller, Dir!Install(t)
  PROVE  DirInv'
<1>1. PICK v \in Vpage, f \in pageDir_free :
        /\ pageDir_table[pageDir_pagedir[t]][v] = NULL
        /\ pageDir_table' = [pageDir_table EXCEPT ![pageDir_pagedir[t]][v] = f]
        /\ pageDir_free' = pageDir_free \ {f}
  BY DEF Dir!Install
<1>2. /\ pageDir_running = t /\ pageDir_at[t] = "load"
      /\ UNCHANGED <<pageDir_running, pageDir_at, pageDir_pagedir, pageDir_pd,
                     pageDir_cr3, pageDir_tlb, pageDir_esp0>>
  BY DEF Dir!Install
<1>3. Dirs[t] = pageDir_pagedir[t] /\ Dirs[t] # NULL /\ Dirs' = Dirs
  BY <1>2 DEF DirInv, PhaseOK, Dirs
<1>4. OwnPages(Dirs, pageDir_table, pageDir_free)'
  <2>1. OwnPages(Dirs, [pageDir_table EXCEPT ![Dirs[t]][v] = f], pageDir_free')
    BY <1>1, <1>3, OwnRemap DEF DirInv
  <2> QED
    BY SMTT(30), <1>1, <1>3, <2>1 DEF OwnPages, Mapping
<1>5. DirTypes' /\ PhaseOK'
  BY <1>2 DEF DirInv, DirTypes, PhaseOK, Dir!At
<1>6. ASSUME NEW e \in pageDir_tlb
      PROVE  pageDir_table'[pageDir_cr3][e[1]] = e[2]
  <2>1. /\ e[1] \in Vpage /\ e[2] # NULL /\ pageDir_cr3 = Dirs[t]
        /\ pageDir_table[pageDir_cr3][e[1]] = e[2]
    BY <1>2 DEF DirInv, ProcessorOK
  <2>2. e[1] # v
    BY <1>1, <1>3, <2>1
  <2>3. pageDir_table \in [UserPage -> Mapping \cup {NULL}]
    BY DEF DirInv, OwnPages
  <2> QED
    BY <1>1, <1>3, <2>1, <2>2, <2>3, Owned DEF Mapping
<1>7. ProcessorOK'
  BY <1>2, <1>3, <1>6 DEF DirInv, ProcessorOK
<1> QED
  BY <1>4, <1>5, <1>7 DEF DirInv

LEMMA AccessStep ==
  ASSUME DirInv, NEW t \in Caller, Dir!Access(t)
  PROVE  DirInv'
<1>1. PICK v \in Vpage :
        /\ pageDir_table[pageDir_cr3][v] # NULL
        /\ pageDir_tlb' = pageDir_tlb \cup {<<v, pageDir_table[pageDir_cr3][v]>>}
  BY DEF Dir!Access
<1>2. /\ pageDir_cr3 # Base
      /\ UNCHANGED <<pageDir_running, pageDir_at, pageDir_pagedir, pageDir_pd,
                     pageDir_table, pageDir_free, pageDir_cr3, pageDir_esp0>>
  BY DEF Dir!Access
<1>3. Dirs' = Dirs
  BY <1>2 DEF Dirs
<1>4. ProcessorOK'
  BY <1>1, <1>2, <1>3 DEF DirInv, ProcessorOK
<1> QED
  BY <1>2, <1>3, <1>4 DEF DirInv, DirTypes, PhaseOK, OwnPages, Mapping, Dir!At

(* process_exit() up to pagedir_destroy(), and the start of user code.     *)
LEMMA ExitStep ==
  ASSUME DirInv, NEW t \in Caller,
         Dir!EnterUser(t) \/ Dir!Exit(t) \/ Dir!ExitActivate(t)
  PROVE  DirInv'
<1>1. /\ pageDir_running = t
      /\ UNCHANGED <<pageDir_running, pageDir_table, pageDir_free, pageDir_esp0>>
  BY DEF Dir!EnterUser, Dir!Exit, Dir!ExitActivate
<1>2. Dirs' = Dirs /\ DirTypes' /\ PhaseOK'
  <2>1. CASE Dir!Exit(t)
    BY <2>1 DEF Dir!Exit, DirInv, DirTypes, PhaseOK, Dirs, Dir!At
  <2>2. CASE Dir!EnterUser(t) \/ Dir!ExitActivate(t)
    BY <2>2 DEF Dir!EnterUser, Dir!ExitActivate, DirInv, DirTypes, PhaseOK, Dirs, Dir!At
  <2> QED
    BY <2>1, <2>2
<1>3. OwnPages(Dirs, pageDir_table, pageDir_free)'
  BY <1>1, <1>2 DEF DirInv, OwnPages, Mapping
<1>4. ProcessorOK'
  <2>1. CASE Dir!EnterUser(t)
    BY <2>1, <1>2 DEF Dir!EnterUser, DirInv, DirTypes, ProcessorOK
  <2>2. CASE Dir!Exit(t)
    BY <2>2, <1>2 DEF Dir!Exit, DirInv, DirTypes, ProcessorOK
  <2>3. CASE Dir!ExitActivate(t)
    BY <2>3, <1>2 DEF Dir!ExitActivate, Dir!pagedir_activate, DirInv, DirTypes, ProcessorOK
  <2> QED
    BY <2>1, <2>2, <2>3
<1> QED
  BY <1>2, <1>3, <1>4 DEF DirInv

LEMMA DestroyStep ==
  ASSUME DirInv, NEW t \in Caller, Dir!DestroyFrame(t) \/ Dir!Destroy(t)
  PROVE  DirInv'
<1>1. /\ pageDir_running = t /\ pageDir_at[t] = "destroy"
      /\ UNCHANGED <<pageDir_running, pageDir_pagedir, pageDir_cr3, pageDir_tlb, pageDir_esp0>>
  BY DEF Dir!DestroyFrame, Dir!Destroy
<1>2. /\ Dirs[t] = pageDir_pd[t] /\ Dirs[t] # NULL
      /\ pageDir_pagedir[t] = NULL
  BY <1>1 DEF DirInv, PhaseOK, Dirs
<1>3. pageDir_cr3 = Base /\ pageDir_tlb = {}
  BY <1>1 DEF DirInv, ProcessorOK
<1>4. CASE Dir!DestroyFrame(t)
  <2>1. PICK v \in Vpage :
          /\ pageDir_table[pageDir_pd[t]][v] # NULL
          /\ pageDir_free' = pageDir_free \cup {pageDir_table[pageDir_pd[t]][v]}
          /\ pageDir_table' = [pageDir_table EXCEPT ![pageDir_pd[t]][v] = NULL]
    BY <1>4 DEF Dir!DestroyFrame
  <2>2. UNCHANGED <<pageDir_at, pageDir_pd>> /\ Dirs' = Dirs
    BY <1>1, <1>4 DEF Dir!DestroyFrame, Dirs
  <2>3. OwnPages(Dirs, [pageDir_table EXCEPT ![Dirs[t]][v] = NULL], pageDir_free')
    BY <1>2, <2>1, OwnRemap DEF DirInv
  <2>4. OwnPages(Dirs, pageDir_table, pageDir_free)'
    BY SMTT(30), <1>2, <2>1, <2>2, <2>3 DEF OwnPages, Mapping
  <2>5. DirTypes' /\ PhaseOK' /\ ProcessorOK'
    BY <1>1, <1>3, <2>2 DEF DirInv, DirTypes, PhaseOK, ProcessorOK, Dir!At
  <2> QED
    BY <2>4, <2>5 DEF DirInv
<1>5. CASE Dir!Destroy(t)
  <2>1. /\ pageDir_free' = pageDir_free \cup {Dirs[t]}
        /\ pageDir_table' = [pageDir_table EXCEPT ![Dirs[t]] = NULL]
        /\ pageDir_pd' = [pageDir_pd EXCEPT ![t] = NULL]
        /\ pageDir_at' = [pageDir_at EXCEPT ![t] = "kernel"]
        /\ Dir!Frames(Dirs[t]) = {}
    BY <1>2, <1>5 DEF Dir!Destroy
  <2>2. Dirs' = [Dirs EXCEPT ![t] = NULL]
    BY <1>1, <1>2, <2>1 DEF DirInv, DirTypes, Dirs
  <2>3. \A v \in Vpage : pageDir_table[Dirs[t]][v] = NULL
    BY <2>1 DEF Dir!Frames
  <2>4. OwnPages([Dirs EXCEPT ![t] = NULL], pageDir_table', pageDir_free')
    BY <1>2, <2>1, <2>3, OwnDestroy DEF DirInv
  <2>5. OwnPages(Dirs, pageDir_table, pageDir_free)'
    BY <2>2, <2>4 DEF OwnPages, Mapping
  <2>6. DirTypes' /\ PhaseOK' /\ ProcessorOK'
    BY <1>1, <1>2, <1>3, <2>1 DEF DirInv, DirTypes, PhaseOK, ProcessorOK, Dir!At
  <2> QED
    BY <2>5, <2>6 DEF DirInv
<1> QED
  BY <1>4, <1>5

LEMMA DirStep == DirInv /\ Dir!Next => DirInv'
BY CreateStep, ActivateStep, InstallStep, AccessStep, ExitStep, DestroyStep
DEF Dir!Next

LEMMA DirSound == DirInv => AddressSpacesAreOwn
<1> SUFFICES ASSUME DirInv PROVE AddressSpacesAreOwn
  OBVIOUS
<1> DEFINE pages(t) == IF Dirs[t] = NULL THEN {}
                       ELSE {Dirs[t]} \cup Dir!Frames(Dirs[t])
<1>1. Dir!AddressSpaceIsOwn
  <2>1. pageDir_cr3 # Base =>
          /\ pageDir_cr3 \notin pageDir_free /\ pageDir_table[pageDir_cr3] # NULL
          /\ \A v \in Vpage : pageDir_table[pageDir_cr3][v] \notin pageDir_free
    BY Owned DEF DirInv, DirTypes, ProcessorOK
  <2> QED
    BY <2>1 DEF DirInv, ProcessorOK, Dir!AddressSpaceIsOwn
<1>2. \A t \in Caller : Dirs[t] # NULL => pageDir_table[Dirs[t]] # NULL
  BY Owned
<1>3. ASSUME NEW t \in Caller, NEW u \in Caller, t # u
      PROVE  pages(t) \cap pages(u) = {}
  BY <1>3, OwnedOnce DEF DirInv, OwnPages, Dir!Frames
<1>4. UserPage \ pageDir_free = UNION {pages(t) : t \in Caller}
  <2>1. ASSUME NEW p \in UserPage \ pageDir_free
        PROVE  \E t \in Caller : p \in pages(t)
    <3>1. PICK t \in Caller :
            /\ Dirs[t] # NULL
            /\ p = Dirs[t] \/ \E v \in Vpage : p = pageDir_table[Dirs[t]][v]
      BY DEF DirInv, OwnPages
    <3> QED
      BY <3>1 DEF Dir!Frames
  <2>2. ASSUME NEW t \in Caller, Dirs[t] # NULL
        PROVE  pages(t) \subseteq UserPage \ pageDir_free
    <3>1. ASSUME NEW v \in Vpage, pageDir_table[Dirs[t]][v] # NULL
          PROVE  pageDir_table[Dirs[t]][v] \in UserPage \ pageDir_free
      BY <2>2, <3>1, Owned DEF Mapping
    <3> QED
      BY <2>2, <3>1, Owned DEF Dir!Frames
  <2> QED
    BY <2>1, <2>2
<1>5. \A t \in Caller : Dirs[t] = IF pageDir_pagedir[t] # NULL THEN pageDir_pagedir[t]
                                  ELSE pageDir_pd[t]
  BY DEF Dirs
<1>6. Dir!PagesAreAccounted
  BY <1>2, <1>3, <1>4, <1>5 DEF Dir!PagesAreAccounted
<1> QED
  BY <1>1, <1>6 DEF AddressSpacesAreOwn
-----------------------------------------------------------------------------
(* The timer and the clock.                                                *)

(* The counter of timer ticks is put together from its two words.          *)
LEMMA Words ==
  ASSUME NEW a \in Nat
  PROVE  (a \div TickWord) * TickWord + (a % TickWord) = a
<1> DEFINE q == a \div TickWord
<1>1. q \in Int /\ a = TickWord * q + (a % TickWord)
  BY Divided
<1> HIDE DEF q
<1>2. q * TickWord = TickWord * q
  BY <1>1
<1> QED
  BY <1>1, <1>2 DEF q

(* A thread between the two words of the counter has interrupts off, so    *)
(* that the counter stands still and nobody else reads it.                 *)
TimInv ==
  /\ timer_ticks \in Nat
  /\ timer_at \in [Caller -> Tim!At]
  /\ timer_low \in [Caller -> Nat] /\ timer_start \in [Caller -> Nat]
  /\ timer_wanted \in [Caller -> Nat] /\ timer_called \in [Caller -> Nat]
  /\ \A t \in Caller : timer_called[t] <= timer_ticks
  /\ \A t \in Caller : timer_at[t] \in {"start_high", "elapsed_high"} =>
       ~timer_enabled /\ timer_low[t] = timer_ticks % TickWord
  /\ \A t, u \in Caller :
       /\ timer_at[t] \in {"start_high", "elapsed_high"}
       /\ timer_at[u] \in {"start_high", "elapsed_high"}
       => t = u
  /\ Tim!SleepsAsLongAsAsked

LEMMA ReadIsTicks ==
  ASSUME TimInv, NEW t \in Caller, timer_at[t] \in {"start_high", "elapsed_high"}
  PROVE  Tim!Read(t) = timer_ticks
<1>1. timer_low[t] = timer_ticks % TickWord /\ timer_ticks \in Nat
  BY DEF TimInv
<1> QED
  BY <1>1, Words DEF Tim!Read

LEMMA TimStep == TimInv /\ Tim!Next => TimInv'
<1> SUFFICES ASSUME TimInv, Tim!Next PROVE TimInv'
  OBVIOUS
<1>1. CASE Tim!Tick
  <2>1. timer_ticks' = timer_ticks + 1 /\ timer_enabled
        /\ UNCHANGED <<timer_enabled, timer_at, timer_low, timer_start, timer_wanted, timer_called>>
    BY <1>1 DEF Tim!Tick
  <2>2. \A t \in Caller : timer_at[t] \notin {"start_high", "elapsed_high"}
    BY <2>1 DEF TimInv
  <2>3. Tim!SleepsAsLongAsAsked'
    BY <2>1 DEF TimInv, Tim!SleepsAsLongAsAsked
  <2> QED
    BY <2>1, <2>2, <2>3 DEF TimInv
<1>2. ASSUME NEW t \in Caller, Tim!timer_sleep(t) PROVE TimInv'
  <2>1. PICK n \in 0 .. MaxSleep : timer_wanted' = [timer_wanted EXCEPT ![t] = n]
    BY <1>2 DEF Tim!timer_sleep
  <2>2. /\ timer_called' = [timer_called EXCEPT ![t] = timer_ticks]
        /\ timer_at' = [timer_at EXCEPT ![t] = "start"]
        /\ UNCHANGED <<timer_ticks, timer_enabled, timer_low, timer_start>>
    BY <1>2 DEF Tim!timer_sleep
  <2>3. Tim!SleepsAsLongAsAsked'
    BY <2>1, <2>2 DEF TimInv, Tim!SleepsAsLongAsAsked, Tim!At
  <2>4. /\ timer_at' \in [Caller -> Tim!At] /\ timer_wanted' \in [Caller -> Nat]
        /\ timer_called' \in [Caller -> Nat]
    BY <2>1, <2>2 DEF TimInv, Tim!At
  <2>5. \A u \in Caller : timer_called'[u] <= timer_ticks
    BY <2>2 DEF TimInv
  <2>6. \A u \in Caller : timer_at'[u] \in {"start_high", "elapsed_high"} =>
          timer_at[u] = timer_at'[u]
    BY <2>2 DEF TimInv
  <2> QED
    BY <2>2, <2>3, <2>4, <2>5, <2>6 DEF TimInv
<1>3. ASSUME NEW t \in Caller, Tim!ReadLow(t) PROVE TimInv'
  <2>1. /\ timer_enabled /\ timer_at[t] \in {"start", "elapsed"}
        /\ timer_enabled' = FALSE
        /\ timer_low' = [timer_low EXCEPT ![t] = timer_ticks % TickWord]
        /\ timer_at' = [timer_at EXCEPT ![t] = IF @ = "start" THEN "start_high"
                                               ELSE "elapsed_high"]
        /\ UNCHANGED <<timer_ticks, timer_start, timer_wanted, timer_called>>
    BY <1>3 DEF Tim!ReadLow
  <2>2. \A u \in Caller : timer_at[u] \notin {"start_high", "elapsed_high"}
    BY <2>1 DEF TimInv
  <2>3. timer_ticks % TickWord \in Nat
    BY DEF TimInv
  <2>4. Tim!SleepsAsLongAsAsked'
    BY <2>1 DEF TimInv, Tim!SleepsAsLongAsAsked, Tim!At
  <2>5. timer_at' \in [Caller -> Tim!At] /\ timer_low' \in [Caller -> Nat]
    BY <2>1, <2>3 DEF TimInv, Tim!At
  <2>6. /\ timer_low'[t] = timer_ticks % TickWord
        /\ \A u \in Caller : timer_at'[u] \in {"start_high", "elapsed_high"} => u = t
    BY <2>1, <2>2 DEF TimInv
  <2> QED
    BY <2>1, <2>4, <2>5, <2>6 DEF TimInv
<1>4. ASSUME NEW t \in Caller, Tim!ReadStart(t) PROVE TimInv'
  <2>1. /\ timer_at[t] = "start_high"
        /\ timer_start' = [timer_start EXCEPT ![t] = timer_ticks]
        /\ timer_low' = [timer_low EXCEPT ![t] = 0]
        /\ timer_at' = [timer_at EXCEPT ![t] = "elapsed"]
        /\ UNCHANGED <<timer_ticks, timer_wanted, timer_called>>
    BY <1>4, ReadIsTicks DEF Tim!ReadStart
  <2>2. \A u \in Caller : timer_at'[u] \notin {"start_high", "elapsed_high"}
    BY <2>1 DEF TimInv
  <2>3. Tim!SleepsAsLongAsAsked'
    BY <2>1 DEF TimInv, Tim!SleepsAsLongAsAsked, Tim!At
  <2> QED
    BY <2>1, <2>2, <2>3 DEF TimInv, Tim!At
<1>5. ASSUME NEW t \in Caller, Tim!ReadElapsed(t) PROVE TimInv'
  <2>1. /\ timer_at[t] = "elapsed_high"
        /\ timer_low' = [timer_low EXCEPT ![t] = 0]
        /\ timer_at' = [timer_at EXCEPT ![t] =
                          IF timer_ticks - timer_start[t] < timer_wanted[t]
                          THEN "elapsed" ELSE "awake"]
        /\ UNCHANGED <<timer_ticks, timer_start, timer_wanted, timer_called>>
    BY <1>5, ReadIsTicks DEF Tim!ReadElapsed
  <2>2. \A u \in Caller : timer_at'[u] \notin {"start_high", "elapsed_high"}
    BY <2>1 DEF TimInv
  <2>3. Tim!SleepsAsLongAsAsked'
    BY <2>1 DEF TimInv, Tim!SleepsAsLongAsAsked, Tim!At
  <2> QED
    BY <2>1, <2>2, <2>3 DEF TimInv, Tim!At
<1> QED
  BY <1>1, <1>2, <1>3, <1>4, <1>5 DEF Tim!Next

(* The seconds that have passed since they were read are the difference    *)
(* between the seconds of the clock and those that were read.              *)
Total == Second * Minute * Hour

ClkInv ==
  LET sec == rtc_read["sec"] IN
  /\ rtc_time \in 0 .. Total - 1
  /\ rtc_at \in 1 .. 5
  /\ rtc_passed \in Nat
  /\ DOMAIN rtc_read = {"sec", "min", "hour"}
  /\ rtc_read = [r \in {"sec", "min", "hour"} |-> rtc_read[r]]
  /\ rtc_at \in 2 .. 4 =>
       /\ rtc_passed < Second /\ sec \in 0 .. Second - 1
       /\ rtc_time % Second = IF sec + rtc_passed < Second THEN sec + rtc_passed
                              ELSE sec + rtc_passed - Second
  /\ rtc_at >= 3 /\ rtc_passed = 0 => rtc_read["min"] = Clk!cmos_read("min")
  /\ rtc_at >= 4 /\ rtc_passed = 0 => rtc_read["hour"] = Clk!cmos_read("hour")
  /\ rtc_at = 5 /\ rtc_passed = 0 => sec = Clk!cmos_read("sec")

(* The clock goes on by a second.                                          *)
LEMMA NextSecond ==
  ASSUME NEW a \in 0 .. Total - 1
  PROVE  /\ (a + 1) % Total \in 0 .. Total - 1
         /\ ((a + 1) % Total) % Second
              = IF (a % Second) + 1 < Second THEN (a % Second) + 1 ELSE 0
<1> DEFINE m == Minute * Hour
<1>1. Total \in Nat \ {0} /\ m \in Nat /\ Total = Second * m + 0
  BY DEF Total
<1> HIDE DEF m
<1>2. a \in Nat
  BY <1>1
<1>3. /\ a % Second \in 0 .. Second - 1
      /\ (a + 1) % Second = IF (a % Second) + 1 < Second THEN (a % Second) + 1 ELSE 0
  BY <1>2, NextRemainder
<1>4. CASE a + 1 < Total
  <2>1. a + 1 \in 0 .. Total - 1
    BY <1>1, <1>4
  <2>2. (a + 1) % Total = a + 1
    BY <1>1, <2>1, RemainderOfSmall
  <2> QED
    BY <1>3, <2>1, <2>2
<1>5. CASE ~(a + 1 < Total)
  <2>1. a + 1 = Total /\ Total = Second * m /\ 0 \in 0 .. Total - 1
    BY <1>1, <1>5
  <2>2. 0 % Second = 0 /\ Total % Total = 0
    <3>1. 0 \in 0 .. Second - 1 /\ Second \in Nat \ {0}
      OBVIOUS
    <3>2. 0 % Second = 0
      BY <3>1, RemainderOfSmall
    <3> QED
      BY <1>1, <3>2, RemainderOfItself
  <2>3. Total % Second = 0
    BY <1>1, <2>1, RemainderOfMultiple
  <2>4. (a % Second) + 1 # 0
    BY <1>3
  <2> HIDE DEF Total
  <2>5. (a % Second) + 1 >= Second
    BY <1>3, <2>1, <2>3, <2>4
  <2> QED
    BY <2>1, <2>2, <2>5, <1>3
<1> QED
  BY <1>4, <1>5

LEMMA ClkStep == ClkInv /\ Clk!Next => ClkInv'
<1> SUFFICES ASSUME ClkInv, Clk!Next PROVE ClkInv'
  OBVIOUS
<1> DEFINE sec == rtc_read["sec"]
           x == rtc_time % Second
<1>1. /\ rtc_time \in 0 .. Total - 1 /\ Total \in Nat /\ rtc_time \in Nat
      /\ x \in 0 .. Second - 1
  <2>1. Total \in Nat /\ rtc_time \in 0 .. Total - 1
    BY DEF Total, ClkInv
  <2>2. rtc_time \in Nat
    BY <2>1
  <2> QED
    BY <2>1, <2>2, NextRemainder
<1>2. CASE Clk!Advance
  <2>1. /\ rtc_time' = (rtc_time + 1) % Total
        /\ rtc_passed' = IF rtc_at = 1 THEN 0 ELSE rtc_passed + 1
        /\ rtc_at # 1 => rtc_passed < Second - 1
        /\ UNCHANGED <<rtc_at, rtc_read>>
    BY <1>2 DEF Clk!Advance, Total
  <2>2. /\ rtc_time' \in 0 .. Total - 1
        /\ rtc_time' % Second = IF x + 1 < Second THEN x + 1 ELSE 0
    BY <1>1, <2>1, NextSecond
  <2> HIDE DEF x
  <2>3. rtc_passed' \in Nat /\ (rtc_at # 1 => rtc_passed' # 0)
    BY <2>1 DEF ClkInv
  <2>4. ASSUME rtc_at \in 2 .. 4
        PROVE  /\ rtc_passed' < Second /\ sec \in 0 .. Second - 1
               /\ rtc_time' % Second
                    = IF sec + rtc_passed' < Second THEN sec + rtc_passed'
                      ELSE sec + rtc_passed' - Second
    <3>1. /\ rtc_passed \in 0 .. Second - 2 /\ rtc_passed' = rtc_passed + 1
          /\ sec \in 0 .. Second - 1
          /\ x = IF sec + rtc_passed < Second THEN sec + rtc_passed
                 ELSE sec + rtc_passed - Second
      BY <2>1, <2>4 DEF ClkInv, x
    <3> QED
      BY <1>1, <2>2, <3>1
  <2> QED
    BY <2>1, <2>2, <2>3, <2>4 DEF ClkInv
<1>3. CASE Clk!Read
  <2>1. /\ rtc_at \in 1 .. 3
        /\ rtc_read' = [rtc_read EXCEPT ![Clk!Register[rtc_at]]
                                          = Clk!cmos_read(Clk!Register[rtc_at])]
        /\ rtc_at' = rtc_at + 1
        /\ rtc_passed' = IF rtc_at = 1 THEN 0 ELSE rtc_passed
        /\ UNCHANGED rtc_time
    BY <1>3 DEF Clk!Read, ClkInv
  <2>2. \A r \in {"sec", "min", "hour"} : Clk!cmos_read(r)' = Clk!cmos_read(r)
    BY <2>1 DEF Clk!cmos_read
  <2>3. CASE rtc_at = 1
    <3>1. /\ rtc_read'["sec"] = x
          /\ rtc_read' = [rtc_read EXCEPT !["sec"] = x]
      BY <2>1, <2>3 DEF Clk!Register, Clk!cmos_read, ClkInv
    <3> HIDE DEF x
    <3>2. rtc_read' = [r \in {"sec", "min", "hour"} |-> rtc_read'[r]]
      BY <3>1 DEF ClkInv
    <3>3. rtc_time' % Second = x
      BY <2>1 DEF x
    <3> QED
      BY <1>1, <2>1, <2>3, <3>1, <3>2, <3>3 DEF ClkInv
  <2>4. CASE rtc_at = 2
    <3>1. /\ rtc_read'["min"] = Clk!cmos_read("min") /\ rtc_read'["sec"] = sec
          /\ rtc_read' = [r \in {"sec", "min", "hour"} |-> rtc_read'[r]]
      BY <2>1, <2>4 DEF Clk!Register, ClkInv
    <3> QED
      BY <2>1, <2>2, <2>4, <3>1 DEF ClkInv
  <2>5. CASE rtc_at = 3
    <3>1. /\ rtc_read'["hour"] = Clk!cmos_read("hour") /\ rtc_read'["sec"] = sec
          /\ rtc_read'["min"] = rtc_read["min"]
          /\ rtc_read' = [r \in {"sec", "min", "hour"} |-> rtc_read'[r]]
      BY <2>1, <2>5 DEF Clk!Register, ClkInv
    <3> QED
      BY <2>1, <2>2, <2>5, <3>1 DEF ClkInv
  <2> QED
    BY <2>1, <2>3, <2>4, <2>5
<1>4. CASE Clk!Again
  <2>1. /\ rtc_at = 4
        /\ rtc_at' = IF x = sec THEN 5 ELSE 1
        /\ rtc_passed' = IF x = sec THEN 0 ELSE rtc_passed
        /\ UNCHANGED <<rtc_time, rtc_read>>
    BY <1>4 DEF Clk!Again, Clk!Stable, Clk!cmos_read
  <2>2. \A r \in {"sec", "min", "hour"} : Clk!cmos_read(r)' = Clk!cmos_read(r)
    BY <2>1 DEF Clk!cmos_read
  <2>3. x = Clk!cmos_read("sec")
    BY DEF Clk!cmos_read
  <2> HIDE DEF x
  <2>4. x = sec => rtc_passed = 0
    BY <1>1, <2>1 DEF ClkInv, x
  <2> QED
    BY <2>1, <2>2, <2>3, <2>4 DEF ClkInv
<1>5. CASE Clk!Return
  BY <1>5 DEF Clk!Return, ClkInv
<1> QED
  BY <1>2, <1>3, <1>4, <1>5 DEF Clk!Next

LEMMA ClkSound == ClkInv => Clk!TimeIsOneMoment
BY DEF ClkInv, Clk!TimeIsOneMoment

LEMMA ClocksInit == Tim!Init /\ Clk!Init => TimInv /\ ClkInv
<1> SUFFICES ASSUME Tim!Init, Clk!Init PROVE TimInv /\ ClkInv
  OBVIOUS
<1>1. TimInv
  BY DEF Tim!Init, TimInv, Tim!At, Tim!SleepsAsLongAsAsked
<1>2. Total \in Nat \ {0}
  BY DEF Total
<1>3. ClkInv
  BY <1>2 DEF Clk!Init, ClkInv
<1> QED
  BY <1>1, <1>3
-----------------------------------------------------------------------------
(* The theorems: a step is one of a module's or leaves its variables alone. *)

LEMMA Parts == [ServicesNext]_ServicesVars =>
  /\ Next \/ UNCHANGED vars
  /\ Mon!Next \/ UNCHANGED Monvars
  /\ Con!Next \/ UNCHANGED Convars
  /\ Dir!Next \/ UNCHANGED Dirvars
  /\ Tim!Next \/ UNCHANGED Timvars
  /\ Clk!Next \/ UNCHANGED Clkvars
  /\ Pic!Next \/ UNCHANGED Picvars
  /\ Kbd!Next \/ UNCHANGED Kbdvars
  /\ Vga!Next \/ UNCHANGED Vgavars
  /\ All!Next \/ UNCHANGED Allvars
  /\ Dat!Next \/ UNCHANGED Datvars
BY DEF ServicesNext, ServicesVars, Others

(* No block is handed out twice, none is lost and none of an arena that    *)
(* was given back is left on a free list; an arena goes back with its last *)
(* block, and every page is free or in one arena (malloc.c:252).           *)
THEOREM BlocksAreTheirOwners == ServicesSpec => []BlocksAreSound
<1>1. ServicesInit => MalInv
  BY MalInit DEF ServicesInit
<1>2. MalInv /\ [ServicesNext]_ServicesVars => MalInv'
  <2>1. MalInv /\ UNCHANGED vars => MalInv'
    BY DEF MalInv, vars
  <2> QED
    BY <2>1, Parts, MalStep
<1> QED
  BY <1>1, <1>2, MalSound, PTL DEF ServicesSpec

(* Outside handlers every interrupt can be delivered, also after spurious  *)
(* ones (interrupt.c:262); and the shift state that the keyboard's handler *)
(* keeps is that of the keys (kbd.c:95).                                   *)
THEOREM InterruptsServed == ServicesSpec => []InterruptsAreServed
<1>1. ServicesInit => PicInv /\ KbdInv
  <2> SUFFICES ASSUME ServicesInit PROVE PicInv /\ KbdInv
    OBVIOUS
  <2>1. PicInv
    BY DEF ServicesInit, Pic!Init, PicInv
  <2>2. Kbd!CharactersFollowKeys
    <3>1. keyboard_put.key = 0 /\ keyboard_put # Kbd!Reboot
      <4>1. Kbd!Nothing.key = 0 /\ Kbd!Reboot.key = -1
        BY DEF Kbd!Nothing, Kbd!Reboot
      <4> QED
        BY <4>1 DEF ServicesInit, Kbd!Init
    <3> QED
      BY <3>1, Keys DEF Kbd!CharactersFollowKeys, Kbd!Mapped
  <2>3. KbdInv
    BY <2>2 DEF ServicesInit, Kbd!Init, KbdInv
  <2> QED
    BY <2>1, <2>3
<1>2. PicInv /\ KbdInv /\ [ServicesNext]_ServicesVars => PicInv' /\ KbdInv'
  <2> SUFFICES ASSUME PicInv, KbdInv, [ServicesNext]_ServicesVars PROVE PicInv' /\ KbdInv'
    OBVIOUS
  <2>1. UNCHANGED Picvars => PicInv'
    BY DEF PicInv, Picvars, Pic!Lines
  <2>2. UNCHANGED Kbdvars => KbdInv'
    BY DEF KbdInv, Kbdvars, Kbd!CharactersFollowKeys
  <2> QED
    BY <2>1, <2>2, Parts, PicStep, KbdStep
<1>3. PicInv /\ KbdInv => InterruptsAreServed
  BY DEF PicInv, KbdInv, InterruptsAreServed, Pic!EveryInterruptAcknowledged
<1> QED
  BY <1>1, <1>2, <1>3, PTL DEF ServicesSpec

(* cond_wait() gives the lock up and waits as one step to those who        *)
(* signal, every signal is one waiter's, and a woken thread has the lock   *)
(* again before it goes on (synch.c:299).                                  *)
THEOREM WaitIsAtomic == ServicesSpec => ImplementsMesa
<1>1. ServicesInit => MonInv /\ Mon!M!Init
  BY MonInit DEF ServicesInit
<1>2. MonInv /\ [ServicesNext]_ServicesVars => MonInv' /\ [Mon!M!Next]_(Mon!M!vars)
  BY Parts, MonStep, MonFrame
<1> QED
  BY <1>1, <1>2, PTL DEF ServicesSpec, ImplementsMesa, Mon!ImplementsMesa, Mon!M!Spec

(* Until a panic only the holder of the console lock prints, and the lock  *)
(* is free again when nobody does (console.c:92); the display shows the    *)
(* last rows of what was printed, whoever printed it (vga.c:86).           *)
THEOREM HolderPrints == ServicesSpec => []OutputIsNotMixed
<1>1. ServicesInit => ConInv /\ VgaInv
  BY ConInit, VgaInit DEF ServicesInit
<1>2. ConInv /\ [ServicesNext]_ServicesVars => ConInv'
  <2>1. ConInv /\ UNCHANGED Convars => ConInv'
    BY DEF ConInv, Convars, Con!OutputIsNotMixed, Con!console_locked_by
  <2> QED
    BY <2>1, Parts, ConStep
<1>3. VgaInv /\ [ServicesNext]_ServicesVars => VgaInv'
  <2>1. VgaInv /\ UNCHANGED Vgavars => VgaInv'
    BY DEF VgaInv, Vgavars
  <2> QED
    BY <2>1, Parts, VgaStep
<1>4. ConInv /\ VgaInv => OutputIsNotMixed
  BY VgaSound DEF ConInv, OutputIsNotMixed
<1> QED
  BY <1>1, <1>2, <1>3, <1>4, PTL DEF ServicesSpec

(* The processor never uses a page table or a frame that was freed, and no *)
(* page is in two address spaces or lost (process.c:212).                  *)
THEOREM SpacesAreOwn == ServicesSpec => []AddressSpacesAreOwn
<1>1. ServicesInit => DirInv
  BY DirInit DEF ServicesInit
<1>2. DirInv /\ [ServicesNext]_ServicesVars => DirInv'
  <2>1. DirInv /\ UNCHANGED Dirvars => DirInv'
    <3> SUFFICES ASSUME DirInv, UNCHANGED Dirvars PROVE DirInv'
      OBVIOUS
    <3>1. Dirs' = Dirs
      BY DEF Dirs, Dirvars
    <3> QED
      BY <3>1 DEF DirInv, Dirvars, DirTypes, PhaseOK, ProcessorOK, OwnPages
  <2> QED
    BY <2>1, Parts, DirStep
<1> QED
  BY <1>1, <1>2, DirSound, PTL DEF ServicesSpec

(* The words of the tick counter that a thread reads are of one moment, so *)
(* that nobody sleeps too short (timer.c:74), and so are the registers of  *)
(* the clock (rtc.c:69).                                                   *)
THEOREM ReadsAreOneMoment == ServicesSpec => []ClocksAreRead
<1>1. ServicesInit => TimInv /\ ClkInv
  BY ClocksInit DEF ServicesInit
<1>2. TimInv /\ [ServicesNext]_ServicesVars => TimInv'
  <2>1. TimInv /\ UNCHANGED Timvars => TimInv'
    BY DEF TimInv, Timvars, Tim!SleepsAsLongAsAsked
  <2> QED
    BY <2>1, Parts, TimStep
<1>3. ClkInv /\ [ServicesNext]_ServicesVars => ClkInv'
  <2>1. ClkInv /\ UNCHANGED Clkvars => ClkInv'
    BY DEF ClkInv, Clkvars, Clk!cmos_read
  <2> QED
    BY <2>1, Parts, ClkStep
<1>4. TimInv /\ ClkInv => ClocksAreRead
  BY ClkSound DEF TimInv, ClocksAreRead
<1> QED
  BY <1>1, <1>2, <1>3, <1>4, PTL DEF ServicesSpec

(* As long as no two threads are created at a time, and none exits that a  *)
(* new one has taken for its predecessor, a walk over the list of all      *)
(* threads passes exactly those on it, wherever the timer strikes inside   *)
(* list_insert() (thread.c:496).                                           *)
THEOREM ListIsKept == ServicesSpec => []ListSurvives
<1>1. ServicesInit => AllInv
  BY AllInit DEF ServicesInit
<1>2. AllInv /\ [ServicesNext]_ServicesVars => AllInv'
  BY Parts, AllNext, AllStutters
<1> QED
  BY <1>1, <1>2, AllSound, PTL DEF ServicesSpec

(* A write changes the bytes of the file that are in the range asked for   *)
(* and no others, and a read or write returns their number, wherever       *)
(* sectors begin and whatever other sectors are written meanwhile; only    *)
(* writers of parts of one sector undo each other's work (inode.c:195 and  *)
(* 303).                                                                   *)
THEOREM TransfersStayExact == ServicesSpec => []TransfersAreExact
<1>1. ServicesInit => DatInv
  BY DatInit DEF ServicesInit
<1>2. DatInv /\ [ServicesNext]_ServicesVars => DatInv'
  BY Parts, DatNext, DatStutters
<1> QED
  BY <1>1, <1>2, DatSound, PTL DEF ServicesSpec
=============================================================================
