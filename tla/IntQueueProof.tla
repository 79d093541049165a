---------------------------- MODULE IntQueueProof ----------------------------
(***************************************************************************)
(* Proofs about IntQueue for any threads, bytes and buffer size.  IInv is  *)
(* inductive; the theorems at the end follow from it.                      *)
(***************************************************************************)
EXTENDS IntQueue, SequenceTheorems, FiniteSetTheorems, TLAPS

(* Whoever is in a call is at the users' end of the queue, and only those  *)
(* in a call sleep.                                                        *)
UsersOK ==
  /\ users \subseteq Getter \/ users \subseteq Putter
  /\ \A t \in Thread : pc[t] # "out" => t \in users
  /\ \A t \in asleep : pc[t] # "out"

(* The lock is held exactly by the thread in wait(), awake or not.         *)
HolderOK == \A t \in Thread : pc[t] = "wait" <=> holder = t

(* The list of the lock holds the threads that sleep for it, each once.    *)
WaitersOK ==
  /\ IsInjective(waiters)
  /\ Range(waiters) = {t \in asleep : pc[t] = "lock"}

(* Those who sleep for the lock are behind somebody who will release it.   *)
LockComes ==
  waiters # <<>> => holder # NULL \/ \E u \in Thread \ asleep : pc[u] = "lock"

(* A waiter slot names the thread asleep in wait(), whose condition is     *)
(* false; a signal clears the slot and wakes the thread together.          *)
SlotsOK ==
  /\ not_empty # NULL => not_empty \in asleep /\ pc[not_empty] = "wait"
  /\ not_full # NULL => not_full \in asleep /\ pc[not_full] = "wait"
  /\ \A t \in asleep : pc[t] = "wait" => Waiter(t) = t /\ Blocked(t)

(* A user who is alone never meets the lock taken.                         *)
AloneOK ==
  (\A t, u \in users : t = u) => ~panic /\ \A t \in Thread : pc[t] # "lock"

IInv ==
  TypeOK /\ UsersOK /\ HolderOK /\ WaitersOK /\ LockComes /\ SlotsOK /\ AloneOK

USE IntQueueAssumption

-----------------------------------------------------------------------------
(* Arithmetic of the ring: one addition of INTQ_BUFSIZE replaces %.        *)

LEMMA Wrapped ==
  ASSUME NEW x \in 1 - INTQ_BUFSIZE .. 2 * INTQ_BUFSIZE - 1
  PROVE  x % INTQ_BUFSIZE = IF x < 0 THEN x + INTQ_BUFSIZE
                            ELSE IF x < INTQ_BUFSIZE THEN x
                            ELSE x - INTQ_BUFSIZE
OBVIOUS

(* The tests of the ring, without %.                                       *)
LEMMA Advance ==
  ASSUME NEW pos \in 0 .. INTQ_BUFSIZE - 1
  PROVE  /\ next(pos) \in 0 .. INTQ_BUFSIZE - 1
         /\ next(pos) = IF pos + 1 = INTQ_BUFSIZE THEN 0 ELSE pos + 1
BY Wrapped DEF next

(* Taking or storing a byte keeps the ring inside its bounds.              *)
RingOK ==
  /\ buf \in [0 .. INTQ_BUFSIZE - 1 -> Byte]
  /\ head \in 0 .. INTQ_BUFSIZE - 1
  /\ tail \in 0 .. INTQ_BUFSIZE - 1

LEMMA TakeStep ==
  ASSUME RingOK, take
  PROVE  RingOK' /\ ~intq_full'
BY Advance DEF RingOK, take, intq_full, intq_empty

LEMMA StoreStep ==
  ASSUME RingOK, NEW b \in Byte, store(b)
  PROVE  RingOK' /\ ~intq_empty'
BY Advance DEF RingOK, store, intq_full, intq_empty

-----------------------------------------------------------------------------
(* The list of the lock.                                                   *)

LEMMA JoinList ==
  ASSUME NEW q \in Seq(Thread), IsInjective(q), NEW t \in Thread \ Range(q)
  PROVE  /\ Append(q, t) \in Seq(Thread) \ {<<>>}
         /\ IsInjective(Append(q, t))
         /\ Range(Append(q, t)) = Range(q) \cup {t}
<1> DEFINE r == Append(q, t)
<1>1. /\ r \in Seq(Thread) /\ r # <<>> /\ Len(q) \in Nat
      /\ r[Len(q) + 1] = t /\ \A i \in 1 .. Len(q) : r[i] = q[i]
      /\ DOMAIN r = 1 .. Len(q) + 1 /\ DOMAIN q = 1 .. Len(q)
  BY AppendProperties
<1>2. \A i \in 1 .. Len(q) : q[i] # t
  BY <1>1 DEF Range
<1>3. IsInjective(r)
  BY <1>1, <1>2 DEF IsInjective
<1>4. \A x : x \in Range(r) <=> x \in Range(q) \/ x = t
  <2>1. \A i \in DOMAIN r : r[i] \in Range(q) \cup {t}
    BY <1>1 DEF Range
  <2>2. \A i \in DOMAIN q : q[i] \in Range(r)
    BY <1>1 DEF Range
  <2>3. t \in Range(r)
    BY <1>1 DEF Range
  <2> HIDE DEF r
  <2> QED
    BY <2>1, <2>2, <2>3 DEF Range
<1> QED
  BY <1>1, <1>3, <1>4

LEMMA LeaveList ==
  ASSUME NEW q \in Seq(Thread), IsInjective(q), q # <<>>
  PROVE  /\ Head(q) \in Range(q)
         /\ Tail(q) \in Seq(Thread)
         /\ IsInjective(Tail(q))
         /\ Range(Tail(q)) = Range(q) \ {Head(q)}
<1> DEFINE r == Tail(q)
<1>1. /\ r \in Seq(Thread) /\ \A i \in DOMAIN r : r[i] = q[i + 1]
      /\ DOMAIN r = 1 .. Len(q) - 1 /\ DOMAIN q = 1 .. Len(q)
      /\ Len(q) \in Nat \ {0} /\ Head(q) = q[1]
  BY HeadTailProperties, EmptySeq
<1>2. IsInjective(r)
  BY <1>1 DEF IsInjective
<1>3. \A x : x \in Range(r) <=> x \in Range(q) /\ x # q[1]
  <2>1. \A i \in DOMAIN r : r[i] \in Range(q) /\ r[i] # q[1]
    BY <1>1 DEF Range, IsInjective
  <2>2. ASSUME NEW i \in DOMAIN q, q[i] # q[1]
        PROVE  q[i] \in Range(r)
    <3>1. i - 1 \in DOMAIN r /\ r[i - 1] = q[i]
      BY <1>1, <2>2
    <3> QED
      BY <3>1 DEF Range
  <2> HIDE DEF r
  <2> QED
    BY <2>1, <2>2 DEF Range
<1>4. Head(q) \in Range(q)
  BY <1>1 DEF Range
<1> QED
  BY <1>1, <1>2, <1>3, <1>4

(* The list is empty exactly when nobody sleeps for the lock.              *)
LEMMA EmptyList ==
  ASSUME NEW q \in Seq(Thread)
  PROVE  q = <<>> <=> Range(q) = {}
<1>1. q # <<>> => q[1] \in Range(q)
  BY EmptySeq DEF Range
<1>2. Range(<<>>) = {}
  BY DEF Range
<1> QED
  BY <1>1, <1>2

-----------------------------------------------------------------------------
(* The steps.                                                              *)

(* Users of one queue are all readers or all writers.                      *)
LEMMA OneEnd ==
  ASSUME IInv, NEW t \in users
  PROVE  /\ t \in Thread
         /\ \A u \in users : u \in Getter <=> t \in Getter
         /\ \A u \in users : Blocked(u) <=> Blocked(t)
         /\ Signalled(t) = {}
<1>1. t \in Thread /\ \A u \in users : u \in Getter <=> t \in Getter
  BY DEF IInv, TypeOK, UsersOK, Thread
<1>2. not_empty # NULL => not_empty \in users \cap Getter
  BY DEF IInv, TypeOK, UsersOK, SlotsOK, Thread
<1>3. not_full # NULL => not_full \in users \ Getter
  BY DEF IInv, TypeOK, UsersOK, SlotsOK, Thread
<1> QED
  BY <1>1, <1>2, <1>3 DEF Signalled, Blocked

(* A call that finds its condition true does not disturb the sleepers: the *)
(* sleepers of this end would have found it false.                         *)
LEMMA EnterStep ==
  ASSUME IInv, NEW t \in Thread, Enter(t), UNCHANGED users
  PROVE  IInv'
<1>1. t \in users /\ pc[t] = "out" /\ ~panic /\ t \notin asleep /\ holder # t
  BY DEF Enter, IInv, UsersOK, HolderOK
<1>2. CASE ~Blocked(t)
  <2>1. Transfer(t) /\ UNCHANGED <<asleep, holder, waiters, pc, panic>>
    BY <1>1, <1>2, OneEnd DEF Enter
  <2>2. RingOK'
    BY <2>1, TakeStep, StoreStep DEF Transfer, IInv, TypeOK, RingOK
  <2>3. TypeOK'
    BY <2>1, <2>2 DEF RingOK, IInv, TypeOK, Transfer
  <2>4. \A u \in asleep : pc[u] # "wait"
    BY <1>1, <1>2, OneEnd DEF IInv, UsersOK, SlotsOK, TypeOK
  <2>5. not_empty' = NULL /\ not_full' = NULL
    BY <2>1, <2>4 DEF Transfer, IInv, SlotsOK
  <2>6. UsersOK' /\ HolderOK' /\ WaitersOK' /\ LockComes' /\ AloneOK'
    BY <2>1 DEF IInv, UsersOK, HolderOK, WaitersOK, LockComes, AloneOK
  <2>7. SlotsOK'
    BY <2>1, <2>4, <2>5 DEF SlotsOK
  <2> QED
    BY <2>3, <2>6, <2>7 DEF IInv
<1>3. CASE Blocked(t) /\ holder = NULL
  <2>1. /\ wait(t, {}) /\ UNCHANGED <<ring, waiters, panic>>
        /\ holder' = t /\ pc' = [pc EXCEPT ![t] = "wait"]
        /\ asleep' = asleep \cup {t}
    BY <1>3, <1>1 DEF Enter, wait
  <2>2. TypeOK'
    BY <2>1, <1>3 DEF IInv, TypeOK, wait, ring, Thread, PC
  <2>3. UsersOK'
    BY <1>1, <2>1 DEF IInv, UsersOK, TypeOK
  <2>4. HolderOK'
    BY <1>1, <2>1, <1>3 DEF IInv, HolderOK, TypeOK
  <2>5. WaitersOK'
    BY <1>1, <2>1 DEF IInv, WaitersOK, TypeOK
  <2>6. LockComes'
    BY <1>1, <2>1, IntQueueAssumption DEF IInv, LockComes
  <2>7. SlotsOK'
    BY <1>1, <1>3, <2>1, OneEnd, IntQueueAssumption
    DEF IInv, SlotsOK, wait, HolderOK, TypeOK, Waiter, Blocked, intq_empty, intq_full, ring, UsersOK
  <2>8. AloneOK'
    BY <1>1, <2>1 DEF IInv, AloneOK, TypeOK
  <2> QED
    BY <2>2, <2>3, <2>4, <2>5, <2>6, <2>7, <2>8 DEF IInv
<1>4. CASE Blocked(t) /\ holder # NULL
  <2>1. queue_for_lock(t)
    BY <1>4 DEF Enter
  <2>2. /\ waiters' \in Seq(Thread) \ {<<>>}
        /\ IsInjective(waiters')
        /\ Range(waiters') = Range(waiters) \cup {t}
    BY <1>1, <2>1, JoinList DEF queue_for_lock, IInv, WaitersOK, TypeOK
  <2>3. holder \in users \ {t} /\ holder \in Thread
    BY <1>1, <1>4 DEF IInv, HolderOK, UsersOK, TypeOK
  <2>4. TypeOK'
    BY <2>1, <2>2 DEF IInv, TypeOK, queue_for_lock, ring, PC
  <2>5. UsersOK' /\ HolderOK' /\ LockComes' /\ WaitersOK'
    BY <1>1, <1>4, <2>1, <2>2 DEF IInv, UsersOK, HolderOK, LockComes, WaitersOK, TypeOK, queue_for_lock
  <2>6. SlotsOK'
    BY <1>1, <2>1 DEF IInv, SlotsOK, queue_for_lock, TypeOK, Waiter, Blocked, intq_empty, intq_full, ring
  <2>7. AloneOK'
    BY <1>1, <2>3, <2>1 DEF AloneOK, queue_for_lock
  <2> QED
    BY <2>4, <2>5, <2>6, <2>7 DEF IInv
<1> QED
  BY <1>2, <1>3, <1>4

(* A thread that was woken for the lock takes it and waits, or finds it    *)
(* taken again.  That it may find its condition false is where the         *)
(* assertion of wait() can fail; it needs a second user.                   *)
LEMMA LockWokenStep ==
  ASSUME IInv, NEW t \in Thread, LockWoken(t), UNCHANGED users
  PROVE  IInv'
<1>1. t \in users /\ pc[t] = "lock" /\ ~panic /\ t \notin asleep /\ holder # t
  BY DEF LockWoken, IInv, UsersOK, HolderOK
<1>2. \E u, v \in users : u # v
  BY <1>1 DEF IInv, AloneOK
<1>3. CASE holder = NULL /\ ~Blocked(t)
  <2>1. panic' = TRUE
    BY <1>3, <1>1 DEF LockWoken, wait
  <2>2. UNCHANGED <<ring, not_empty, not_full, holder, waiters, pc, asleep>>
    BY <1>3, <1>1 DEF LockWoken, wait
  <2>3. RingOK' /\ UNCHANGED <<buf, head, tail>>
    BY <2>2 DEF ring, IInv, TypeOK, RingOK
  <2>4. TypeOK'
    BY <2>1, <2>2, <2>3 DEF IInv, TypeOK, RingOK
  <2>5. UsersOK' /\ HolderOK' /\ WaitersOK' /\ LockComes'
    BY <2>2 DEF IInv, UsersOK, HolderOK, WaitersOK, LockComes
  <2>6. SlotsOK'
    BY <2>2, <2>3 DEF IInv, SlotsOK, Waiter, Blocked, intq_empty, intq_full
  <2>7. AloneOK'
    BY <1>2 DEF AloneOK
  <2> QED
    BY <2>4, <2>5, <2>6, <2>7 DEF IInv
<1>4. CASE holder = NULL /\ Blocked(t)
  <2>1. /\ wait(t, {}) /\ UNCHANGED <<ring, waiters, panic>>
        /\ holder' = t /\ pc' = [pc EXCEPT ![t] = "wait"]
        /\ asleep' = asleep \cup {t}
    BY <1>4, <1>1 DEF LockWoken, wait
  <2>2. TypeOK'
    BY <2>1, <1>4 DEF IInv, TypeOK, wait, ring, Thread, PC
  <2>3. UsersOK' /\ HolderOK' /\ WaitersOK' /\ LockComes'
    BY <1>1, <1>4, <2>1, IntQueueAssumption
    DEF IInv, UsersOK, HolderOK, WaitersOK, LockComes, TypeOK
  <2>4. SlotsOK'
    BY <1>1, <1>4, <2>1, OneEnd, IntQueueAssumption
    DEF IInv, SlotsOK, wait, HolderOK, TypeOK, Waiter, Blocked, intq_empty, intq_full, ring, UsersOK
  <2>5. AloneOK'
    BY <1>2 DEF AloneOK
  <2> QED
    BY <2>2, <2>3, <2>4, <2>5 DEF IInv
<1>5. CASE holder # NULL
  <2>1. queue_for_lock(t)
    BY <1>5 DEF LockWoken
  <2>2. /\ waiters' \in Seq(Thread) \ {<<>>}
        /\ IsInjective(waiters')
        /\ Range(waiters') = Range(waiters) \cup {t}
    BY <1>1, <2>1, JoinList DEF queue_for_lock, IInv, WaitersOK, TypeOK
  <2>3. TypeOK'
    BY <2>1, <2>2 DEF IInv, TypeOK, queue_for_lock, ring, PC
  <2>4. UsersOK' /\ HolderOK' /\ LockComes' /\ WaitersOK'
    BY <1>1, <1>5, <2>1, <2>2 DEF IInv, UsersOK, HolderOK, LockComes, WaitersOK, TypeOK, queue_for_lock
  <2>5. SlotsOK'
    BY <1>1, <2>1 DEF IInv, SlotsOK, queue_for_lock, TypeOK, Waiter, Blocked, intq_empty, intq_full, ring
  <2>6. AloneOK'
    BY <1>2 DEF AloneOK
  <2> QED
    BY <2>3, <2>4, <2>5, <2>6 DEF IInv
<1> QED
  BY <1>3, <1>4, <1>5

(* The thread in wait() releases the lock to the first of those who sleep  *)
(* for it, and returns or takes the lock back.                             *)
LEMMA WaitWokenStep ==
  ASSUME IInv, NEW t \in Thread, WaitWoken(t), UNCHANGED users
  PROVE  IInv'
<1>1. /\ t \in users /\ pc[t] = "wait" /\ ~panic /\ t \notin asleep /\ holder = t
      /\ \A u \in Thread \ {t} : pc[u] # "wait"
  BY IntQueueAssumption DEF WaitWoken, IInv, UsersOK, HolderOK
<1>2. not_empty = NULL /\ not_full = NULL /\ \A u \in asleep : pc[u] = "lock"
  <2>1. \A u \in asleep : u \in Thread /\ u # t /\ pc[u] # "out" /\ pc[u] \in PC
    BY <1>1 DEF IInv, UsersOK, TypeOK
  <2> QED
    BY <1>1, <2>1 DEF IInv, SlotsOK, PC
<1>3. Range(waiters) = asleep
  BY <1>2 DEF IInv, WaitersOK
<1>4. /\ waiters' \in Seq(Thread) /\ IsInjective(waiters')
      /\ Range(waiters') = asleep \ Unlocked
      /\ waiters' # <<>> => Unlocked # {}
      /\ Unlocked \subseteq asleep
  <2>1. CASE waiters = <<>>
    BY <2>1, <1>3 DEF WaitWoken, Unlocked, IInv, WaitersOK, TypeOK
  <2>2. CASE waiters # <<>>
    BY <2>2, <1>3, LeaveList DEF WaitWoken, Unlocked, IInv, WaitersOK, TypeOK
  <2> QED
    BY <2>1, <2>2
<1>5. Unlocked \subseteq Thread \ {t}
  BY <1>1, <1>4 DEF IInv, TypeOK
<1>6. CASE ~Blocked(t)
  <2>1. /\ Transfer(t) /\ UNCHANGED panic /\ holder' = NULL
        /\ pc' = [pc EXCEPT ![t] = "out"] /\ asleep' = asleep \ Unlocked
    BY <1>1, <1>6, OneEnd DEF WaitWoken, wait
  <2>2. RingOK'
    BY <2>1, TakeStep, StoreStep DEF Transfer, IInv, TypeOK, RingOK
  <2>3. not_empty' = NULL /\ not_full' = NULL
    BY <1>2, <2>1 DEF Transfer
  <2>4. TypeOK'
    BY <2>1, <2>2, <2>3, <1>4 DEF RingOK, IInv, TypeOK, PC
  <2>5. UsersOK'
    BY <1>1, <2>1 DEF IInv, UsersOK, TypeOK
  <2>6. HolderOK'
    BY <1>1, <2>1, IntQueueAssumption DEF HolderOK, IInv, TypeOK
  <2>7. \A u \in asleep' : pc'[u] = "lock"
    BY <1>1, <1>2, <2>1 DEF IInv, TypeOK
  <2>8. WaitersOK'
    BY <1>4, <2>1, <2>7 DEF WaitersOK
  <2>9. LockComes'
    BY <1>1, <1>2, <1>4, <1>5, <2>1 DEF LockComes, IInv, TypeOK
  <2>10. SlotsOK'
    BY <2>3, <2>7 DEF SlotsOK
  <2>11. AloneOK'
    BY <1>1, <2>1 DEF AloneOK, IInv, TypeOK
  <2> QED
    BY <2>4, <2>5, <2>6, <2>8, <2>9, <2>10, <2>11 DEF IInv
<1>7. CASE Blocked(t)
  <2>1. /\ wait(t, Unlocked) /\ UNCHANGED <<ring, panic, pc>>
        /\ holder' = t /\ asleep' = (asleep \ Unlocked) \cup {t}
    BY <1>1, <1>7 DEF WaitWoken, wait, IInv, TypeOK
  <2>2. TypeOK'
    BY <2>1, <1>4, <1>7 DEF IInv, TypeOK, wait, ring, Thread
  <2>3. UsersOK' /\ HolderOK'
    BY <1>1, <2>1 DEF IInv, UsersOK, HolderOK, TypeOK
  <2>4. \A u \in asleep' \ {t} : pc'[u] = "lock"
    BY <1>2, <2>1
  <2>5. WaitersOK'
    BY <1>1, <1>4, <2>1, <2>4 DEF WaitersOK
  <2>6. LockComes'
    BY <2>1, IntQueueAssumption DEF LockComes
  <2>7. SlotsOK'
    BY <1>1, <1>2, <1>7, <2>1, <2>4
    DEF SlotsOK, wait, Waiter, Blocked, intq_empty, intq_full, ring
  <2>8. AloneOK'
    BY <2>1 DEF AloneOK, IInv
  <2> QED
    BY <2>2, <2>3, <2>5, <2>6, <2>7, <2>8 DEF IInv
<1> QED
  BY <1>6, <1>7

(* The handler changes one side of the ring and clears the slot of the     *)
(* thread it wakes, who then is awake, in wait() and holds the lock.       *)
LEMMA InterruptStep ==
  ASSUME IInv, Interrupt, UNCHANGED users
  PROVE  IInv'
<1>1. /\ UNCHANGED <<holder, waiters, pc, panic>> /\ RingOK' /\ asleep' \subseteq asleep
      /\ \A u \in asleep : pc[u] = "lock" => u \in asleep'
      /\ not_empty' \in {not_empty, NULL} /\ not_full' \in {not_full, NULL}
      /\ not_empty' = NULL /\ not_full' = NULL
      /\ \A u \in asleep' : pc[u] # "wait"
  <2>1. CASE users \subseteq Getter /\ \E b \in Byte : InterruptPut(b)
    <3>1. UNCHANGED <<holder, waiters, pc, panic>> /\ RingOK'
      BY <2>1, StoreStep DEF InterruptPut, IInv, TypeOK, RingOK
    <3>2. /\ asleep' = asleep \ {not_empty} /\ not_empty' = NULL
          /\ not_full' = not_full
      BY <2>1 DEF InterruptPut
    <3>3. not_full = NULL
      BY <2>1 DEF IInv, SlotsOK, TypeOK, UsersOK, Thread
    <3>4. \A u \in asleep : pc[u] = "wait" => u = not_empty
      BY <2>1 DEF IInv, SlotsOK, UsersOK, TypeOK, Waiter
    <3>5. \A u \in asleep : pc[u] = "lock" => u # not_empty
      BY IntQueueAssumption DEF IInv, SlotsOK, TypeOK
    <3> QED
      BY <3>1, <3>2, <3>3, <3>4, <3>5
  <2>2. CASE users \subseteq Putter /\ InterruptGet
    <3>1. UNCHANGED <<holder, waiters, pc, panic>> /\ RingOK'
      BY <2>2, TakeStep DEF InterruptGet, IInv, TypeOK, RingOK
    <3>2. /\ asleep' = asleep \ {not_full} /\ not_full' = NULL
          /\ not_empty' = not_empty
      BY <2>2 DEF InterruptGet
    <3>3. not_empty = NULL
      BY <2>2 DEF IInv, SlotsOK, TypeOK, UsersOK, Thread
    <3>4. \A u \in asleep : pc[u] = "wait" => u = not_full
      BY <2>2 DEF IInv, SlotsOK, UsersOK, TypeOK, Waiter
    <3>5. \A u \in asleep : pc[u] = "lock" => u # not_full
      BY IntQueueAssumption DEF IInv, SlotsOK, TypeOK
    <3> QED
      BY <3>1, <3>2, <3>3, <3>4, <3>5
  <2> QED
    BY <2>1, <2>2 DEF Interrupt
<1>2. TypeOK'
  BY <1>1 DEF IInv, TypeOK, RingOK
<1>3. UsersOK' /\ HolderOK' /\ AloneOK'
  BY <1>1 DEF IInv, UsersOK, HolderOK, AloneOK
<1>4. WaitersOK'
  BY <1>1 DEF IInv, WaitersOK
<1>5. LockComes'
  BY <1>1 DEF IInv, LockComes
<1>6. SlotsOK'
  BY <1>1 DEF SlotsOK
<1> QED
  BY <1>2, <1>3, <1>4, <1>5, <1>6 DEF IInv

-----------------------------------------------------------------------------
(* The theorems.                                                           *)

(* IInv holds in every reachable state of the queue: one caller at most is *)
(* in wait(), it is the one that holds the lock, and the waiter slots and  *)
(* the list of the lock name exactly those who sleep.                      *)
THEOREM Invariance == Spec => []IInv
<1>1. Init => IInv
  <2> SUFFICES ASSUME Init PROVE IInv
    OBVIOUS
  <2>1. TypeOK
    <3>1. buf \in [0 .. INTQ_BUFSIZE - 1 -> Byte] /\ 0 \in 0 .. INTQ_BUFSIZE - 1
      BY IntQueueAssumption DEF Init
    <3>2. pc \in [Thread -> PC] /\ waiters \in Seq(Thread)
      BY DEF Init, PC
    <3> QED
      BY <3>1, <3>2 DEF Init, TypeOK
  <2>w. WaitersOK
    BY DEF Init, WaitersOK, Range, IsInjective
  <2>2. UsersOK /\ HolderOK /\ LockComes /\ SlotsOK /\ AloneOK
    BY IntQueueAssumption DEF Init, UsersOK, HolderOK, LockComes, SlotsOK, AloneOK
  <2> QED
    BY <2>1, <2>w, <2>2 DEF IInv
<1>2. IInv /\ [Next]_vars => IInv'
  <2> SUFFICES ASSUME IInv, [Next]_vars PROVE IInv'
    OBVIOUS
  <2>1. CASE Next
    BY <2>1, EnterStep, LockWokenStep, WaitWokenStep, InterruptStep DEF Next, Call
  <2>2. CASE UNCHANGED vars
    <3>1. UNCHANGED <<buf, head, tail>>
      BY <2>2 DEF vars, ring
    <3> QED
      BY <2>2, <3>1 DEF vars, IInv, TypeOK, UsersOK, HolderOK, WaitersOK, LockComes,
         SlotsOK, AloneOK, Waiter, Blocked, intq_empty, intq_full
  <2> QED
    BY <2>1, <2>2
<1> QED
  BY <1>1, <1>2, PTL DEF Spec

(* The assertion at the head of wait() (intq.c:91) cannot fail while one   *)
(* thread at most uses its end of the queue, as the keyboard and serial    *)
(* drivers use it.                                                         *)
THEOREM AloneIsSafe == Spec => []OneUserNeverPanics
<1>1. IInv => OneUserNeverPanics
  <2> SUFFICES ASSUME IInv, Cardinality(users) < 2 PROVE ~panic
    BY DEF OneUserNeverPanics
  <2>1. IsFiniteSet(users)
    BY IntQueueAssumption, FS_Subset DEF IInv, TypeOK, Thread
  <2>2. ASSUME NEW t \in users, NEW u \in users, t # u
        PROVE  FALSE
    <3>1. Cardinality(users) \in Nat /\ Cardinality({t, u}) <= Cardinality(users)
      BY <2>1, FS_Subset, FS_CardinalityType
    <3>2. Cardinality({t}) = 1 /\ IsFiniteSet({t})
      BY FS_Singleton
    <3>3. Cardinality({t} \cup {u}) = Cardinality({t}) + 1
      BY <2>2, <3>2, FS_AddElement
    <3>4. {t} \cup {u} = {t, u}
      OBVIOUS
    <3> QED
      BY <3>1, <3>2, <3>3, <3>4
  <2> QED
    BY <2>2 DEF IInv, AloneOK
<1> QED
  BY <1>1, Invariance, PTL

(* No thread is forgotten asleep: one in the waiter slot still has reason  *)
(* to wait, and one asleep for the lock is behind a holder or behind a     *)
(* thread that was woken to take it.                                       *)
THEOREM NobodyIsForgotten == Spec => []SleepersAreWoken
<1>1. IInv => SleepersAreWoken
  <2> SUFFICES ASSUME IInv, NEW t \in asleep, pc[t] # "wait"
               PROVE  /\ pc[t] = "lock" /\ t \in Range(waiters)
                      /\ holder # NULL \/ \E u \in Thread \ asleep : pc[u] = "lock"
    BY DEF SleepersAreWoken, IInv, SlotsOK, HolderOK, TypeOK
  <2>1. t \in Thread /\ pc[t] = "lock"
    BY DEF IInv, TypeOK, UsersOK, PC
  <2>2. t \in Range(waiters) /\ waiters # <<>>
    BY <2>1, EmptyList DEF IInv, TypeOK, WaitersOK
  <2> QED
    BY <2>1, <2>2 DEF IInv, LockComes
<1> QED
  BY <1>1, Invariance, PTL

-----------------------------------------------------------------------------
(* The ring implements Fifo.                                               *)

(* The number of bytes and the slot of the i-th of them, without %.        *)
Used(h, t) == IF h < t THEN h - t + INTQ_BUFSIZE ELSE h - t

Slot(t, i) == IF t + i - 1 < INTQ_BUFSIZE THEN t + i - 1
              ELSE t + i - 1 - INTQ_BUFSIZE

ContentOf(f, h, t) ==
  [i \in 1 .. (h - t) % INTQ_BUFSIZE |-> f[(t + i - 1) % INTQ_BUFSIZE]]

LEMMA Slots ==
  ASSUME NEW f \in [0 .. INTQ_BUFSIZE - 1 -> Byte],
         NEW h \in 0 .. INTQ_BUFSIZE - 1, NEW t \in 0 .. INTQ_BUFSIZE - 1
  PROVE  /\ Used(h, t) \in 0 .. INTQ_BUFSIZE - 1
         /\ ContentOf(f, h, t) \in Seq(Byte)
         /\ Len(ContentOf(f, h, t)) = Used(h, t)
         /\ \A i \in 1 .. Used(h, t) :
              /\ ContentOf(f, h, t)[i] = f[Slot(t, i)]
              /\ Slot(t, i) \in 0 .. INTQ_BUFSIZE - 1
<1> DEFINE n == Used(h, t)
<1>1. (h - t) % INTQ_BUFSIZE = n /\ n \in 0 .. INTQ_BUFSIZE - 1
  <2>1. h - t \in 1 - INTQ_BUFSIZE .. 2 * INTQ_BUFSIZE - 1 /\ h - t < INTQ_BUFSIZE
    OBVIOUS
  <2>2. (h - t) % INTQ_BUFSIZE = IF h - t < 0 THEN h - t + INTQ_BUFSIZE ELSE h - t
    BY <2>1, Wrapped
  <2> QED
    BY <2>2 DEF Used
<1>2. ASSUME NEW i \in 1 .. n
      PROVE  /\ (t + i - 1) % INTQ_BUFSIZE = Slot(t, i)
             /\ Slot(t, i) \in 0 .. INTQ_BUFSIZE - 1
  <2> HIDE DEF n
  <2>1. /\ t + i - 1 \in 1 - INTQ_BUFSIZE .. 2 * INTQ_BUFSIZE - 1
        /\ ~(t + i - 1 < 0)
    BY <1>1
  <2>2. (t + i - 1) % INTQ_BUFSIZE
          = IF t + i - 1 < INTQ_BUFSIZE THEN t + i - 1 ELSE t + i - 1 - INTQ_BUFSIZE
    <3> DEFINE x == t + i - 1
    <3>1. x \in 1 - INTQ_BUFSIZE .. 2 * INTQ_BUFSIZE - 1 /\ ~(x < 0)
      BY <2>1
    <3> HIDE DEF x
    <3>2. x % INTQ_BUFSIZE = IF x < INTQ_BUFSIZE THEN x ELSE x - INTQ_BUFSIZE
      BY <3>1, Wrapped
    <3> QED
      BY <3>2 DEF x
  <2> QED
    BY <1>1, <2>2 DEF Slot
<1>3. \A i \in 1 .. n : f[Slot(t, i)] \in Byte
  BY <1>2
<1> DEFINE c == [i \in 1 .. n |-> f[Slot(t, i)]]
<1>4. ContentOf(f, h, t) = c
  BY <1>1, <1>2 DEF ContentOf
<1> HIDE DEF n
<1>5. c \in Seq(Byte) /\ Len(c) = n /\ \A i \in 1 .. n : c[i] = f[Slot(t, i)]
  BY <1>1, <1>3
<1> HIDE DEF c
<1>6. \A i \in 1 .. n : ContentOf(f, h, t)[i] = f[Slot(t, i)]
  BY <1>4, <1>5
<1> USE DEF n
<1> QED
  BY <1>1, <1>2, <1>4, <1>5, <1>6

LEMMA SlotOf ==
  ASSUME NEW f \in [0 .. INTQ_BUFSIZE - 1 -> Byte],
         NEW h \in 0 .. INTQ_BUFSIZE - 1, NEW t \in 0 .. INTQ_BUFSIZE - 1,
         NEW i \in 1 .. Used(h, t)
  PROVE  /\ ContentOf(f, h, t)[i] = f[Slot(t, i)]
         /\ Slot(t, i) \in 0 .. INTQ_BUFSIZE - 1
BY Slots

(* The queue before and after a step.                                      *)
LEMMA ContentIs ==
  ASSUME RingOK, RingOK'
  PROVE  /\ Used(head, tail) \in 0 .. INTQ_BUFSIZE - 1
         /\ Content \in Seq(Byte) /\ Len(Content) = Used(head, tail)
         /\ \A i \in 1 .. Used(head, tail) : Content[i] = buf[Slot(tail, i)]
         /\ Used(head', tail') \in 0 .. INTQ_BUFSIZE - 1
         /\ Content' \in Seq(Byte) /\ Len(Content') = Used(head', tail')
         /\ \A i \in 1 .. Used(head', tail') : Content'[i] = buf'[Slot(tail', i)]
<1>1. /\ Content = ContentOf(buf, head, tail)
      /\ Content' = ContentOf(buf', head', tail')
  BY DEF Content, Count, ContentOf
<1>2. /\ buf \in [0 .. INTQ_BUFSIZE - 1 -> Byte]
      /\ head \in 0 .. INTQ_BUFSIZE - 1 /\ tail \in 0 .. INTQ_BUFSIZE - 1
      /\ buf' \in [0 .. INTQ_BUFSIZE - 1 -> Byte]
      /\ head' \in 0 .. INTQ_BUFSIZE - 1 /\ tail' \in 0 .. INTQ_BUFSIZE - 1
  BY DEF RingOK
<1>3. ASSUME NEW i \in 1 .. Used(head, tail)
      PROVE  Content[i] = buf[Slot(tail, i)]
  BY <1>1, <1>2, SlotOf
<1>4. ASSUME NEW i \in 1 .. Used(head', tail')
      PROVE  Content'[i] = buf'[Slot(tail', i)]
  BY <1>1, <1>2, SlotOf
<1>5. /\ Used(head, tail) \in 0 .. INTQ_BUFSIZE - 1
      /\ Content \in Seq(Byte) /\ Len(Content) = Used(head, tail)
  BY <1>1, <1>2, Slots
<1>6. /\ Used(head', tail') \in 0 .. INTQ_BUFSIZE - 1
      /\ Content' \in Seq(Byte) /\ Len(Content') = Used(head', tail')
  BY <1>1, <1>2, Slots
<1> QED
  BY <1>3, <1>4, <1>5, <1>6

(* A byte is taken from the front of the queue.                            *)
LEMMA TakeIsGet ==
  ASSUME RingOK, take
  PROVE  Queue!Get
<1> DEFINE n == Used(head, tail)
           m == Used(head', tail')
<1>1. RingOK'
  BY TakeStep
<1>2. /\ n \in 0 .. INTQ_BUFSIZE - 1 /\ Content \in Seq(Byte) /\ Len(Content) = n
      /\ \A i \in 1 .. n : Content[i] = buf[Slot(tail, i)]
      /\ Content' \in Seq(Byte) /\ Len(Content') = m
      /\ \A i \in 1 .. m : Content'[i] = buf'[Slot(tail', i)]
  BY <1>1, ContentIs
<1>3. /\ tail' = IF tail + 1 = INTQ_BUFSIZE THEN 0 ELSE tail + 1
      /\ head' = head /\ buf' = buf
  BY Advance DEF take, RingOK
<1>4. n > 0 /\ m = n - 1
  BY <1>3 DEF take, intq_empty, RingOK, Used
<1>5. \A i \in 1 .. n - 1 : Slot(tail', i) = Slot(tail, i + 1)
  BY <1>2, <1>3 DEF RingOK, Slot
<1> HIDE DEF n, m
<1>6. Content # <<>>
  BY <1>2, <1>4
<1>7. /\ Tail(Content) \in Seq(Byte) /\ Len(Tail(Content)) = n - 1
      /\ \A i \in 1 .. n - 1 : Tail(Content)[i] = Content[i + 1]
  BY <1>2, <1>6, HeadTailProperties
<1>8. ASSUME NEW i \in 1 .. n - 1
      PROVE  Content'[i] = Tail(Content)[i]
  <2>1. i \in 1 .. m /\ i + 1 \in 1 .. n
    BY <1>2, <1>4
  <2>2. Content'[i] = buf[Slot(tail, i + 1)]
    BY <1>2, <1>3, <1>5, <2>1
  <2> QED
    BY <1>2, <1>7, <2>1, <2>2
<1>9. Content' = Tail(Content)
  BY <1>2, <1>4, <1>7, <1>8, SeqEqual
<1> QED
  BY <1>6, <1>9 DEF Queue!Get

(* A byte is stored at the end of a queue that is not full.                *)
LEMMA StoreIsPut ==
  ASSUME RingOK, NEW b \in Byte, store(b)
  PROVE  Queue!Put(b)
<1> DEFINE n == Used(head, tail)
           m == Used(head', tail')
<1>1. RingOK'
  BY StoreStep
<1>2. /\ n \in 0 .. INTQ_BUFSIZE - 1 /\ Content \in Seq(Byte) /\ Len(Content) = n
      /\ \A i \in 1 .. n : Content[i] = buf[Slot(tail, i)]
      /\ Content' \in Seq(Byte) /\ Len(Content') = m
      /\ \A i \in 1 .. m : Content'[i] = buf'[Slot(tail', i)]
  BY <1>1, ContentIs
<1>3. /\ head' = IF head + 1 = INTQ_BUFSIZE THEN 0 ELSE head + 1
      /\ head' # tail /\ tail' = tail
      /\ buf' = [buf EXCEPT ![head] = b]
  BY Advance DEF store, RingOK, intq_full
<1>4. n < INTQ_BUFSIZE - 1 /\ m = n + 1
  BY <1>3 DEF RingOK, Used
<1>5. /\ \A i \in 1 .. n : /\ Slot(tail, i) # head
                           /\ Slot(tail, i) \in 0 .. INTQ_BUFSIZE - 1
      /\ Slot(tail, n + 1) = head
  BY DEF RingOK, Slot, Used
<1> HIDE DEF n, m
<1>6. ASSUME NEW i \in 1 .. n
      PROVE  Content'[i] = Content[i]
  <2>1. i \in 1 .. m
    BY <1>2, <1>4
  <2> QED
    BY <1>2, <1>3, <1>5, <2>1 DEF RingOK
<1>7. Content'[n + 1] = b
  <2>1. n + 1 \in 1 .. m
    BY <1>2, <1>4
  <2>2. Content'[n + 1] = buf'[head]
    BY <1>2, <1>3, <1>5, <2>1
  <2> QED
    BY <1>3, <2>2 DEF RingOK
<1>8. /\ Append(Content, b) \in Seq(Byte) /\ Len(Append(Content, b)) = n + 1
      /\ \A i \in 1 .. n : Append(Content, b)[i] = Content[i]
      /\ Append(Content, b)[n + 1] = b
  BY <1>2, AppendProperties
<1>9. \A i \in 1 .. n + 1 : Content'[i] = Append(Content, b)[i]
  BY <1>2, <1>6, <1>7, <1>8
<1>10. Content' = Append(Content, b)
  BY <1>2, <1>4, <1>8, <1>9, SeqEqual
<1> QED
  BY <1>2, <1>4, <1>10 DEF Queue!Put

(* Whatever its users and the interrupt handler do, and in any order, the  *)
(* ring of intq.c is a first-in first-out queue of INTQ_BUFSIZE - 1 bytes: *)
(* none is lost, repeated or overwritten.                                  *)
THEOREM RingIsFifo == Spec => ImplementsFifo
<1>1. Init => Queue!Init
  <2> SUFFICES ASSUME Init PROVE Content = <<>>
    BY DEF Queue!Init
  <2>1. RingOK /\ Used(head, tail) = 0
    BY IntQueueAssumption DEF Init, RingOK, Used
  <2>2. Content = ContentOf(buf, head, tail)
    BY DEF Content, Count, ContentOf
  <2>3. Content \in Seq(Byte) /\ Len(Content) = 0
    BY <2>1, <2>2, Slots DEF RingOK
  <2> QED
    BY <2>3, EmptySeq
<1>2. IInv /\ [Next]_vars => [Queue!Next]_Content
  <2> SUFFICES ASSUME IInv, [Next]_vars PROVE [Queue!Next]_Content
    OBVIOUS
  <2>1. RingOK
    BY DEF IInv, TypeOK, RingOK
  <2>2. UNCHANGED ring => UNCHANGED Content
    BY DEF ring, Content, Count
  <2>3. ASSUME NEW t \in Thread, Transfer(t) PROVE Queue!Next
    BY <2>1, <2>3, TakeIsGet, StoreIsPut DEF Transfer, Queue!Next
  <2>4. CASE \E t \in Thread : Enter(t)
    BY <2>2, <2>3, <2>4 DEF Enter, queue_for_lock
  <2>5. CASE \E t \in Thread : LockWoken(t)
    BY <2>2, <2>5 DEF LockWoken, queue_for_lock
  <2>6. CASE \E t \in Thread : WaitWoken(t)
    BY <2>2, <2>3, <2>6 DEF WaitWoken
  <2>7. CASE Interrupt
    BY <2>1, <2>7, TakeIsGet, StoreIsPut
    DEF Interrupt, InterruptGet, InterruptPut, Queue!Next
  <2>8. CASE UNCHANGED vars
    BY <2>2, <2>8 DEF vars
  <2> QED
    BY <2>4, <2>5, <2>6, <2>7, <2>8 DEF Next, Call
<1> QED
  BY <1>1, <1>2, Invariance, PTL DEF Spec, ImplementsFifo, Queue!Spec
=============================================================================
