----------------------------- MODULE PallocProof -----------------------------
(***************************************************************************)
(* Proofs about Palloc for pools of any size and any set of threads.       *)
(***************************************************************************)
EXTENDS Palloc, TLAPS

(* The initial state satisfies the invariant.                              *)
LEMMA InitInvariant == Init => IInv
  BY PallocAssumption
  DEF Init, IInv, TypeOK, NoSharing, UsedIsOwned, LockHeld, TestedFree,
      PassedOver, FreesOwn, Page, Group

(* What Goto() and Return() do, thread by thread.                          *)
LEMMA GotoFacts ==
  ASSUME TypeOK, NEW t \in Thread, NEW l \in {"out", "scan", "flip", "free"},
         NEW i \in Nat, NEW n \in Nat, Goto(t, l, i, n)
  PROVE  /\ pc' \in [Thread -> {"out", "scan", "flip", "free"}]
         /\ idx' \in [Thread -> Nat] /\ done' \in [Thread -> Nat]
         /\ pc'[t] = l /\ idx'[t] = i /\ done'[t] = n
         /\ \A u \in Thread \ {t} : pc'[u] = pc[u] /\ idx'[u] = idx[u] /\ done'[u] = done[u]
  BY DEF TypeOK, Goto

(* Taking the lock.                                                        *)
LEMMA GetStep ==
  ASSUME IInv, NEW t \in Thread, Get(t) PROVE IInv'
<1>1. Goto(t, "scan", 0, 0)
  BY DEF Get
<1>2. /\ page_cnt' \in [Thread -> Nat]
      /\ \A u \in Thread \ {t} : page_cnt'[u] = page_cnt[u]
      /\ holder = NULL /\ holder' = t /\ pc[t] = "out"
      /\ used_map' = used_map /\ owned' = owned
      /\ free_then' = {p \in Page : ~used_map[p]}
  BY PallocAssumption DEF Get, IInv, TypeOK
<1>3. TypeOK' /\ LockHeld' /\ NoSharing' /\ UsedIsOwned'
  BY <1>1, <1>2, GotoFacts, PallocAssumption DEF IInv, TypeOK, LockHeld, NoSharing, UsedIsOwned
<1>4. TestedFree'
  BY <1>1, <1>2, GotoFacts, PallocAssumption DEF IInv, TypeOK, LockHeld, TestedFree, Group
<1>5. PassedOver'
  BY SMTT(30), <1>1, <1>2, GotoFacts, PallocAssumption DEF IInv, TypeOK, LockHeld, PassedOver
<1>6. FreesOwn'
  BY SMTT(30), <1>1, <1>2, GotoFacts DEF IInv, FreesOwn
<1> QED
  BY <1>3, <1>4, <1>5, <1>6 DEF IInv

(* Testing one bit.                                                        *)
LEMMA ScanStep ==
  ASSUME IInv, NEW t \in Thread, Scan(t) PROVE IInv'
<1> DEFINE p == idx[t] + done[t]
<1>1. /\ idx[t] \in Nat /\ done[t] \in Nat /\ page_cnt[t] \in Nat /\ PageCnt \in Nat
      /\ pc[t] = "scan" /\ done[t] < page_cnt[t] /\ idx[t] + page_cnt[t] <= PageCnt
      /\ UNCHANGED <<used_map, holder, owned, page_cnt, free_then>>
  BY PallocAssumption DEF Scan, IInv, TypeOK
<1>2. p \in Page /\ p \in Group(idx[t], page_cnt[t])
  BY <1>1 DEF Page, Group
<1>3. \/ used_map[p] /\ Goto(t, "scan", idx[t] + 1, 0)
      \/ ~used_map[p] /\ Goto(t, "scan", idx[t], done[t] + 1)
  BY DEF Scan
<1>4. /\ pc' = pc
      /\ idx' \in [Thread -> Nat] /\ done' \in [Thread -> Nat]
      /\ \A u \in Thread \ {t} : idx'[u] = idx[u] /\ done'[u] = done[u]
  BY <1>1, <1>3 DEF IInv, TypeOK, Goto
<1>5. TypeOK' /\ LockHeld' /\ NoSharing' /\ UsedIsOwned'
  BY <1>1, <1>4 DEF IInv, TypeOK, LockHeld, NoSharing, UsedIsOwned
<1>6. TestedFree'
  <2>1. ASSUME NEW u \in Thread \ {t}
        PROVE  /\ pc'[u] # "scan" /\ pc'[u] # "flip"
    BY <1>1, <1>4 DEF IInv, LockHeld
  <2>2. CASE used_map[p]
    BY <1>1, <1>3, <1>4, <2>1, <2>2 DEF TestedFree, Group, Goto, IInv, TypeOK
  <2>3. CASE ~used_map[p]
    <3>1. idx'[t] = idx[t] /\ done'[t] = done[t] + 1
      BY <1>1, <1>3, <2>3 DEF Goto, IInv, TypeOK
    <3>2. \A q \in Group(idx[t], done[t] + 1) : q \in Group(idx[t], done[t]) \/ q = p
      BY <1>1 DEF Group
    <3>3. \A q \in Group(idx[t], done[t]) : q \in Page /\ ~used_map[q]
      BY <1>1 DEF IInv, TestedFree
    <3> QED
      BY <1>1, <1>2, <1>4, <2>1, <2>3, <3>1, <3>2, <3>3 DEF TestedFree
  <2> QED
    BY <2>2, <2>3
<1>7. PassedOver'
  <2>1. ASSUME NEW u \in Thread \ {t} PROVE pc'[u] # "scan"
    BY <1>1, <1>4 DEF IInv, LockHeld
  <2>2. /\ \A q \in free_then : ~used_map[q]
        /\ \A i \in 0 .. idx[t] - 1 : ~ (Group(i, page_cnt[t]) \subseteq free_then)
    BY <1>1 DEF IInv, PassedOver
  <2>3. CASE used_map[p]
    <3>1. idx'[t] = idx[t] + 1
      BY <1>1, <1>3, <2>3 DEF Goto, IInv, TypeOK
    <3>2. ~ (Group(idx[t], page_cnt[t]) \subseteq free_then)
      BY <1>2, <2>2, <2>3
    <3>3. \A i \in 0 .. (idx[t] + 1) - 1 : i \in 0 .. idx[t] - 1 \/ i = idx[t]
      BY <1>1
    <3> QED
      BY <1>1, <2>1, <2>2, <3>1, <3>2, <3>3 DEF PassedOver
  <2>4. CASE ~used_map[p]
    <3>1. idx'[t] = idx[t]
      BY <1>1, <1>3, <2>4 DEF Goto, IInv, TypeOK
    <3> QED
      BY <1>1, <2>1, <2>2, <3>1 DEF PassedOver
  <2> QED
    BY <2>3, <2>4
<1>8. FreesOwn'
  BY <1>1, <1>4 DEF IInv, FreesOwn
<1> QED
  BY <1>5, <1>6, <1>7, <1>8 DEF IInv

(* Setting one bit.                                                        *)
LEMMA FlipStep ==
  ASSUME IInv, NEW t \in Thread, Flip(t) PROVE IInv'
<1> DEFINE p == idx[t] + done[t]
<1>1. /\ idx[t] \in Nat /\ done[t] \in Nat /\ page_cnt[t] \in Nat /\ PageCnt \in Nat
      /\ pc[t] = "flip" /\ done[t] < page_cnt[t]
      /\ Goto(t, "flip", idx[t], done[t] + 1)
      /\ UNCHANGED <<holder, page_cnt, free_then>>
  BY PallocAssumption DEF Flip, IInv, TypeOK
<1>2. p \in Page /\ ~used_map[p] /\ \A u \in Thread : p \notin owned[u]
  <2>1. p \in Group(idx[t] + done[t], page_cnt[t] - done[t])
    BY <1>1 DEF Group
  <2> QED
    BY <1>1, <2>1 DEF IInv, TestedFree, UsedIsOwned
<1>3. /\ used_map' \in [Page -> BOOLEAN] /\ used_map'[p]
      /\ \A q \in Page \ {p} : used_map'[q] = used_map[q]
      /\ owned' \in [Thread -> SUBSET Page] /\ owned'[t] = owned[t] \cup {p}
      /\ \A u \in Thread \ {t} : owned'[u] = owned[u]
  BY <1>2 DEF Flip, IInv, TypeOK
<1>4. /\ pc' = pc /\ idx' = idx /\ done'[t] = done[t] + 1
      /\ done' \in [Thread -> Nat]
      /\ \A u \in Thread \ {t} : done'[u] = done[u]
  BY <1>1 DEF IInv, TypeOK, Goto
<1>5. TypeOK'
  BY <1>1, <1>3, <1>4 DEF IInv, TypeOK
<1>6. NoSharing'
  BY <1>2, <1>3 DEF IInv, NoSharing
<1>7. UsedIsOwned'
  <2>1. ASSUME NEW q \in Page \ {p} PROVE used_map'[q] <=> \E u \in Thread : q \in owned'[u]
    <3>1. \A u \in Thread : q \in owned'[u] <=> q \in owned[u]
      BY <1>3
    <3> QED
      BY <1>3, <3>1 DEF IInv, UsedIsOwned
  <2> QED
    BY <1>3, <2>1 DEF UsedIsOwned
<1>8. LockHeld'
  BY <1>1, <1>4 DEF IInv, LockHeld
<1>9. \A u \in Thread \ {t} : pc'[u] # "scan" /\ pc'[u] # "flip"
  BY <1>1, <1>4 DEF IInv, LockHeld
<1>10. TestedFree'
  <2>1. ASSUME NEW q \in Group(idx'[t] + done'[t], page_cnt'[t] - done'[t])
        PROVE  q \in Page /\ ~used_map'[q]
    <3>1. q \in Group(idx[t] + done[t], page_cnt[t] - done[t]) /\ q # p
      BY <1>1, <1>4 DEF Group
    <3> QED
      BY <1>1, <1>3, <3>1 DEF IInv, TestedFree
  <2>2. done'[t] <= page_cnt'[t]
    BY <1>1, <1>4
  <2> QED
    BY <1>1, <1>4, <1>9, <2>1, <2>2 DEF TestedFree
<1>11. PassedOver'
  BY <1>1, <1>4, <1>9 DEF PassedOver
<1>12. FreesOwn'
  BY <1>1, <1>3, <1>4 DEF IInv, FreesOwn
<1> QED
  BY <1>5, <1>6, <1>7, <1>8, <1>10, <1>11, <1>12 DEF IInv

(* Clearing one bit.                                                       *)
LEMMA ClearStep ==
  ASSUME IInv, NEW t \in Thread, Clear(t) PROVE IInv'
<1> DEFINE p == idx[t] + done[t]
<1>1. /\ idx[t] \in Nat /\ done[t] \in Nat /\ page_cnt[t] \in Nat /\ PageCnt \in Nat
      /\ pc[t] = "free" /\ done[t] < page_cnt[t]
      /\ Goto(t, "free", idx[t], done[t] + 1)
      /\ UNCHANGED <<holder, page_cnt, free_then>>
  BY PallocAssumption DEF Clear, IInv, TypeOK
<1>2. p \in owned[t] /\ p \in Page
  <2>1. p \in Group(idx[t] + done[t], page_cnt[t] - done[t])
    BY <1>1 DEF Group
  <2> QED
    BY <1>1, <2>1 DEF IInv, FreesOwn, TypeOK
<1>3. /\ used_map' \in [Page -> BOOLEAN] /\ ~used_map'[p]
      /\ \A q \in Page \ {p} : used_map'[q] = used_map[q]
      /\ owned' \in [Thread -> SUBSET Page] /\ owned'[t] = owned[t] \ {p}
      /\ \A u \in Thread \ {t} : owned'[u] = owned[u]
  BY <1>2 DEF Clear, IInv, TypeOK
<1>4. /\ pc' = pc /\ idx' = idx /\ done'[t] = done[t] + 1
      /\ done' \in [Thread -> Nat]
      /\ \A u \in Thread \ {t} : done'[u] = done[u]
  BY <1>1 DEF IInv, TypeOK, Goto
<1>5. TypeOK'
  BY <1>1, <1>3, <1>4 DEF IInv, TypeOK
<1>6. NoSharing'
  BY <1>3 DEF IInv, NoSharing
<1>7. UsedIsOwned'
  <2>1. ASSUME NEW q \in Page \ {p} PROVE used_map'[q] <=> \E u \in Thread : q \in owned'[u]
    <3>1. \A u \in Thread : q \in owned'[u] <=> q \in owned[u]
      BY <1>3
    <3> QED
      BY <1>3, <3>1 DEF IInv, UsedIsOwned
  <2>2. \A u \in Thread : p \notin owned'[u]
    BY <1>2, <1>3 DEF IInv, NoSharing
  <2> QED
    BY <1>3, <2>1, <2>2 DEF UsedIsOwned
<1>8. LockHeld'
  BY <1>1, <1>4 DEF IInv, LockHeld
<1>9. \A q \in Page : ~used_map[q] => ~used_map'[q]
  BY <1>3
<1>10. TestedFree'
  <2>1. \A u \in Thread : pc'[u] \in {"scan", "flip"} => pc[u] = pc'[u] /\ done'[u] = done[u]
    BY <1>1, <1>4
  <2> QED
    BY <1>1, <1>4, <1>9, <2>1 DEF IInv, TestedFree
<1>11. PassedOver'
  <2>1. \A q \in free_then : q \in Page
    BY DEF IInv, TypeOK
  <2> QED
    BY <1>1, <1>4, <1>9, <2>1 DEF IInv, PassedOver
<1>12. FreesOwn'
  <2>1. ASSUME NEW q \in Group(idx'[t] + done'[t], page_cnt'[t] - done'[t])
        PROVE  q \in owned'[t]
    <3>1. q \in Group(idx[t] + done[t], page_cnt[t] - done[t]) /\ q # p
      BY <1>1, <1>4 DEF Group
    <3> QED
      BY <1>1, <1>3, <3>1 DEF IInv, FreesOwn
  <2>2. done'[t] <= page_cnt'[t]
    BY <1>1, <1>4
  <2>3. \A u \in Thread \ {t} : owned'[u] = owned[u] /\ done'[u] = done[u]
    BY <1>3, <1>4
  <2> QED
    BY <1>1, <1>4, <2>1, <2>2, <2>3 DEF IInv, FreesOwn
<1> QED
  BY <1>5, <1>6, <1>7, <1>8, <1>10, <1>11, <1>12 DEF IInv

(* Every step preserves the invariant.                                     *)
LEMMA StepInvariant == IInv /\ [Next]_vars => IInv'
<1> SUFFICES ASSUME IInv, [Next]_vars PROVE IInv'
  OBVIOUS
<1>1. CASE UNCHANGED vars
  BY <1>1 DEF vars, callVars, IInv, TypeOK, NoSharing, UsedIsOwned, LockHeld,
              TestedFree, PassedOver, FreesOwn
<1>2. ASSUME NEW t \in Thread, ScanFails(t) PROVE IInv'
  BY <1>2, PallocAssumption
  DEF IInv, ScanFails, Return, Goto, TypeOK, NoSharing, UsedIsOwned, LockHeld,
      TestedFree, PassedOver, FreesOwn
<1>3. ASSUME NEW t \in Thread, ScanFinds(t) PROVE IInv'
  BY <1>3, PallocAssumption
  DEF IInv, ScanFinds, Goto, TypeOK, NoSharing, UsedIsOwned, LockHeld,
      TestedFree, PassedOver, FreesOwn, Group
<1>4. ASSUME NEW t \in Thread, GetReturns(t) PROVE IInv'
  BY <1>4, PallocAssumption
  DEF IInv, GetReturns, Return, Goto, TypeOK, NoSharing, UsedIsOwned, LockHeld,
      TestedFree, PassedOver, FreesOwn
<1>5. ASSUME NEW t \in Thread, Free(t) PROVE IInv'
  BY SMTT(30), <1>5, PallocAssumption
  DEF IInv, Free, Goto, TypeOK, NoSharing, UsedIsOwned, LockHeld,
      TestedFree, PassedOver, FreesOwn, Group, Page
<1>6. ASSUME NEW t \in Thread, FreeReturns(t) PROVE IInv'
  BY <1>6, PallocAssumption
  DEF IInv, FreeReturns, Return, Goto, TypeOK, NoSharing, UsedIsOwned, LockHeld,
      TestedFree, PassedOver, FreesOwn
<1> QED
  BY <1>1, <1>2, <1>3, <1>4, <1>5, <1>6, GetStep, ScanStep, FlipStep, ClearStep DEF Next

(* The inductive invariant holds in every reachable state.                 *)
THEOREM Invariance == Spec => []IInv
<1>1. Init => IInv
  BY InitInvariant
<1>2. IInv /\ [Next]_vars => IInv'
  BY StepInvariant
<1> QED
  BY <1>1, <1>2, PTL DEF Spec

(* palloc_get_multiple() never gives one page to two threads.              *)
THEOREM PagesAreNotShared == Spec => []NoSharing
<1>1. IInv => NoSharing
  BY DEF IInv
<1> QED
  BY <1>1, Invariance, PTL

(* The bitmap tells exactly which pages are in use.                        *)
THEOREM BitmapIsExact == Spec => []UsedIsOwned
<1>1. IInv => UsedIsOwned
  BY DEF IInv
<1> QED
  BY <1>1, Invariance, PTL

(* The assertion in palloc_free_multiple() never fails.                    *)
THEOREM FreedPagesAreUsed == Spec => []FreesUsedPages
<1>1. IInv => FreesUsedPages
  BY DEF IInv, TypeOK, FreesOwn, UsedIsOwned, FreesUsedPages
<1> QED
  BY <1>1, Invariance, PTL

(* palloc_get_multiple() fails only if there was no free group when it     *)
(* took the lock.                                                          *)
THEOREM FailuresAreHonest == Spec => FailsOnlyWhenFull
<1> DEFINE Honest ==
      \A t \in Thread :
        pc[t] = "scan" /\ pc'[t] = "out" =>
          ~ \E i \in Page : i + page_cnt[t] <= PageCnt
                            /\ Group(i, page_cnt[t]) \subseteq free_then
<1>1. IInv /\ [Next]_vars => [Honest]_vars
  <2> SUFFICES ASSUME IInv, Next, NEW t \in Thread, pc[t] = "scan", pc'[t] = "out",
                      NEW i \in Page, i + page_cnt[t] <= PageCnt
               PROVE  ~ (Group(i, page_cnt[t]) \subseteq free_then)
    OBVIOUS
  <2>1. ScanFails(t)
    <3>1. pc \in [Thread -> {"out", "scan", "flip", "free"}]
      BY DEF IInv, TypeOK
    <3>2. ASSUME NEW u \in Thread, Get(u) \/ Free(u) PROVE FALSE
      BY <3>1, <3>2 DEF Get, Free, Goto
    <3>3. ASSUME NEW u \in Thread, Scan(u) \/ ScanFinds(u) PROVE FALSE
      BY <3>1, <3>3 DEF Scan, ScanFinds, Goto
    <3>4. ASSUME NEW u \in Thread, Flip(u) \/ Clear(u) PROVE FALSE
      BY <3>1, <3>4 DEF Flip, Clear, Goto
    <3>5. ASSUME NEW u \in Thread, GetReturns(u) \/ FreeReturns(u) PROVE FALSE
      BY <3>1, <3>5 DEF GetReturns, FreeReturns, Goto, Return
    <3>6. ASSUME NEW u \in Thread, ScanFails(u) PROVE u = t
      BY <3>1, <3>6 DEF ScanFails, Goto, Return
    <3> QED
      BY <3>2, <3>3, <3>4, <3>5, <3>6 DEF Next
  <2>2. i \in 0 .. idx[t] - 1
    BY <2>1, PallocAssumption DEF ScanFails, IInv, TypeOK, Page
  <2> QED
    BY <2>2 DEF IInv, PassedOver
<1> QED
  BY <1>1, Invariance, PTL DEF Spec, FailsOnlyWhenFull
=============================================================================
