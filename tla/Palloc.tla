-------------------------------- MODULE Palloc -------------------------------
(***************************************************************************)
(* threads/palloc.c: one pool of the page allocator.  Getting pages scans  *)
(* and sets the bitmap of used pages under the pool's lock; freeing them   *)
(* clears their bits without it.  Single bits are read and written         *)
(* atomically (lib/kernel/bitmap.c), groups of bits one after the other,   *)
(* so that threads interleave at every bit.                                *)
(*                                                                         *)
(* A thread owns a page from the moment its bit is set for it to the       *)
(* moment its bit is cleared again.                                        *)
(***************************************************************************)
EXTENDS Integers

CONSTANTS
  Thread,
  NULL,   \* no thread
  PageCnt \* pages in the pool

Page == 0 .. PageCnt - 1

ASSUME PallocAssumption == PageCnt \in Nat /\ NULL \notin Thread

VARIABLES
  used_map, \* the bitmap
  holder,   \* of the pool's lock
  owned,    \* pages of each thread
  pc,       \* "out", "scan", "flip" (getting pages), "free"
  page_cnt, \* size of the group that is asked for or freed
  idx,      \* first page of the group that is tested, set or cleared
  done,     \* number of its bits dealt with
  free_then \* pages that were free when the lock was taken

callVars == <<pc, page_cnt, idx, done>>
vars == <<used_map, holder, owned, callVars, free_then>>

Init ==
  /\ used_map = [p \in Page |-> FALSE]
  /\ holder = NULL
  /\ owned = [t \in Thread |-> {}]
  /\ pc = [t \in Thread |-> "out"]
  /\ page_cnt = [t \in Thread |-> 0]
  /\ idx = [t \in Thread |-> 0]
  /\ done = [t \in Thread |-> 0]
  /\ free_then = {}

Group(i, n) == i .. i + n - 1

(* What t does next, at which group and bit of the group.                  *)
Goto(t, l, i, n) ==
  /\ pc' = [pc EXCEPT ![t] = l]
  /\ idx' = [idx EXCEPT ![t] = i]
  /\ done' = [done EXCEPT ![t] = n]

Return(t) ==
  /\ Goto(t, "out", 0, 0)
  /\ page_cnt' = [page_cnt EXCEPT ![t] = 0]

-----------------------------------------------------------------------------
(* palloc_get_multiple().                                                  *)

(* Mutant: the bitmap is scanned without the lock.                         *)
Get_unlocked(t) ==
  /\ pc[t] = "out"
  /\ holder' = t
  /\ \E n \in 1 .. PageCnt : page_cnt' = [page_cnt EXCEPT ![t] = n]
  /\ Goto(t, "scan", 0, 0)
  /\ free_then' = {p \in Page : ~used_map[p]}
  /\ UNCHANGED <<used_map, owned>>

Get(t) ==
  /\ pc[t] = "out" /\ holder = NULL
  /\ holder' = t
  /\ \E n \in 1 .. PageCnt : page_cnt' = [page_cnt EXCEPT ![t] = n]
  /\ Goto(t, "scan", 0, 0)
  /\ free_then' = {p \in Page : ~used_map[p]}
  /\ UNCHANGED <<used_map, owned>>

(* bitmap_scan(): there is room for the group at idx; test its next bit.   *)
Scan(t) ==
  /\ pc[t] = "scan" /\ done[t] < page_cnt[t] /\ idx[t] + page_cnt[t] <= PageCnt
  /\ IF used_map[idx[t] + done[t]]
     THEN Goto(t, "scan", idx[t] + 1, 0)
     ELSE Goto(t, "scan", idx[t], done[t] + 1)
  /\ UNCHANGED <<used_map, holder, owned, page_cnt, free_then>>

(* Mutant: the last place where the group would fit is not tried.          *)
ScanFails_early(t) ==
  /\ pc[t] = "scan" /\ idx[t] + page_cnt[t] >= PageCnt
  /\ holder' = NULL
  /\ free_then' = {}
  /\ Return(t)
  /\ UNCHANGED <<used_map, owned>>

(* No group was found: BITMAP_ERROR, and a null pointer.                   *)
ScanFails(t) ==
  /\ pc[t] = "scan" /\ idx[t] + page_cnt[t] > PageCnt
  /\ holder' = NULL
  /\ free_then' = {}
  /\ Return(t)
  /\ UNCHANGED <<used_map, owned>>

(* The whole group is free.                                                *)
ScanFinds(t) ==
  /\ pc[t] = "scan" /\ done[t] = page_cnt[t]
  /\ Goto(t, "flip", idx[t], 0)
  /\ UNCHANGED <<used_map, holder, owned, page_cnt, free_then>>

(* bitmap_set_multiple(): the next bit of the group is set.                *)
Flip(t) ==
  /\ pc[t] = "flip" /\ done[t] < page_cnt[t]
  /\ used_map' = [used_map EXCEPT ![idx[t] + done[t]] = TRUE]
  /\ owned' = [owned EXCEPT ![t] = @ \cup {idx[t] + done[t]}]
  /\ Goto(t, "flip", idx[t], done[t] + 1)
  /\ UNCHANGED <<holder, page_cnt, free_then>>

GetReturns(t) ==
  /\ pc[t] = "flip" /\ done[t] = page_cnt[t]
  /\ holder' = NULL
  /\ free_then' = {}
  /\ Return(t)
  /\ UNCHANGED <<used_map, owned>>

-----------------------------------------------------------------------------
(* palloc_free_multiple(), called for pages that the thread owns.          *)

Free(t) ==
  /\ pc[t] = "out"
  /\ \E i \in Page, n \in 1 .. PageCnt :
       /\ Group(i, n) \subseteq owned[t]
       /\ page_cnt' = [page_cnt EXCEPT ![t] = n]
       /\ Goto(t, "free", i, 0)
  /\ UNCHANGED <<used_map, holder, owned, free_then>>

(* Mutant: the bits are set, not cleared.                                  *)
Clear_sets(t) ==
  /\ pc[t] = "free" /\ done[t] < page_cnt[t]
  /\ used_map' = [used_map EXCEPT ![idx[t] + done[t]] = TRUE]
  /\ owned' = [owned EXCEPT ![t] = @ \ {idx[t] + done[t]}]
  /\ Goto(t, "free", idx[t], done[t] + 1)
  /\ UNCHANGED <<holder, page_cnt, free_then>>

(* Mutant: the range that is cleared is one page too long.                 *)
Clear_too_many(t) ==
  /\ pc[t] = "free" /\ done[t] <= page_cnt[t] /\ idx[t] + done[t] < PageCnt
  /\ used_map' = [used_map EXCEPT ![idx[t] + done[t]] = FALSE]
  /\ owned' = [owned EXCEPT ![t] = @ \ {idx[t] + done[t]}]
  /\ IF done[t] = page_cnt[t] THEN Return(t)
     ELSE Goto(t, "free", idx[t], done[t] + 1) /\ UNCHANGED page_cnt
  /\ UNCHANGED <<holder, free_then>>

(* bitmap_set_multiple(): the next bit of the group is cleared.            *)
Clear(t) ==
  /\ pc[t] = "free" /\ done[t] < page_cnt[t]
  /\ used_map' = [used_map EXCEPT ![idx[t] + done[t]] = FALSE]
  /\ owned' = [owned EXCEPT ![t] = @ \ {idx[t] + done[t]}]
  /\ Goto(t, "free", idx[t], done[t] + 1)
  /\ UNCHANGED <<holder, page_cnt, free_then>>

FreeReturns(t) ==
  /\ pc[t] = "free" /\ done[t] = page_cnt[t]
  /\ Return(t)
  /\ UNCHANGED <<used_map, holder, owned, free_then>>

Next ==
  \E t \in Thread :
    \/ Get(t) \/ Scan(t) \/ ScanFails(t) \/ ScanFinds(t) \/ Flip(t) \/ GetReturns(t)
    \/ Free(t) \/ Clear(t) \/ FreeReturns(t)

Spec == Init /\ [][Next]_vars

-----------------------------------------------------------------------------
(* Properties.                                                             *)

TypeOK ==
  /\ used_map \in [Page -> BOOLEAN]
  /\ holder \in Thread \cup {NULL}
  /\ owned \in [Thread -> SUBSET Page]
  /\ pc \in [Thread -> {"out", "scan", "flip", "free"}]
  /\ page_cnt \in [Thread -> Nat]
  /\ idx \in [Thread -> Nat]
  /\ done \in [Thread -> Nat]
  /\ free_then \subseteq Page

(* No page is given to two threads.                                        *)
NoSharing ==
  \A t, u \in Thread : t # u => owned[t] \cap owned[u] = {}

(* The bitmap tells exactly which pages are in use: none is lost and none  *)
(* is free while somebody owns it.                                         *)
UsedIsOwned ==
  \A p \in Page : used_map[p] <=> \E t \in Thread : p \in owned[t]

(* The assertion in palloc_free_multiple() (palloc.c:140): every page of a *)
(* group that is freed is in use until its own bit is cleared.             *)
FreesUsedPages ==
  \A t \in Thread : pc[t] = "free" =>
    \A p \in Group(idx[t] + done[t], page_cnt[t] - done[t]) :
      p \in Page /\ used_map[p]

(* A request fails only if the pool had no free group of that size when    *)
(* the lock was taken: pages freed meanwhile do not hide a group.          *)
FailsOnlyWhenFull ==
  [][\A t \in Thread :
       pc[t] = "scan" /\ pc'[t] = "out" =>
         ~ \E i \in Page : i + page_cnt[t] <= PageCnt
                           /\ Group(i, page_cnt[t]) \subseteq free_then]_vars

-----------------------------------------------------------------------------
(* The inductive invariant.                                                *)

(* Only the holder of the lock is getting pages.                           *)
LockHeld ==
  \A t \in Thread : pc[t] \in {"scan", "flip"} <=> holder = t

(* The bits already tested are still clear, those about to be set too.     *)
TestedFree ==
  \A t \in Thread :
    /\ pc[t] = "scan" => /\ done[t] <= page_cnt[t]
                         /\ done[t] > 0 => idx[t] + page_cnt[t] <= PageCnt
                         /\ \A p \in Group(idx[t], done[t]) : p \in Page /\ ~used_map[p]
    /\ pc[t] = "flip" => /\ done[t] <= page_cnt[t]
                         /\ \A p \in Group(idx[t] + done[t], page_cnt[t] - done[t]) :
                              p \in Page /\ ~used_map[p]

(* What was free when the lock was taken still is, and does not contain    *)
(* any of the groups passed over.                                          *)
PassedOver ==
  \A t \in Thread : pc[t] = "scan" =>
    /\ \A p \in free_then : ~used_map[p]
    /\ \A i \in 0 .. idx[t] - 1 : ~ (Group(i, page_cnt[t]) \subseteq free_then)

(* A thread frees its own pages.                                           *)
FreesOwn ==
  \A t \in Thread : pc[t] = "free" =>
    /\ done[t] <= page_cnt[t]
    /\ \A p \in Group(idx[t] + done[t], page_cnt[t] - done[t]) : p \in owned[t]

IInv ==
  /\ TypeOK /\ NoSharing /\ UsedIsOwned
  /\ LockHeld /\ TestedFree /\ PassedOver /\ FreesOwn
=============================================================================
