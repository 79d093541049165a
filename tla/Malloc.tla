-------------------------------- MODULE Malloc -------------------------------
(***************************************************************************)
(* threads/malloc.c: the block allocator.  A descriptor d manages blocks   *)
(* of one size, blocks_per_arena[d] of them in each page it has got from   *)
(* the page allocator.  Everything a call does to a descriptor happens     *)
(* under the descriptor's lock, so a call is one action.  The page         *)
(* allocator is the set of pages it has left; Palloc models it.            *)
(***************************************************************************)
EXTENDS Integers, Sequences, FiniteSets, SequencesExt

CONSTANTS
  PageCnt,          \* pages of the kernel pool
  Desc,             \* descriptors, one per block size
  BIG,              \* marks the arena of a big block: a null descriptor
  blocks_per_arena  \* of each descriptor

Page == 0 .. PageCnt - 1

ASSUME MallocAssumption ==
  /\ PageCnt \in Nat /\ BIG \notin Desc
  /\ blocks_per_arena \in [Desc -> Nat \ {0}]

VARIABLES
  free_pages, \* pages left in the page allocator
  arena,      \* arenas by their first page: [desc, free_cnt]
  free_list,  \* of each descriptor: blocks <<page, index>>
  in_use      \* blocks handed out; <<page, 0>> for a big block

vars == <<free_pages, arena, free_list, in_use>>

Init ==
  /\ free_pages = Page
  /\ arena = <<>>
  /\ free_list = [d \in Desc |-> <<>>]
  /\ in_use = {}

Group(i, n) == i .. i + n - 1

(* The blocks of page p in the order of their addresses.                   *)
Blocks(d, p) == [i \in 1 .. blocks_per_arena[d] |-> <<p, i - 1>>]

(* f with f[p] = v, and f without p.                                       *)
With(f, p, v) == [q \in DOMAIN f \cup {p} |-> IF q = p THEN v ELSE f[q]]
Without(f, p) == [q \in DOMAIN f \ {p} |-> f[q]]

(* The blocks of list that are not of page p: the others have been taken   *)
(* off the list by list_remove().                                          *)
Nth(K, k) == CHOOSE i \in K : Cardinality({j \in K : j <= i}) = k
Kept(list, p) ==
  LET K == {i \in DOMAIN list : list[i][1] # p}
  IN [k \in 1 .. Cardinality(K) |-> list[Nth(K, k)]]

(* The page that palloc_get_multiple(n) returns: the first that fits.      *)
FirstFit(n) ==
  {i \in Page : /\ Group(i, n) \subseteq free_pages
                /\ \A j \in 0 .. i - 1 : ~ (Group(j, n) \subseteq free_pages)}

-----------------------------------------------------------------------------
(* malloc() of a size that d manages, with a block on the free list.       *)
MallocBlock(d) ==
  /\ free_list[d] # <<>>
  /\ LET b == Head(free_list[d]) IN
       /\ in_use' = in_use \cup {b}
       /\ arena' = [arena EXCEPT ![b[1]].free_cnt = @ - 1]
  /\ free_list' = [free_list EXCEPT ![d] = Tail(@)]
  /\ UNCHANGED free_pages

(* malloc() with an empty free list: a new arena, whose first block is     *)
(* returned.                                                               *)
MallocArena(d) ==
  /\ free_list[d] = <<>>
  /\ \E p \in FirstFit(1) :
       /\ free_pages' = free_pages \ {p}
       /\ in_use' = in_use \cup {<<p, 0>>}
       /\ arena' = With(arena, p, [desc |-> d, free_cnt |-> blocks_per_arena[d] - 1])
       /\ free_list' = [free_list EXCEPT ![d] = Tail(Blocks(d, p))]

(* malloc() of a size no descriptor manages: n pages.                      *)
MallocBig(n) ==
  \E p \in FirstFit(n) :
    /\ free_pages' = free_pages \ Group(p, n)
    /\ in_use' = in_use \cup {<<p, 0>>}
    /\ arena' = With(arena, p, [desc |-> BIG, free_cnt |-> n])
    /\ UNCHANGED free_list

(* Mutant: an arena is given back but its blocks stay on the free list.    *)
Free_keeps_blocks(b) ==
  /\ b \in in_use
  /\ LET p == b[1]
         a == arena[p]
         list == <<b>> \o free_list[a.desc]
     IN /\ a.desc # BIG
        /\ IF a.free_cnt + 1 >= blocks_per_arena[a.desc]
           THEN /\ arena' = Without(arena, p)
                /\ free_pages' = free_pages \cup {p}
           ELSE /\ arena' = [arena EXCEPT ![p].free_cnt = @ + 1]
                /\ UNCHANGED free_pages
        /\ free_list' = [free_list EXCEPT ![a.desc] = list]
  /\ in_use' = in_use \ {b}

(* Mutant: an arena is given back when one of its blocks is still in use.  *)
Free_too_soon(b) ==
  /\ b \in in_use
  /\ LET p == b[1]
         a == arena[p]
         list == <<b>> \o free_list[a.desc]
     IN /\ a.desc # BIG
        /\ IF a.free_cnt + 2 >= blocks_per_arena[a.desc]
           THEN /\ arena' = Without(arena, p)
                /\ free_pages' = free_pages \cup {p}
                /\ free_list' = [free_list EXCEPT ![a.desc] = Kept(list, p)]
           ELSE /\ arena' = [arena EXCEPT ![p].free_cnt = @ + 1]
                /\ free_list' = [free_list EXCEPT ![a.desc] = list]
                /\ UNCHANGED free_pages
  /\ in_use' = in_use \ {b}

(* Mutant: an arena is never given back.                                   *)
Free_never_returns(b) ==
  /\ b \in in_use
  /\ arena[b[1]].desc # BIG
  /\ arena' = [arena EXCEPT ![b[1]].free_cnt = @ + 1]
  /\ free_list' = [free_list EXCEPT ![arena[b[1]].desc] = <<b>> \o @]
  /\ in_use' = in_use \ {b}
  /\ UNCHANGED free_pages

(* free() of a block that a descriptor manages: it becomes the first of    *)
(* the free list, and if its arena is now unused, all the arena's blocks   *)
(* leave the list and the page is given back.                              *)
Free(b) ==
  /\ b \in in_use
  /\ LET p == b[1]
         a == arena[p]
         list == <<b>> \o free_list[a.desc]
     IN /\ a.desc # BIG
        /\ IF a.free_cnt + 1 >= blocks_per_arena[a.desc]
           THEN /\ arena' = Without(arena, p)
                /\ free_pages' = free_pages \cup {p}
                /\ free_list' = [free_list EXCEPT ![a.desc] = Kept(list, p)]
           ELSE /\ arena' = [arena EXCEPT ![p].free_cnt = @ + 1]
                /\ free_list' = [free_list EXCEPT ![a.desc] = list]
                /\ UNCHANGED free_pages
  /\ in_use' = in_use \ {b}

(* Mutant: only the first page of a big block is given back.               *)
FreeBig_one_page(b) ==
  /\ b \in in_use /\ arena[b[1]].desc = BIG
  /\ free_pages' = free_pages \cup {b[1]}
  /\ arena' = Without(arena, b[1])
  /\ in_use' = in_use \ {b}
  /\ UNCHANGED free_list

(* free() of a big block: its pages are given back.                        *)
FreeBig(b) ==
  /\ b \in in_use /\ arena[b[1]].desc = BIG
  /\ free_pages' = free_pages \cup Group(b[1], arena[b[1]].free_cnt)
  /\ arena' = Without(arena, b[1])
  /\ in_use' = in_use \ {b}
  /\ UNCHANGED free_list

(* realloc() to another size is malloc(), a copy and free() in this order; *)
(* calloc() is malloc() and a fill: neither changes the state otherwise.   *)
Next ==
  \/ \E d \in Desc : MallocBlock(d) \/ MallocArena(d)
  \/ \E n \in 1 .. PageCnt : MallocBig(n)
  \/ \E b \in in_use : Free(b) \/ FreeBig(b)

Spec == Init /\ [][Next]_vars

-----------------------------------------------------------------------------
(* Properties.                                                             *)

Small == {p \in DOMAIN arena : arena[p].desc # BIG}

(* Types; a block is a pair of a page and an index.                        *)
TypeOK ==
  /\ free_pages \subseteq Page
  /\ DOMAIN arena \subseteq Page
  /\ \A p \in DOMAIN arena :
       arena[p].desc \in Desc \cup {BIG} /\ arena[p].free_cnt \in Nat
  /\ \A d \in Desc : \A i \in DOMAIN free_list[d] : free_list[d][i] \in Page \X Nat
  /\ in_use \subseteq Page \X Nat

(* The blocks of a descriptor's arenas are in use or on its free list,     *)
(* each block once: no block is handed out twice, none is lost, and none   *)
(* of an arena that was given back is left on the list.                    *)
FreeListExact ==
  \A d \in Desc :
    /\ IsInjective(free_list[d])
    /\ ToSet(free_list[d]) =
         (UNION {ToSet(Blocks(d, p)) : p \in {q \in Small : arena[q].desc = d}}) \ in_use

(* A block in use lies in an arena.                                        *)
InUseHaveArenas ==
  \A b \in in_use :
    /\ b[1] \in DOMAIN arena
    /\ b[2] < (IF b[1] \in Small THEN blocks_per_arena[arena[b[1]].desc] ELSE 1)

(* An arena counts its free blocks and is given back as soon as none is in *)
(* use, so that freeing everything leaves all pages free.                  *)
ArenasInUse ==
  \A p \in Small :
    LET used == Cardinality({b \in in_use : b[1] = p}) IN
    used > 0 /\ arena[p].free_cnt = blocks_per_arena[arena[p].desc] - used

(* A page is free or belongs to exactly one arena.                         *)
PagesOf(p) == Group(p, IF p \in Small THEN 1 ELSE arena[p].free_cnt)

PagesPartitioned ==
  /\ free_pages \cup UNION {PagesOf(p) : p \in DOMAIN arena} = Page
  /\ \A p \in DOMAIN arena :
       /\ PagesOf(p) \cap free_pages = {}
       /\ \A q \in DOMAIN arena \ {p} : PagesOf(p) \cap PagesOf(q) = {}
=============================================================================
