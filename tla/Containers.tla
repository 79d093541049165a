------------------------------ MODULE Containers ------------------------------
(***************************************************************************)
(* lib/kernel: the hash table of hash.c, which grows and shrinks with the  *)
(* number of its elements, the bitmap of bitmap.c, whose bits share words, *)
(* and list_sort() of list.c.  A behaviour is the life of one of the       *)
(* three.                                                                  *)
(***************************************************************************)
EXTENDS Integers, Sequences, SequencesExt, FiniteSets

CONSTANTS
  HashKey,    \* numbers
  Version,    \* tells elements with equal keys apart
  MIN_BUCKETS,           \* 4 in the code
  BEST_ELEMS_PER_BUCKET,
  ELEM_BITS,  \* 32 in the code
  MaxBits,    \* bound of the model on the size of a bitmap
  NULL,
  Key,        \* what less() compares
  MaxLength   \* bound of the model on the length of the list

VARIABLES
  container \* which of the three the behaviour is about

(* Of the hash table.                                                      *)
VARIABLES
  buckets,  \* a sequence of lists of elements <<key, version>>
  hash_cnt, \* elem_cnt
  contents  \* history: the elements that the callers believe are inside

(* Of the bitmap.                                                          *)
VARIABLES
  bit_cnt,
  bits,   \* the words, numbered from 0, or NULL before bitmap_create()
  file,   \* the words in the file, or NULL
  call,   \* of bitmap_set_multiple(): [at, end, value], the bits to set yet
  found,  \* bitmap_scan_and_flip() that has not set a bit yet, or NULL
  wanted, saved \* what the callers have set the bits to, now and when saved

(* Of the list that is sorted: a sequence, in which the pointers a0, a1b0  *)
(* and b1 are positions; Len (list) + 1 is the tail.                       *)
VARIABLES
  given, \* the list that list_sort() was called with
  list,  \* of elements <<key, number>>
  a0, a1b0, b1,
  output_run_cnt,
  at     \* "runs", "merge", or "done"

hash_vars == <<buckets, hash_cnt, contents>>
bitmap_vars == <<bit_cnt, bits, file, call, found, wanted, saved>>
list_vars == <<given, list, a0, a1b0, b1, output_run_cnt, at>>
vars == <<container, hash_vars, bitmap_vars, list_vars>>

-----------------------------------------------------------------------------
(* The hash table.  Elements are equal if their keys are, and the key is   *)
(* the hash value.  The bucket count is a power of two, so that the        *)
(* bitwise AND of find_bucket() is a remainder.                            *)

Element == HashKey \X Version

hash_init ==
  /\ buckets = [i \in 1 .. MIN_BUCKETS |-> <<>>]
  /\ hash_cnt = 0
  /\ contents = {}

(* find_bucket() in a table of cnt buckets.                                *)
find_bucket(cnt, key) == (key % cnt) + 1

(* find_elem() in the bucket of key.                                       *)
find_elem(key) ==
  {e \in ToSet(buckets[find_bucket(Len(buckets), key)]) : e[1] = key}

(* The greatest power of two not above n: turning off the lowest bit until *)
(* one is left.                                                            *)
PowerBelow(n) == CHOOSE p \in {2^k : k \in 0 .. n} : p <= n /\ n < 2 * p

new_bucket_cnt(cnt) ==
  PowerBelow(IF cnt \div BEST_ELEMS_PER_BUCKET < MIN_BUCKETS THEN MIN_BUCKETS
             ELSE cnt \div BEST_ELEMS_PER_BUCKET)

(* Mutant: elements go to the bucket they had in the old table.            *)
Rehashed_same(old, cnt) ==
  [i \in 1 .. cnt |-> IF i = cnt THEN FlattenSeq(SubSeq(old, i, Len(old)))
                      ELSE IF i <= Len(old) THEN old[i] ELSE <<>>]

(* The lists of cnt new buckets: the elements are taken in the order of    *)
(* the old lists and each is pushed to the front.                          *)
Rehashed(old, cnt) ==
  [i \in 1 .. cnt |->
     Reverse(SelectSeq(FlattenSeq(old), LAMBDA e : find_bucket(cnt, e[1]) = i))]

(* rehash(): allocating the new buckets may fail.                          *)
rehash(b, cnt) ==
  \/ buckets' = Rehashed(b, new_bucket_cnt(cnt)) /\ new_bucket_cnt(cnt) # Len(b)
  \/ buckets' = b

(* The lists after insert_elem() and remove_elem().                        *)
Inserted(b, e) == [b EXCEPT ![find_bucket(Len(b), e[1])] = <<e>> \o @]
Removed(b, e) ==
  [b EXCEPT ![find_bucket(Len(b), e[1])] = SelectSeq(@, LAMBDA f : f # e)]

hash_insert(e) ==
  LET new == find_elem(e[1]) = {}
      cnt == hash_cnt + (IF new THEN 1 ELSE 0)
  IN /\ hash_cnt' = cnt
     /\ rehash(IF new THEN Inserted(buckets, e) ELSE buckets, cnt)
     /\ contents' = IF \E f \in contents : f[1] = e[1] THEN contents
                    ELSE contents \cup {e}

hash_replace(e) ==
  LET old == find_elem(e[1])
      kept == IF old = {} THEN buckets ELSE Removed(buckets, CHOOSE f \in old : TRUE)
      cnt == hash_cnt + (IF old = {} THEN 1 ELSE 0)
  IN /\ e \notin contents  \* an element is in one list at a time
     /\ hash_cnt' = cnt
     /\ rehash(Inserted(kept, e), cnt)
     /\ contents' = {f \in contents : f[1] # e[1]} \cup {e}

hash_delete(key) ==
  \E e \in find_elem(key) :
    /\ hash_cnt' = hash_cnt - 1
    /\ rehash(Removed(buckets, e), hash_cnt - 1)
    /\ contents' = {f \in contents : f[1] # key}

hash_clear ==
  /\ buckets' = [i \in DOMAIN buckets |-> <<>>]
  /\ hash_cnt' = 0
  /\ contents' = {}

HashNext ==
  \/ \E e \in Element : hash_insert(e) \/ hash_replace(e)
  \/ \E key \in HashKey : hash_delete(key)
  \/ hash_clear

-----------------------------------------------------------------------------
(* The bitmap.  A word is the set of its bits that are 1, and the last     *)
(* word may have bits that belong to no bit of the bitmap.                 *)

BITMAP_ERROR == -1
NoCall == [at |-> 0, end |-> 0, value |-> FALSE]
Calls(c) == IF c.at = c.end THEN NoCall ELSE c

elem_idx(n) == n \div ELEM_BITS
elem_cnt(n) == (n + ELEM_BITS - 1) \div ELEM_BITS
Word == SUBSET (0 .. ELEM_BITS - 1)

(* Mutant: no bit of the last word is used if all are.                     *)
last_mask_plain == 0 .. (bit_cnt % ELEM_BITS) - 1

last_mask == LET last_bits == bit_cnt % ELEM_BITS
             IN IF last_bits # 0 THEN 0 .. last_bits - 1 ELSE 0 .. ELEM_BITS - 1

bitmap_test(n) == n % ELEM_BITS \in bits[elem_idx(n)]

BitmapInit ==
  /\ bit_cnt = 0
  /\ bits = NULL
  /\ file = NULL
  /\ call = NoCall
  /\ found = NULL
  /\ wanted = <<>> /\ saved = <<>>

(* bitmap_create(), whose memory may hold anything before all bits are     *)
(* set to false.                                                           *)
bitmap_create(n, content) ==
  /\ bits = NULL
  /\ bit_cnt' = n
  /\ bits' = content
  /\ call' = Calls([at |-> 0, end |-> n, value |-> FALSE])
  /\ wanted' = [b \in 0 .. n - 1 |-> FALSE]
  /\ UNCHANGED <<file, found, saved>>

bitmap_set_multiple(start, cnt, value) ==
  /\ bits # NULL /\ call = NoCall
  /\ start + cnt <= bit_cnt
  /\ call' = Calls([at |-> start, end |-> start + cnt, value |-> value])
  /\ wanted' = [b \in DOMAIN wanted |->
                  IF b \in start .. start + cnt - 1 THEN value ELSE wanted[b]]
  /\ found' = NULL
  /\ UNCHANGED <<bit_cnt, bits, file, saved>>

(* bitmap_mark() or bitmap_reset(), for the next bit.                      *)
bitmap_set ==
  /\ call # NoCall
  /\ LET bit == call.at % ELEM_BITS
     IN bits' = [bits EXCEPT ![elem_idx(call.at)] =
                   IF call.value THEN @ \cup {bit} ELSE @ \ {bit}]
  /\ call' = Calls([call EXCEPT !.at = @ + 1])
  /\ found' = NULL
  /\ UNCHANGED <<bit_cnt, file, wanted, saved>>

bitmap_contains(start, cnt, value) == \E n \in start .. start + cnt - 1 : bitmap_test(n) = value

bitmap_scan(start, cnt, value) ==
  LET groups == {n \in start .. bit_cnt - cnt : ~bitmap_contains(n, cnt, ~value)}
  IN IF cnt <= bit_cnt /\ groups # {}
     THEN CHOOSE n \in groups : \A o \in groups : n <= o
     ELSE BITMAP_ERROR

bitmap_scan_and_flip(start, cnt, value) ==
  /\ bits # NULL /\ call = NoCall
  /\ start <= bit_cnt
  /\ LET idx == bitmap_scan(start, cnt, value)
     IN /\ found' = [idx |-> idx, start |-> start, cnt |-> cnt, value |-> value]
        /\ IF idx = BITMAP_ERROR
           THEN UNCHANGED <<call, wanted>>
           ELSE /\ call' = Calls([at |-> idx, end |-> idx + cnt, value |-> ~value])
                /\ wanted' = [b \in DOMAIN wanted |->
                                IF b \in idx .. idx + cnt - 1 THEN ~value ELSE wanted[b]]
  /\ UNCHANGED <<bit_cnt, bits, file, saved>>

bitmap_write ==
  /\ bits # NULL /\ call = NoCall
  /\ file' = bits /\ saved' = wanted
  /\ found' = NULL
  /\ UNCHANGED <<bit_cnt, bits, call, wanted>>

bitmap_read ==
  /\ file # NULL /\ call = NoCall
  /\ bits' = [w \in DOMAIN file |->
                IF w = elem_cnt(bit_cnt) - 1
                THEN file[w] \cap last_mask
                ELSE file[w]]
  /\ wanted' = saved
  /\ found' = NULL
  /\ UNCHANGED <<bit_cnt, file, call, saved>>

BitmapNext ==
  \/ bits = NULL /\ \E n \in 0 .. MaxBits :
       \E content \in [0 .. elem_cnt(n) - 1 -> Word] : bitmap_create(n, content)
  \/ \E start \in 0 .. bit_cnt, cnt \in 0 .. bit_cnt, value \in BOOLEAN :
       bitmap_set_multiple(start, cnt, value)
  \/ bitmap_set
  \/ \E start \in 0 .. bit_cnt, cnt \in 0 .. bit_cnt + 1, value \in BOOLEAN :
       bitmap_scan_and_flip(start, cnt, value)
  \/ bitmap_write \/ bitmap_read

-----------------------------------------------------------------------------
(* list_sort(): a natural merge sort that moves elements inside the list.  *)

less(x, y) == x[1] < y[1]

End == Len(list) + 1

ListInit ==
  /\ given = <<>> /\ list = <<>>
  /\ a0 = 1 /\ a1b0 = 1 /\ b1 = 1
  /\ output_run_cnt = 0
  /\ at = "done"

list_sort(keys) ==
  /\ given' = [i \in DOMAIN keys |-> <<keys[i], i>>]
  /\ list' = given'
  /\ at' = "runs"
  /\ UNCHANGED <<a0, a1b0, b1, output_run_cnt>>

find_end_of_run(a) ==
  CHOOSE e \in a + 1 .. End :
    /\ e = End \/ less(list[e], list[e - 1])
    /\ \A i \in a + 1 .. e - 1 : ~less(list[i], list[i - 1])

(* A round of the inner loop: it locates two runs from a0.                 *)
FindRuns ==
  /\ at = "runs" /\ a0 # End
  /\ output_run_cnt' = output_run_cnt + 1
  /\ a1b0' = find_end_of_run(a0)
  /\ IF a1b0' = End
     THEN /\ a0' = End    \* break
          /\ UNCHANGED <<b1, at>>
     ELSE /\ b1' = find_end_of_run(a1b0')
          /\ at' = "merge"
          /\ UNCHANGED a0
  /\ UNCHANGED <<given, list>>

(* The same list with the element at i moved to before the one at j.       *)
Moved(i, j) ==
  SubSeq(list, 1, j - 1) \o <<list[i]>> \o SubSeq(list, j, i - 1)
    \o SubSeq(list, i + 1, Len(list))

(* Mutant: of two equal elements the one of the second run comes first.    *)
Merge_unstable ==
  /\ at = "merge" /\ a0 # a1b0 /\ a1b0 # b1
  /\ a0' = a0 + 1
  /\ IF less(list[a0], list[a1b0])
     THEN UNCHANGED <<list, a1b0>>
     ELSE list' = Moved(a1b0, a0) /\ a1b0' = a1b0 + 1
  /\ UNCHANGED <<given, b1, output_run_cnt, at>>

(* A round of the loop of inplace_merge().  Positions move with the        *)
(* elements they stand for.                                                *)
Merge ==
  /\ at = "merge" /\ a0 # a1b0 /\ a1b0 # b1
  /\ a0' = a0 + 1
  /\ IF ~less(list[a1b0], list[a0])
     THEN UNCHANGED <<list, a1b0>>
     ELSE list' = Moved(a1b0, a0) /\ a1b0' = a1b0 + 1
  /\ UNCHANGED <<given, b1, output_run_cnt, at>>

MergeEnds ==
  /\ at = "merge" /\ (a0 = a1b0 \/ a1b0 = b1)
  /\ a0' = b1
  /\ at' = "runs"
  /\ UNCHANGED <<given, list, a1b0, b1, output_run_cnt>>

(* The end of a pass, and of the sort when the pass made one run.          *)
PassEnds ==
  /\ at = "runs" /\ a0 = End
  /\ IF output_run_cnt > 1
     THEN output_run_cnt' = 0 /\ a0' = 1 /\ UNCHANGED at
     ELSE at' = "done" /\ UNCHANGED <<output_run_cnt, a0>>
  /\ UNCHANGED <<given, list, a1b0, b1>>

ListNext ==
  \/ /\ at = "done" /\ given = <<>>
     /\ \E n \in 0 .. MaxLength : \E keys \in [1 .. n -> Key] : list_sort(keys)
  \/ FindRuns \/ Merge \/ MergeEnds \/ PassEnds

-----------------------------------------------------------------------------
Init ==
  /\ container \in {"hash table", "bitmap", "list"}
  /\ hash_init /\ BitmapInit /\ ListInit

Next ==
  \/ container = "hash table" /\ HashNext /\ UNCHANGED <<container, bitmap_vars, list_vars>>
  \/ container = "bitmap" /\ BitmapNext /\ UNCHANGED <<container, hash_vars, list_vars>>
  \/ container = "list" /\ ListNext /\ UNCHANGED <<container, hash_vars, bitmap_vars>>

Spec == Init /\ [][Next]_vars

-----------------------------------------------------------------------------
(* Properties.                                                             *)

(* What a caller has put in and not taken out is found, the element itself *)
(* and no other that is equal, however often the table has grown and       *)
(* shrunk or failed to; the count is right and no list holds another       *)
(* list's element or one twice.                                            *)
TableIsAMap ==
  /\ \A key \in HashKey : find_elem(key) = {e \in contents : e[1] = key}
  /\ hash_cnt = Cardinality(contents)
  /\ Len(FlattenSeq(buckets)) = hash_cnt
  /\ \E k \in 0 .. hash_cnt + MIN_BUCKETS : Len(buckets) = 2^k

(* Every bit that no call has still to set is as it was set last, whatever *)
(* was done to the others in its word, and through the file.  A scan       *)
(* returns the first group that is free, and fails only if there is none:  *)
(* what lies in the last word behind the last bit is never found.          *)
BitsAreExact ==
  bits # NULL =>
    /\ \A n \in 0 .. bit_cnt - 1 : n \notin call.at .. call.end - 1 => bitmap_test(n) = wanted[n]
    /\ found # NULL =>
         LET group(n) == /\ n + found.cnt <= bit_cnt
                         /\ \A k \in n .. n + found.cnt - 1 : bitmap_test(k) = found.value
         IN /\ found.idx # BITMAP_ERROR => group(found.idx)
            /\ \A n \in found.start .. bit_cnt : n < found.idx \/ found.idx = BITMAP_ERROR => ~group(n)

Sorted(i, j) == \A k \in i .. j - 2 : ~less(list[k + 1], list[k])

(* No element is lost or doubled, the two ranges that are merged are       *)
(* sorted, as inplace_merge() asserts only on entry, and at the end the    *)
(* list is sorted, equal elements in the order they had.                   *)
SortedAtLast ==
  /\ Len(list) = Len(given) /\ ToSet(list) = ToSet(given)
  /\ at = "merge" => Sorted(a0, a1b0) /\ Sorted(a1b0, b1)
  /\ at = "done" =>
       \A i, j \in DOMAIN list : i < j =>
         /\ ~less(list[j], list[i])
         /\ ~less(list[i], list[j]) => list[i][2] < list[j][2]
=============================================================================
