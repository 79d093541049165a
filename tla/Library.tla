------------------------------- MODULE Library -------------------------------
(***************************************************************************)
(* lib/stdlib.c and lib/string.c: sort() and binary_search(), and          *)
(* memmove(), strlcpy(), strlcat() and strtok_r() on a small memory of     *)
(* characters in which the operands may overlap or end where the memory    *)
(* does.  A behaviour is one call, of strtok_r() the calls for one string, *)
(* and of sort() a search in the sorted array after it.                    *)
(***************************************************************************)
EXTENDS Integers, Sequences, FiniteSets, FiniteSetsExt, SequencesExt

CONSTANTS
  Key,       \* elements of an array, numbers
  MaxCount,  \* bound of the model on the length of an array
  Char,      \* characters that are no delimiters
  Delimiter,
  Null,      \* the null character
  Size       \* bound of the model on the memory, in characters

VARIABLES
  call,   \* the call in progress or completed: [fun, dst, src, size]
  given,  \* the array or the memory as it was before the call
  result  \* what the call returned

(* Of sort() and binary_search(), with indexes from 1 as in do_swap() and  *)
(* do_compare().                                                           *)
VARIABLES
  array,
  i,      \* of the loops of sort()
  cnt, at_index, \* of heapify(): cnt, and i
  at,     \* "build", "sort", "sorted", "search" or "found"
  key,    \* of binary_search(), with the range it is left with
  first, last

(* Of the functions of string.c.                                           *)
VARIABLES
  memory,
  remaining, \* of memmove(), the characters still to copy, and -1 at the end
  save_ptr, tokens \* of strtok_r()

array_vars == <<array, i, cnt, at_index, at, key, first, last>>
string_vars == <<memory, remaining, save_ptr, tokens>>
vars == <<call, given, result, array_vars, string_vars>>

Address == 0 .. Size - 1
Byte == Char \cup Delimiter \cup {Null}
NoCall == [fun |-> "none", dst |-> 0, src |-> 0, size |-> 0]

Init ==
  /\ call = NoCall
  /\ given = <<>>
  /\ result = 0
  /\ array = <<>>
  /\ i = 0 /\ cnt = 0 /\ at_index = 0
  /\ at = "none"
  /\ key = 0 /\ first = 0 /\ last = 0
  /\ memory = [a \in Address |-> Null]
  /\ remaining = 0
  /\ save_ptr = 0
  /\ tokens = <<>>

Called(c, g) == call' = c /\ given' = g

-----------------------------------------------------------------------------
(* sort() and binary_search().                                             *)

do_swap(a, b) == [array EXCEPT ![a] = array[b], ![b] = array[a]]

sort(keys) ==
  /\ Called([fun |-> "sort", dst |-> 0, src |-> 0, size |-> Len(keys)], keys)
  /\ array' = keys
  /\ i' = Len(keys) \div 2
  /\ at' = "build"
  /\ UNCHANGED <<cnt, at_index, key, first, last, result, string_vars>>

(* A round of the loop that builds the heap, up to its call of heapify().  *)
Build ==
  /\ at = "build" /\ at_index = 0
  /\ IF i > 0
     THEN at_index' = i /\ cnt' = Len(array) /\ UNCHANGED <<i, at>>
     ELSE at' = "sort" /\ i' = Len(array) /\ UNCHANGED <<at_index, cnt>>
  /\ UNCHANGED <<call, given, array, key, first, last, result, string_vars>>

(* A round of the loop that takes the heap apart.                          *)
Extract ==
  /\ at = "sort" /\ at_index = 0
  /\ IF i > 1
     THEN array' = do_swap(1, i) /\ at_index' = 1 /\ cnt' = i - 1 /\ UNCHANGED at
     ELSE at' = "sorted" /\ UNCHANGED <<array, at_index, cnt>>
  /\ UNCHANGED <<call, given, i, key, first, last, result, string_vars>>

(* Mutant: the right child is compared with the parent.                    *)
Largest_right(n) ==
  LET left == 2 * n
      right == 2 * n + 1
      max == IF left <= cnt /\ array[left] > array[n] THEN left ELSE n
  IN IF right <= cnt /\ array[right] > array[n] THEN right ELSE max

(* The index of the largest among n and its children.                      *)
Largest(n) ==
  LET left == 2 * n
      right == 2 * n + 1
      max == IF left <= cnt /\ array[left] > array[n] THEN left ELSE n
  IN IF right <= cnt /\ array[right] > array[max] THEN right ELSE max

(* A round of heapify(); when it returns, sort() goes on to its next i.    *)
Float ==
  /\ at_index # 0
  /\ LET max == Largest(at_index)
     IN IF max = at_index
        THEN /\ at_index' = 0
             /\ i' = i - 1
             /\ UNCHANGED array
        ELSE /\ array' = do_swap(at_index, max)
             /\ at_index' = max
             /\ UNCHANGED i
  /\ UNCHANGED <<call, given, cnt, at, key, first, last, result, string_vars>>

binary_search(k) ==
  /\ at = "sorted"
  /\ key' = k /\ first' = 1 /\ last' = Len(array) + 1
  /\ at' = "search"
  /\ UNCHANGED <<call, given, array, i, cnt, at_index, result, string_vars>>

Search ==
  /\ at = "search" /\ first < last
  /\ LET middle == first + (last - first) \div 2
     IN CASE key < array[middle] -> last' = middle /\ UNCHANGED <<first, at, result>>
          [] key > array[middle] -> first' = middle + 1 /\ UNCHANGED <<last, at, result>>
          [] OTHER -> result' = middle /\ at' = "found" /\ UNCHANGED <<first, last>>
  /\ UNCHANGED <<call, given, array, i, cnt, at_index, key, string_vars>>

SearchEnds ==
  /\ at = "search" /\ first >= last
  /\ at' = "found"
  /\ UNCHANGED <<call, given, array, i, cnt, at_index, key, first, last, result, string_vars>>

-----------------------------------------------------------------------------
(* string.c.                                                               *)

(* Whether there is a string at a, and its length.                         *)
IsString(m, a) == \E e \in a .. Size - 1 : m[e] = Null
strlen(m, a) == CHOOSE n \in 0 .. Size - a - 1 : m[a + n] = Null /\ \A k \in 0 .. n - 1 : m[a + k] # Null

(* memcpy() of size characters that do not overlap.                        *)
memcpy(m, dst, src, size) ==
  [a \in Address |-> IF a \in dst .. dst + size - 1 THEN m[src + a - dst] ELSE m[a]]

memmove(m, dst, src, size) ==
  /\ Called([fun |-> "memmove", dst |-> dst, src |-> src, size |-> size], m)
  /\ dst + size <= Size /\ src + size <= Size
  /\ memory' = m
  /\ remaining' = size
  /\ UNCHANGED <<result, array_vars, save_ptr, tokens>>

(* Mutant: memmove() always copies from the front.                         *)
Move_forward ==
  /\ call.fun = "memmove" /\ remaining > 0
  /\ LET k == call.size - remaining
     IN memory' = [memory EXCEPT ![call.dst + k] = memory[call.src + k]]
  /\ remaining' = remaining - 1
  /\ UNCHANGED <<call, given, array_vars, result, save_ptr, tokens>>

(* A round of either loop.                                                 *)
Move ==
  /\ call.fun = "memmove" /\ remaining > 0
  /\ LET k == IF call.dst < call.src THEN call.size - remaining ELSE remaining - 1
     IN memory' = [memory EXCEPT ![call.dst + k] = memory[call.src + k]]
  /\ remaining' = remaining - 1
  /\ UNCHANGED <<call, given, array_vars, result, save_ptr, tokens>>

(* Copying forward advances dst itself, which is returned.                 *)
MoveReturns ==
  /\ call.fun = "memmove" /\ remaining = 0
  /\ result' = IF call.dst < call.src THEN call.dst + call.size ELSE call.dst
  /\ remaining' = -1
  /\ UNCHANGED <<call, given, array_vars, memory, save_ptr, tokens>>

strlcpy(m, dst, src, size) ==
  /\ Called([fun |-> "strlcpy", dst |-> dst, src |-> src, size |-> size], m)
  /\ LET src_len == strlen(m, src)
         dst_len == Min({size - 1, src_len})
     IN /\ memory' = IF size > 0
                     THEN [memcpy(m, dst, src, dst_len) EXCEPT ![dst + dst_len] = Null]
                     ELSE m
        /\ result' = src_len
  /\ UNCHANGED <<array_vars, remaining, save_ptr, tokens>>

strlcat(m, dst, src, size) ==
  /\ Called([fun |-> "strlcat", dst |-> dst, src |-> src, size |-> size], m)
  /\ LET src_len == strlen(m, src)
         dst_len == strlen(m, dst)
         copy_cnt == Min({size - dst_len - 1, src_len})
         end == dst + dst_len
     IN /\ memory' = IF size > 0 /\ dst_len < size
                     THEN [memcpy(m, end, src, copy_cnt) EXCEPT ![end + copy_cnt] = Null]
                     ELSE m
        /\ result' = src_len + dst_len
  /\ UNCHANGED <<array_vars, remaining, save_ptr, tokens>>

(* Operands that a caller may give: dst has size characters and does not   *)
(* overlap src.                                                            *)
Apart(m, dst, src, size) ==
  /\ IsString(m, src)
  /\ dst + size <= Size
  /\ LET src_end == src + strlen(m, src)
     IN dst + size <= src \/ src_end < dst

(* The first call of strtok_r() for the string at s.                       *)
strtok(m, s) ==
  /\ Called([fun |-> "strtok_r", dst |-> s, src |-> s, size |-> 0], m)
  /\ IsString(m, s)
  /\ memory' = m
  /\ save_ptr' = s
  /\ UNCHANGED <<result, array_vars, remaining, tokens>>

(* Where strtok_r() stops when it skips characters of the set from a on.   *)
Skip(set, a) ==
  CHOOSE e \in a .. Size - 1 : memory[e] \notin set /\ \A k \in a .. e - 1 : memory[k] \in set

(* A call of strtok_r(), which starts from *save_ptr.                      *)
strtok_r ==
  /\ call.fun = "strtok_r" /\ result # -1
  /\ LET s == Skip(Delimiter, save_ptr)
         e == Skip(Char, s)
     IN IF memory[s] = Null
        THEN /\ save_ptr' = s
             /\ result' = -1  \* NULL
             /\ UNCHANGED <<memory, tokens>>
        ELSE /\ IF memory[e] # Null
                THEN memory' = [memory EXCEPT ![e] = Null] /\ save_ptr' = e + 1
                ELSE save_ptr' = e /\ UNCHANGED memory
             /\ result' = s
             /\ tokens' = Append(tokens, s)
  /\ UNCHANGED <<call, given, array_vars, remaining>>

Next ==
  \/ /\ call = NoCall
     /\ \/ \E n \in 0 .. MaxCount : \E keys \in [1 .. n -> Key] : sort(keys)
        \/ \E m \in [Address -> Char \cup {Null}], dst, src \in Address, size \in 0 .. Size :
             \/ memmove(m, dst, src, size)
             \/ Apart(m, dst, src, size) /\ strlcpy(m, dst, src, size)
             \/ Apart(m, dst, src, size) /\ IsString(m, dst) /\ strlcat(m, dst, src, size)
        \/ \E m \in [Address -> Byte], s \in Address : strtok(m, s)
  \/ Build \/ Extract \/ Float
  \/ \E k \in Key \cup {0} : binary_search(k)
  \/ Search \/ SearchEnds
  \/ Move \/ MoveReturns \/ strtok_r

Spec == Init /\ [][Next]_vars

-----------------------------------------------------------------------------
(* Properties.                                                             *)

Count(a, k) == Len(SelectSeq(a, LAMBDA x : x = k))

(* Below from, up to size, no element is greater than its parent.          *)
Heap(from, size) == \A n \in 2 .. size : n \div 2 >= from => array[n] <= array[n \div 2]

(* sort() loses and doubles no element: it grows a heap from the end of    *)
(* the array, shrinks it from the end, the largest elements in order       *)
(* behind it, and leaves them all in order.  binary_search() finds a key   *)
(* just if it is there, having ruled out no element that has it.           *)
SortsAndFinds ==
  call.fun = "sort" =>
    /\ \A k \in Key : Count(array, k) = Count(given, k)
    /\ at = "build" /\ at_index = 0 => Heap(i + 1, Len(array))
    /\ at = "sort" /\ at_index = 0 =>
         /\ Heap(1, i)
         /\ \A n \in i + 1 .. Len(array) : \A k \in 1 .. n : array[k] <= array[n]
    /\ at = "sorted" => \A n \in 2 .. Len(array) : array[n - 1] <= array[n]
    /\ at = "search" => \A n \in DOMAIN array : array[n] = key => n \in first .. last - 1
    /\ at = "found" =>
         IF \E n \in DOMAIN array : array[n] = key
         THEN result \in DOMAIN array /\ array[result] = key
         ELSE result = 0

String(m, a) == [k \in 1 .. strlen(m, a) |-> m[a + k - 1]]
Kept(from, to) == \A a \in Address : a \notin from .. to => memory[a] = given[a]

(* The words of the string s: from each character behind a delimiter, or   *)
(* at the start, up to the next delimiter.                                 *)
Words(s) ==
  LET starts == {k \in DOMAIN s : s[k] \in Char /\ (k = 1 \/ s[k - 1] \in Delimiter)}
      end(k) == Min({e \in k .. Len(s) + 1 : e = Len(s) + 1 \/ s[e] \in Delimiter})
      start(n) == CHOOSE k \in starts : Cardinality({j \in starts : j <= k}) = n
  IN [n \in 1 .. Cardinality(starts) |-> SubSeq(s, start(n), end(start(n)) - 1)]

(* Overlapping characters arrive as they were.  A copied or concatenated   *)
(* string is the longest part that fits with its end, its length tells     *)
(* whether it was cut, and nothing outside the size given is touched.      *)
(* strtok_r() yields the words of the string in order, each of them ended. *)
StringsAreExact ==
  LET dst == call.dst
      src == call.src
      size == call.size
      whole == IF call.fun = "strlcpy" THEN String(given, src)
               ELSE String(given, dst) \o String(given, src)
      cut == SubSeq(whole, 1, size - 1)
  IN
  /\ call.fun = "memmove" /\ remaining <= 0 =>
       /\ \A k \in 0 .. size - 1 : memory[dst + k] = given[src + k]
       /\ Kept(dst, dst + size - 1)
  /\ call.fun \in {"strlcpy", "strlcat"} =>
       /\ result = Len(whole)
       /\ Kept(dst, dst + size - 1)
       /\ size > 0 /\ (call.fun = "strlcat" => strlen(given, dst) < size) =>
            String(memory, dst) = (IF Len(whole) < size THEN whole ELSE cut)
  /\ call.fun = "strtok_r" =>
       LET words == Words(String(given, src))
       IN /\ Kept(src, src + strlen(given, src))
          /\ IsPrefix([n \in DOMAIN tokens |-> String(memory, tokens[n])], words)
          /\ result = -1 => Len(tokens) = Len(words)

(* "Copies SIZE bytes from SRC to DST, which are allowed to overlap.       *)
(* Returns DST." (string.c:21).  A move to a lower address returns what    *)
(* its loop has made of dst, the end of the bytes.                         *)
MoveReturnsDst ==
  call.fun = "memmove" /\ remaining = -1 => result = call.dst
=============================================================================
