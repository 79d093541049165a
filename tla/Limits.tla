-------------------------------- MODULE Limits --------------------------------
(***************************************************************************)
(* What the code computes at the limits of its types: the division of      *)
(* two-word integers (lib/arithmetic.c), the sizes of malloc() and         *)
(* calloc() (threads/malloc.c), and what a new program finds in its memory *)
(* (userprog/process.c): its arguments, argument_stack(), and its          *)
(* segments, validate_segment() and load_segment().  A behaviour is one    *)
(* call with arbitrary arguments.  Numbers have the widths of the code's   *)
(* types, cut down for each of the four by itself.                         *)
(***************************************************************************)
EXTENDS Integers, Sequences, SequencesExt, FiniteSets

CONSTANTS
  W,           \* bits of a word that is divided
  SW,          \* bits of a size_t
  HEADER,      \* sizeof (struct arena)
  SMALLEST,    \* smallest block size
  ArenaPage,   \* PGSIZE of malloc.c
  MaxArgument, \* bound of the model on the arguments of calloc()
  OW,          \* bits of the offsets of argument_stack(): a uint8_t
  AW,          \* bits of an address
  PGSIZE, PHYS_BASE, \* of process.c
  Sizes,       \* sizes of argument strings, with their null characters
  MaxCount,    \* bound of the model on the number of arguments
  FileLength   \* of the executable

VARIABLES
  call,  \* the function that was called and its arguments
  result \* what it returned or left in memory

vars == <<call, result>>

NONE == [fun |-> "none"]

Init == call = NONE /\ result = <<>>

-----------------------------------------------------------------------------
(* Division with an instruction that divides two words by one and traps    *)
(* when the quotient does not fit into a word.  What timer_sleep(),        *)
(* timer_ticks() and printf() divide is of this width.                     *)

Radix == 2^W
uint64_t(x) == x % (Radix * Radix)
word(x) == x % Radix
int64_t(x) == IF uint64_t(x) >= (Radix * Radix) \div 2 THEN uint64_t(x) - Radix * Radix ELSE uint64_t(x)
sword(x) == IF word(x) >= Radix \div 2 THEN word(x) - Radix ELSE word(x)

Unsigned == 0 .. Radix * Radix - 1
Signed == -((Radix * Radix) \div 2) .. ((Radix * Radix) \div 2) - 1

Trap == -1

(* The instruction.                                                        *)
divl(x, y) == IF x \div y >= Radix THEN Trap ELSE x \div y

(* Number of leading zero bits of a word that is not zero.                 *)
nlz(x) == CHOOSE z \in 0 .. W - 1 : 2^(W - 1 - z) <= x /\ x < 2^(W - z)

(* A quotient of the last resort, one too large at most; it traps if its   *)
(* division does.                                                          *)
Estimate(x, y) ==
  LET s == nlz(y \div Radix)
      q == divl(x \div 2, uint64_t(y * 2^s) \div Radix)
  IN IF q = Trap THEN Trap ELSE q \div 2^(W - 1 - s)

(* Mutant: the estimate is returned as it is.                              *)
Corrected_never(x, y, q) == q

Corrected(x, y, q) == IF uint64_t(x - (q - 1) * y) < y THEN q - 1 ELSE q

udiv64(x, y) ==
  IF y < Radix
  THEN LET n1 == x \div Radix
           n0 == word(x)
           q == divl(Radix * (n1 % y) + n0, y)
       IN IF q = Trap THEN Trap ELSE uint64_t(q + Radix * (n1 \div y))
  ELSE IF x < y THEN 0
  ELSE IF Estimate(x, y) = Trap THEN Trap
  ELSE Corrected(x, y, Estimate(x, y))

umod64(x, y) == word(x - y * udiv64(x, y))

Abs(x) == IF x >= 0 THEN uint64_t(x) ELSE uint64_t(-uint64_t(x))

sdiv64(x, y) ==
  LET q == udiv64(Abs(x), Abs(y)) IN
  IF q = Trap THEN Trap
  ELSE IF (x < 0) = (y < 0) THEN int64_t(q) ELSE int64_t(-q)

smod64(x, y) == sword(x - y * sdiv64(x, y))

Divide(x, y) ==
  /\ call' = [fun |-> "divide", n |-> x, d |-> y, signed |-> FALSE]
  /\ result' = [quotient |-> udiv64(x, y), remainder |-> umod64(x, y)]

(* The quotient of the least number and -1 does not fit.                   *)
DivideSigned(x, y) ==
  /\ y = -1 => -x \in Signed
  /\ call' = [fun |-> "divide", n |-> x, d |-> y, signed |-> TRUE]
  /\ result' = [quotient |-> sdiv64(x, y), remainder |-> smod64(x, y)]

-----------------------------------------------------------------------------
(* The size arithmetic of malloc(), calloc() and realloc(), which ends     *)
(* with the number of bytes that the block it returns can hold, or 0 for a *)
(* null pointer.                                                           *)

size_t(n) == n % 2^SW

(* malloc_init(): the sizes that have a descriptor.                        *)
BlockSizes == {s \in {SMALLEST * 2^k : k \in 0 .. SW} : 2 * s < ArenaPage}

(* Mutant: the block size is compared the wrong way at equality.           *)
BlockSize_strict(s) == {d \in BlockSizes : d > s /\ \A e \in BlockSizes : e > s => d <= e}

(* The smallest block size that holds s bytes, if any.                     *)
BlockSize(s) == {d \in BlockSizes : d >= s /\ \A e \in BlockSizes : e >= s => d <= e}

(* Mutant: the header of the arena is forgotten.                           *)
page_cnt_headerless(s) == size_t(s + ArenaPage - 1) \div ArenaPage

(* DIV_ROUND_UP (size + sizeof *a, PGSIZE) in size_t arithmetic.           *)
page_cnt(s) == size_t(size_t(s + HEADER) + ArenaPage - 1) \div ArenaPage

(* Bytes in the block that malloc(s) returns, if memory is available.      *)
malloc(s) ==
  IF s = 0 THEN 0
  ELSE IF BlockSize(s) # {} THEN CHOOSE d \in BlockSize(s) : TRUE
  ELSE IF page_cnt(s) = 0 THEN 0
  ELSE page_cnt(s) * ArenaPage - HEADER

(* calloc(x, y).                                                           *)
calloc(x, y) ==
  LET size == size_t(x * y) IN
  IF size < x \/ size < y THEN 0 ELSE malloc(size)

CallMalloc(size) ==
  /\ call' = [fun |-> "allocate", a |-> size, b |-> 1]
  /\ result' = malloc(size)

CallCalloc(x, y) ==
  /\ call' = [fun |-> "allocate", a |-> x, b |-> y]
  /\ result' = calloc(x, y)

-----------------------------------------------------------------------------
(* argument_stack().  Addresses are relative to the initial *esp, the top  *)
(* of the stack; the arguments are numbered from 1.                        *)

uint8_t(n) == n % 2^OW

(* Bytes of the arguments i and later.                                     *)
DataFrom(sizes, i) == FoldRight(+, SubSeq(sizes, i, Len(sizes)), 0)
data_size(sizes) == DataFrom(sizes, 1)

RoundedDown(n) == (n \div 4) * 4
addr1(sizes) == RoundedDown(-data_size(sizes))

string_at(sizes, i) == -uint8_t(DataFrom(sizes, i))
word_at(sizes, n) == addr1(sizes) - uint8_t(4 * n)

Word(sizes, n, what) == [at |-> word_at(sizes, n), size |-> 4, what |-> what]

(* Where the offset can be when the padding loop ends.                     *)
PaddingTo(sizes) ==
  {n \in data_size(sizes) .. data_size(sizes) + 2^OW : -uint8_t(n) <= addr1(sizes)}

(* The zeros that the loop pushes; without an end it goes on for ever.     *)
Padding(sizes) ==
  LET e == CHOOSE n \in PaddingTo(sizes) : \A m \in PaddingTo(sizes) : n <= m
  IN [k \in 1 .. e - data_size(sizes) |->
        [at |-> -uint8_t(data_size(sizes) + k), size |-> 1, what |-> <<"zero">>]]

argument_stack(sizes) ==
  LET argc == Len(sizes)
      Argument(i) ==
        <<[at |-> string_at(sizes, i), size |-> sizes[i], what |-> <<"string", i>>],
          Word(sizes, argc - i + 2, <<"argv", i, string_at(sizes, i)>>)>>
  IN /\ call' = [fun |-> "argument_stack", sizes |-> sizes]
     /\ result' =
          IF PaddingTo(sizes) = {} THEN <<>>
          ELSE <<Word(sizes, 1, <<"null">>)>>
               \o FlattenSeq([k \in 1 .. argc |-> Argument(argc - k + 1)])
               \o Padding(sizes)
               \o <<Word(sizes, argc + 2, <<"pointer", word_at(sizes, argc + 1)>>),
                    Word(sizes, argc + 3, <<"argc", argc>>),
                    Word(sizes, argc + 4, <<"return">>)>>

-----------------------------------------------------------------------------
(* The loading of a segment.                                               *)

address(n) == n % 2^AW
is_user_vaddr(a) == a < PHYS_BASE
PGMASK(a) == a % PGSIZE
ROUND_UP(n) == address(address(n + PGSIZE - 1) - PGMASK(address(n + PGSIZE - 1)))

(* Mutant: a segment may wrap around.                                      *)
validate_segment_wraps(p) ==
  /\ PGMASK(p.offset) = PGMASK(p.vaddr)
  /\ p.offset <= FileLength
  /\ p.memsz >= p.filesz /\ p.memsz # 0
  /\ is_user_vaddr(p.vaddr) /\ is_user_vaddr(address(p.vaddr + p.memsz))
  /\ p.vaddr >= PGSIZE

validate_segment(p) ==
  /\ PGMASK(p.offset) = PGMASK(p.vaddr)
  /\ p.offset <= FileLength
  /\ p.memsz >= p.filesz /\ p.memsz # 0
  /\ is_user_vaddr(p.vaddr) /\ is_user_vaddr(address(p.vaddr + p.memsz))
  /\ address(p.vaddr + p.memsz) >= p.vaddr
  /\ p.vaddr >= PGSIZE

(* read_bytes and zero_bytes of load().                                    *)
read_bytes(p) == IF p.filesz > 0 THEN PGMASK(p.vaddr) + p.filesz ELSE 0
zero_bytes(p) == address(ROUND_UP(PGMASK(p.vaddr) + p.memsz) - read_bytes(p))

file_page(p) == p.offset - PGMASK(p.offset)
mem_page(p) == p.vaddr - PGMASK(p.vaddr)

(* load_segment(): memory from mem_page on, the file's bytes by their      *)
(* offsets and zeros as -1.  It fails at the end of the file.              *)
load_segment(p) ==
  /\ call' = [fun |-> "load_segment", p |-> p]
  /\ result' =
       IF ~validate_segment(p) \/ (read_bytes(p) > 0 /\ file_page(p) + read_bytes(p) > FileLength)
       THEN <<>>
       ELSE [a \in mem_page(p) .. mem_page(p) + read_bytes(p) + zero_bytes(p) - 1 |->
               IF a - mem_page(p) < read_bytes(p) THEN file_page(p) + a - mem_page(p) ELSE -1]

Address == 0 .. 2^AW - 1
Phdr == [offset : 0 .. FileLength + 1, vaddr : Address, filesz : 0 .. FileLength, memsz : Address]

Next ==
  /\ call = NONE
  /\ \/ \E x \in Unsigned : \E y \in Unsigned \ {0} : Divide(x, y)
     \/ \E x \in Signed : \E y \in Signed \ {0} : DivideSigned(x, y)
     \/ \E size \in 0 .. 2^SW - 1 : CallMalloc(size)
     \/ \E x, y \in 0 .. MaxArgument : CallCalloc(x, y)
     \/ \E n \in 0 .. MaxCount : \E sizes \in [1 .. n -> Sizes] : argument_stack(sizes)
     \/ \E p \in Phdr : load_segment(p)

Spec == Init /\ [][Next]_vars

-----------------------------------------------------------------------------
(* Properties.                                                             *)

(* The quotient of C, rounded towards zero, and the remainder that belongs *)
(* to it.                                                                  *)
Magnitude(x) == IF x < 0 THEN -x ELSE x
Exact == LET q == Magnitude(call.n) \div Magnitude(call.d)
         IN IF (call.n < 0) = (call.d < 0) THEN q ELSE -q
Rest == call.n - call.d * Exact

(* The quotient is exact, and so is a remainder that fits into one word;   *)
(* the instruction never traps (arithmetic.c:53).                          *)
QuotientsAreExact ==
  call.fun = "divide" =>
    /\ result.quotient = Exact
    /\ Rest \in (IF call.signed THEN -(Radix \div 2) .. Radix \div 2 - 1 ELSE 0 .. Radix - 1) =>
         result.remainder = Rest

(* "Divides unsigned 64-bit N by unsigned 64-bit D and returns the         *)
(* remainder" (arithmetic.c:129, 148 for signed numbers).  The functions   *)
(* return a uint32_t and an int32_t, so that a remainder that needs more   *)
(* than one word loses its upper half.                                     *)
RemaindersAreExact == call.fun = "divide" => result.remainder = Rest

(* The bytes asked for.                                                    *)
Asked == call.a * call.b

(* Neither the product of the arguments nor the rounding up to whole pages *)
(* wraps around.                                                           *)
Fits == Asked + HEADER + ArenaPage <= 2^SW

(* "Obtains and returns a new block of at least SIZE bytes" (malloc.c:87): *)
(* true of sizes up to about a page below the end of size_t.  Above it     *)
(* page_cnt (malloc.c:109) comes out too small, and calloc()'s test of the *)
(* product (malloc.c:165) lets some products through that wrapped around.  *)
BlockIsBigEnough ==
  call.fun = "allocate" /\ Fits /\ result > 0 => result >= Asked

(* A block is less than a page larger than asked for, and one that comes   *)
(* from a descriptor less than twice as large, or the smallest.            *)
BlockIsNotTooBig ==
  call.fun = "allocate" /\ Fits /\ result > 0 =>
    \/ result < Asked + ArenaPage /\ result >= ArenaPage - HEADER
    \/ result < 2 * Asked \/ result = SMALLEST

Bytes(x) == x.at .. x.at + x.size - 1

(* The stack is as a C program expects it: argc and argv above the return  *)
(* address, argv[i] points to argument i, a null pointer ends them, words  *)
(* are aligned, and nothing overlaps or leaves a gap up to the top.        *)
LaidOut(sizes) ==
  LET argc == Len(sizes)
      esp == addr1(sizes) - 4 * (argc + 4)
      Holds(at, what) == \E x \in ToSet(result) : x.at = at /\ x.what = what
  IN /\ result # <<>>
     /\ word_at(sizes, argc + 4) = esp
     /\ Holds(esp, <<"return">>)
     /\ Holds(esp + 4, <<"argc", argc>>)
     /\ Holds(esp + 8, <<"pointer", esp + 12>>)
     /\ Holds(esp + 12 + 4 * argc, <<"null">>)
     /\ \A i \in 1 .. argc : \E s \in ToSet(result) :
          /\ s.what = <<"string", i>> /\ s.size = sizes[i]
          /\ Holds(esp + 12 + 4 * (i - 1), <<"argv", i, s.at>>)
     /\ UNION {Bytes(x) : x \in ToSet(result)} = esp .. -1
     /\ \A j, k \in DOMAIN result : j # k => Bytes(result[j]) \cap Bytes(result[k]) = {}

(* The arguments are laid out right as long as neither the strings,        *)
(* rounded up to words, nor the pointers need an offset that does not fit  *)
(* in 8 bits (process.c:584).                                              *)
ArgumentsAreLaidOut ==
  /\ call.fun = "argument_stack"
  /\ -addr1(call.sizes) < 2^OW /\ 4 * (Len(call.sizes) + 4) < 2^OW
  => LaidOut(call.sizes)

(* A segment that is loaded is in user memory above the first page, its    *)
(* bytes are those of the file at their places and then zeros, and the     *)
(* rest of the last page is zero.  A segment that lies within both the     *)
(* file and user memory is loaded.                                         *)
SegmentsAreLoaded ==
  call.fun = "load_segment" =>
    LET p == call.p
        Memory == p.vaddr .. p.vaddr + p.memsz - 1 IN
    /\ result # <<>> =>
         /\ Memory \subseteq DOMAIN result
         /\ DOMAIN result \subseteq PGSIZE .. PHYS_BASE - 1
         /\ Cardinality(DOMAIN result) % PGSIZE = 0
         /\ \A a \in DOMAIN result : a >= p.vaddr =>
              result[a] = IF a < p.vaddr + p.filesz THEN p.offset + a - p.vaddr ELSE -1
    /\ /\ p.filesz \in 1 .. p.memsz /\ p.offset + p.filesz <= FileLength
       /\ PGMASK(p.vaddr) = PGMASK(p.offset)
       /\ Memory \subseteq PGSIZE .. PHYS_BASE - 2
       => result # <<>>

ImageIsRight == ArgumentsAreLaidOut /\ SegmentsAreLoaded
=============================================================================
