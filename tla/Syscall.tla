-------------------------------- MODULE Syscall -------------------------------
(***************************************************************************)
(* How the arguments of a system call get from the stub in                 *)
(* lib/user/syscall.c to the function for it in userprog/syscall.c, and    *)
(* read() from the keyboard.  Addresses of arguments are counted in words  *)
(* from the user's stack pointer at the trap.                              *)
(***************************************************************************)
EXTENDS Integers, Sequences, SequencesExt, FiniteSetsExt

CONSTANTS
  MaxFrame, \* bound of the model on the words above those of the stub
  MaxSize   \* bound of the model on the size given to read()

VARIABLES
  at,      \* "user", "handler", "function", "read", "returned" or "exited"
  stack,   \* the user's stack, from its top up to PHYS_BASE
  params,  \* what the function for the call is given
  size, i, \* parameter and local variable of read()
  buffer,  \* the bytes that read() has stored, by index
  taken    \* the characters that read() has got and stored

vars == <<at, stack, params, size, i, buffer, taken>>

(* The cases of the switch in syscall_handler() and their DECL_ARGS().     *)
Count ==
  [SYS_HALT |-> 0, SYS_EXIT |-> 1, SYS_CREATE |-> 2, SYS_REMOVE |-> 1,
   SYS_EXEC |-> 1, SYS_WAIT |-> 1, SYS_OPEN |-> 1, SYS_FILESIZE |-> 1,
   SYS_WRITE |-> 3, SYS_READ |-> 3, SYS_SEEK |-> 2, SYS_TELL |-> 1,
   SYS_CLOSE |-> 1]

(* The arguments of the user's call.                                       *)
Args(number) == [k \in 1 .. Count[number] |-> <<"arg", k>>]

Init ==
  /\ at = "user"
  /\ stack = <<>> /\ params = <<>>
  /\ size = 0 /\ i = 0
  /\ buffer = <<>> /\ taken = <<>>

(* syscall0() to syscall3(): the last argument is pushed first, the number *)
(* last.  Above them the caller has its own words.                         *)
Invoke(number, frame) ==
  /\ at = "user"
  /\ stack' = <<number>> \o Args(number) \o [k \in 1 .. frame |-> <<"frame", k>>]
  /\ at' = "handler"
  /\ UNCHANGED <<params, size, i, buffer, taken>>

(* esp += 4 of a pointer to int.                                           *)
FirstWord == 4

(* get_argument(), and the parameters as ARG_INT and its like take them,   *)
(* from the end of the array.  C leaves open which parameter is evaluated  *)
(* first.  Beyond the user's memory check_address() ends the process.      *)
syscall_handler ==
  /\ at = "handler"
  /\ LET count == Count[stack[1]]
         arg == SubSeq(stack, FirstWord + 1, FirstWord + count)
     IN IF FirstWord + count > Len(stack) /\ count > 0
        THEN at' = "exited" /\ UNCHANGED params
        ELSE at' = "function" /\ params' \in {arg, Reverse(arg)}
  /\ UNCHANGED <<stack, size, i, buffer, taken>>

-----------------------------------------------------------------------------
(* read (0, buffer, size).                                                 *)

Read(n) ==
  /\ at = "user"
  /\ at' = "read"
  /\ size' = n
  /\ UNCHANGED <<stack, params, i, buffer, taken>>

(* Mutant: the index may be the size.                                      *)
Goes_on_at_size == i <= size

(* The condition of the loop.                                              *)
Goes_on == i < size

With(f, k, v) == [j \in DOMAIN f \cup {k} |-> IF j = k THEN v ELSE f[j]]

(* A round; both the assignment and the loop increment i.  The character 0 *)
(* ends the loop.                                                          *)
ReadByte(c) ==
  /\ at = "read" /\ Goes_on
  /\ IF c = 0
     THEN at' = "returned" /\ UNCHANGED <<i, buffer, taken>>
     ELSE /\ buffer' = With(buffer, i, c)
          /\ taken' = Append(taken, c)
          /\ i' = i + 2
          /\ UNCHANGED at
  /\ UNCHANGED <<stack, params, size>>

ReadReturns ==
  /\ at = "read" /\ ~Goes_on
  /\ at' = "returned"
  /\ UNCHANGED <<stack, params, size, i, buffer, taken>>

Next ==
  \/ \E number \in DOMAIN Count, frame \in 0 .. MaxFrame : Invoke(number, frame)
  \/ syscall_handler
  \/ \E n \in 0 .. MaxSize : Read(n)
  \/ \E c \in {0, 1, 2} : ReadByte(c)
  \/ ReadReturns

Spec == Init /\ [][Next]_vars

-----------------------------------------------------------------------------
(* Properties.                                                             *)

(* "Invokes syscall NUMBER, passing argument ARG0" (lib/user/syscall.c:17) *)
(* and so on: the function for the call is given the arguments of the      *)
(* call.  It is not: see syscall.c:53.                                     *)
ArgumentsArrive ==
  at = "function" => params = Args(stack[1])

(* read() from the keyboard stores inside the buffer, in their order, the  *)
(* characters it got, and each of them at an index of its own.             *)
KeyboardReadStaysInside ==
  /\ DOMAIN buffer \subseteq 0 .. size - 1
  /\ LET stored == SetToSortSeq(DOMAIN buffer, <)
     IN taken = [k \in DOMAIN stored |-> buffer[stored[k]]]

(* "if the file descriptor is 0, store the input of the keyboard in the    *)
(* buffer and return the size stored" (syscall.c:224, in Korean): as many  *)
(* bytes as read() returns, and no others, are stored at the start of the  *)
(* buffer.  They are not: i is incremented twice a round (syscall.c:238).  *)
ReadStoresWhatItReturns ==
  at = "returned" => i = Len(taken) /\ DOMAIN buffer = 0 .. i - 1
=============================================================================
