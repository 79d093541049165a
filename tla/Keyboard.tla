------------------------------- MODULE Keyboard ------------------------------
(***************************************************************************)
(* keyboard_interrupt() of devices/kbd.c: the state of the shift keys that *)
(* it keeps from one interrupt to the next, and the characters it puts     *)
(* into the input buffer.  A key sends its scan code when it is pressed,   *)
(* and with 0x80 added when it is released.  Some keys send a prefix 0xe0  *)
(* and then the scan code of another key.                                  *)
(*                                                                         *)
(* Letter, Digit and Delete stand for all keys with characters of their    *)
(* kind; Slash2 is a prefixed key without a character.                     *)
(***************************************************************************)
EXTENDS Integers

VARIABLES
  down,      \* the shift keys that are held down
  locked,    \* history: whether caps lock was pressed an odd number of times
  state,     \* left_shift, right_shift, ...: the shift keys believed down
  caps_lock,
  put        \* the character put by the last interrupt

vars == <<down, locked, state, caps_lock, put>>

E0 == 57344 \* 0xe000, the prefix as keyboard_interrupt() keeps it

Letter == 30
Digit == 2
Delete == 83
CapsLock == 58
Slash2 == E0 + 53

Shift == {42, 54}
Alt == {56, E0 + 56}
Ctrl == {29, E0 + 29}
ShiftKey == Shift \cup Alt \cup Ctrl

(* The keymaps: keys that have a character.                                *)
Mapped == {Letter, Digit, Delete}

Nothing == [key |-> 0]
Reboot == [key |-> -1]

Init ==
  /\ down = {} /\ state = {}
  /\ locked = FALSE /\ caps_lock = FALSE
  /\ put = Nothing

Down(keys) == state \cap keys # {}

(* The character of an ordinary key, by the shift state.                   *)
character(key) ==
  IF key = Delete /\ Down(Ctrl) /\ Down(Alt) THEN Reboot
  ELSE [key |-> key,
        alt |-> Down(Alt),
        form |-> CASE key = Delete -> "delete"
                   [] key = Digit -> IF Down(Shift) THEN "symbol" ELSE "digit"
                   [] key = Letter /\ Down(Ctrl) -> "control"
                   [] OTHER -> IF Down(Shift) = caps_lock THEN "lower" ELSE "upper"]

(* Mutant: the prefix is dropped, so that both keys of a pair are the left *)
(* one.                                                                    *)
code_unprefixed(key) == key % E0

(* The variable code: prefix and scan code, without the release bit.       *)
code(key) == key

(* keyboard_interrupt() for the press or the release of a key.             *)
keyboard_interrupt(key, release) ==
  LET c == code(key) IN
  /\ caps_lock' = IF c = CapsLock /\ ~release THEN ~caps_lock ELSE caps_lock
  /\ put' = IF c \in Mapped /\ ~release THEN character(c) ELSE Nothing
  /\ state' = IF c \notin ShiftKey THEN state
              ELSE IF release THEN state \ {c} ELSE state \cup {c}

Press(key) ==
  /\ down' = down \cup ({key} \cap ShiftKey)
  /\ locked' = IF key = CapsLock THEN ~locked ELSE locked
  /\ keyboard_interrupt(key, FALSE)

Release(key) ==
  /\ key \in ShiftKey => key \in down
  /\ down' = down \ {key}
  /\ keyboard_interrupt(key, TRUE)
  /\ UNCHANGED locked

Next ==
  \E key \in ShiftKey \cup Mapped \cup {CapsLock, Slash2} : Press(key) \/ Release(key)

Spec == Init /\ [][Next]_vars

-----------------------------------------------------------------------------
(* Properties.                                                             *)

(* A character depends on the keys that are held down when its key is      *)
(* pressed, whatever was pressed and released before: of two equal keys    *)
(* either may be held, and caps lock and shift cancel out for letters and  *)
(* only for letters.                                                       *)
CharactersFollowKeys ==
  /\ put.key = Letter =>
       put.form = IF down \cap Ctrl # {} THEN "control"
                  ELSE IF locked # (down \cap Shift # {}) THEN "upper" ELSE "lower"
  /\ put.key = Digit => (put.form = "symbol") = (down \cap Shift # {})
  /\ put.key \in Mapped => put.alt = (down \cap Alt # {})
  /\ put = Reboot => down \cap Ctrl # {} /\ down \cap Alt # {}
=============================================================================
