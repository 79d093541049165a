--------------------------------- MODULE Vga ---------------------------------
(***************************************************************************)
(* devices/vga.c: the text display, to which threads and interrupt         *)
(* handlers write.  Interrupts are off in vga_putc(), but for the beep in  *)
(* the middle of it.                                                       *)
(***************************************************************************)
EXTENDS Integers, Sequences

CONSTANTS
  COL_CNT, ROW_CNT,
  TAB,        \* columns from one tab stop to the next, 8 in the code
  Char,       \* characters that are shown
  MaxRows,    \* bound of the model on the rows printed
  MaxBeeps    \* bound of the model on beeps at a time

VARIABLES
  fb,      \* rows of the frame buffer, sequences of characters
  cx, cy,
  cursor,  \* where the hardware shows it
  beeping, \* calls of vga_putc() that are in speaker_beep()
  sheet    \* history: what was printed since the display was cleared, as on
           \* a sheet of paper: its rows, and the column of the next character

vars == <<fb, cx, cy, cursor, beeping, sheet>>

Space == " "
Blank == [x \in 1 .. COL_CNT |-> Space]
ROUND_UP(n, step) == ((n + step - 1) \div step) * step

Init ==
  /\ fb = [y \in 1 .. ROW_CNT |-> Blank]
  /\ cx = 0 /\ cy = 0
  /\ cursor = 0
  /\ beeping = 0
  /\ sheet = [rows |-> <<Blank>>, x |-> 0]

(* The sheet after the character c.                                        *)
Column(s, x) == IF x < COL_CNT THEN [s EXCEPT !.x = x]
                ELSE [rows |-> Append(s.rows, Blank), x |-> 0]
Printed(s, c) ==
  LET n == Len(s.rows)
      marked == [s.rows EXCEPT ![n] = [@ EXCEPT ![s.x + 1] = c]]
  IN CASE c = "\n" -> Column(s, COL_CNT)
       [] c = "\f" -> [rows |-> <<Blank>>, x |-> 0]
       [] c = "BS" -> Column(s, IF s.x = 0 THEN 0 ELSE s.x - 1)
       [] c = "\r" -> Column(s, 0)
       [] c = "\t" -> Column(s, (s.x \div TAB + 1) * TAB)
       [] OTHER -> Column([s EXCEPT !.rows = marked], s.x + 1)

(* Mutant: the last row is scrolled up and left as it was.                 *)
newline_unclear(rows) ==
  /\ cx' = 0
  /\ IF cy + 1 >= ROW_CNT
     THEN /\ cy' = ROW_CNT - 1
          /\ fb' = Append(Tail(rows), rows[ROW_CNT])
     ELSE cy' = cy + 1 /\ fb' = rows

(* newline(), when the frame buffer is rows.                               *)
newline(rows) ==
  /\ cx' = 0
  /\ IF cy + 1 >= ROW_CNT
     THEN /\ cy' = ROW_CNT - 1
          /\ fb' = Append(Tail(rows), Blank)
     ELSE cy' = cy + 1 /\ fb' = rows

cls == cx' = 0 /\ cy' = 0 /\ fb' = [y \in 1 .. ROW_CNT |-> Blank]

Tab ==
  LET x == ROUND_UP(cx + 1, TAB)
  IN IF x >= COL_CNT THEN newline(fb) ELSE cx' = x /\ UNCHANGED <<cy, fb>>

Show(c) ==
  LET rows == [fb EXCEPT ![cy + 1] = [@ EXCEPT ![cx + 1] = c]]
  IN IF cx + 1 >= COL_CNT THEN newline(rows)
     ELSE cx' = cx + 1 /\ fb' = rows /\ UNCHANGED cy

move_cursor == cursor' = cx' + COL_CNT * cy'

(* vga_putc() of anything but a beep.                                      *)
vga_putc(c) ==
  /\ Len(Printed(sheet, c).rows) <= MaxRows
  /\ \/ c = "\n" /\ newline(fb)
     \/ c = "\f" /\ cls
     \/ c = "BS" /\ cx' = (IF cx > 0 THEN cx - 1 ELSE 0) /\ UNCHANGED <<cy, fb>>
     \/ c = "\r" /\ cx' = 0 /\ UNCHANGED <<cy, fb>>
     \/ c = "\t" /\ Tab
     \/ c \in Char /\ Show(c)
  /\ move_cursor
  /\ sheet' = Printed(sheet, c)
  /\ UNCHANGED beeping

(* The beep, while which others may write, and then the cursor.            *)
Beep ==
  /\ beeping < MaxBeeps
  /\ beeping' = beeping + 1
  /\ UNCHANGED <<fb, cx, cy, cursor, sheet>>

BeepEnds ==
  /\ beeping > 0
  /\ beeping' = beeping - 1
  /\ UNCHANGED <<fb, cx, cy, sheet>>
  /\ move_cursor

Next ==
  \/ \E c \in Char \cup {"\n", "\f", "BS", "\r", "\t"} : vga_putc(c)
  \/ Beep \/ BeepEnds

Spec == Init /\ [][Next]_vars

-----------------------------------------------------------------------------
(* Properties.                                                             *)

(* The display shows the last rows of what was printed since it was        *)
(* cleared, and the hardware cursor where the next character goes, also    *)
(* when others print during a beep (vga.c:86).                             *)
ScreenShowsOutput ==
  LET rows == sheet.rows
      top == IF Len(rows) > ROW_CNT THEN Len(rows) - ROW_CNT ELSE 0
  IN /\ fb = [y \in 1 .. ROW_CNT |-> IF top + y <= Len(rows) THEN rows[top + y] ELSE Blank]
     /\ cx = sheet.x /\ top + cy + 1 = Len(rows)
     /\ cursor = COL_CNT * cy + cx
=============================================================================
