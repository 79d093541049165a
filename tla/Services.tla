------------------------------- MODULE Services -------------------------------
(***************************************************************************)
(* The block allocator, the services around the scheduler, the list of all *)
(* threads and the transfers of bytes to and from files, whose invariants  *)
(* are proved: each has state of its own, which no other touches.  A       *)
(* behaviour runs one of them, part; the interleavings that matter are     *)
(* inside each module.                                                     *)
(***************************************************************************)
EXTENDS Malloc

CONSTANTS
  NULL, Base,
  Thread, Caller,        \* threads of the monitor and the console; of the others
  MaxNested,             \* of the console lock
  Irq,                   \* the interrupts that devices raise
  TickWord, MaxTicks,    \* of the counter of timer ticks
  MaxSleep,              \* of timer_sleep()
  Second, Minute, Hour,  \* of the clock
  UserPage, Vpage,       \* pages for page directories and frames, user pages
  COL_CNT, ROW_CNT, TAB, \* of the display
  Char, MaxRows, MaxBeeps,
  Tcb, ListHead, ListTail, \* pages of threads and the ends of the list of them
  SECTOR_SIZE, FileLength, MaxTransfer \* of a file that is read and written

ASSUME ServicesAssumption ==
  /\ NULL \notin Thread
  /\ Irq \subseteq 0 .. 15 /\ NULL \notin 0 .. 15
  /\ TickWord \in Nat \ {0} /\ MaxTicks \in Nat /\ MaxSleep \in Nat
  /\ Second \in Nat \ {0} /\ Minute \in Nat \ {0} /\ Hour \in Nat \ {0}
  /\ Caller # {}
  /\ {NULL, Base} \cap UserPage = {} /\ NULL # Base
  /\ NULL \notin [Vpage -> UserPage \cup {NULL}]
  /\ COL_CNT \in Nat \ {0} /\ ROW_CNT \in Nat \ {0} /\ TAB \in Nat \ {0}
  /\ Char \cap {"\n", "\f", "BS", "\r", "\t"} = {}

ASSUME ListAssumption ==
  /\ ListHead # ListTail /\ {ListHead, ListTail} \cap Tcb = {}
  /\ IsFiniteSet(Tcb)

ASSUME DataAssumption ==
  SECTOR_SIZE \in Nat \ {0} /\ FileLength \in Nat /\ MaxTransfer \in Nat

VARIABLES
  part, \* the module that runs
  monitor_pc, monitor_holder, monitor_waiters, monitor_semaphore,
  console_printing, console_holder, console_depth, console_use_lock,
  pageDir_running, pageDir_at, pageDir_pagedir, pageDir_pd, pageDir_table,
  pageDir_free, pageDir_cr3, pageDir_tlb, pageDir_esp0,
  interrupts_requested, interrupts_in_service, interrupts_enabled,
  interrupts_vec_no, interrupts_in_external_intr,
  interrupts_yield_on_return, timer_ticks, timer_enabled, timer_at,
  timer_low, timer_start, timer_wanted, timer_called, rtc_time, rtc_at,
  rtc_read, rtc_passed, keyboard_down, keyboard_locked, keyboard_state,
  keyboard_caps_lock, keyboard_put, vga_fb, vga_cx, vga_cy, vga_cursor,
  vga_beeping, vga_sheet,
  all_prev, all_next, all_state, all_raced,
  dat_data, dat_pos, dat_op, dat_at, dat_start, dat_wanted, dat_bytes,
  dat_bounce, dat_meant, dat_raced

Mon == INSTANCE Monitor WITH
  Thread <- Thread, NULL <- NULL, pc <- monitor_pc,
  holder <- monitor_holder, waiters <- monitor_waiters,
  semaphore <- monitor_semaphore
Con == INSTANCE Console WITH
  Thread <- Thread, NULL <- NULL, MaxNested <- MaxNested,
  printing <- console_printing, holder <- console_holder,
  depth <- console_depth, use_lock <- console_use_lock
Dir == INSTANCE PageDir WITH
  Thread <- Caller, Page <- UserPage, Vpage <- Vpage, Base <- Base,
  NULL <- NULL, running <- pageDir_running, at <- pageDir_at,
  pagedir <- pageDir_pagedir, pd <- pageDir_pd, table <- pageDir_table,
  free <- pageDir_free, cr3 <- pageDir_cr3, tlb <- pageDir_tlb,
  esp0 <- pageDir_esp0
Pic == INSTANCE Interrupts WITH
  Irq <- Irq, NONE <- NULL, requested <- interrupts_requested,
  in_service <- interrupts_in_service, enabled <- interrupts_enabled,
  vec_no <- interrupts_vec_no,
  in_external_intr <- interrupts_in_external_intr,
  yield_on_return <- interrupts_yield_on_return
Tim == INSTANCE Timer WITH
  Thread <- Caller, Word <- TickWord, MaxTicks <- MaxTicks, MaxSleep <- MaxSleep,
  ticks <- timer_ticks, enabled <- timer_enabled, at <- timer_at,
  low <- timer_low, start <- timer_start, wanted <- timer_wanted,
  called <- timer_called
Clk == INSTANCE Rtc WITH
  Second <- Second, Minute <- Minute, Hour <- Hour, time <- rtc_time, at <- rtc_at,
  read <- rtc_read, passed <- rtc_passed
Kbd == INSTANCE Keyboard WITH
  down <- keyboard_down, locked <- keyboard_locked, state <- keyboard_state,
  caps_lock <- keyboard_caps_lock, put <- keyboard_put
Vga == INSTANCE Vga WITH
  COL_CNT <- COL_CNT, ROW_CNT <- ROW_CNT, TAB <- TAB, Char <- Char,
  MaxRows <- MaxRows, MaxBeeps <- MaxBeeps, fb <- vga_fb, cx <- vga_cx, cy <- vga_cy,
  cursor <- vga_cursor, beeping <- vga_beeping, sheet <- vga_sheet
All == INSTANCE AllList WITH
  Thread <- Tcb, HEAD <- ListHead, TAIL <- ListTail, prev <- all_prev,
  next <- all_next, state <- all_state, raced <- all_raced
Dat == INSTANCE FileData WITH
  Thread <- Caller, SECTOR_SIZE <- SECTOR_SIZE, Length <- FileLength,
  MaxSize <- MaxTransfer, data <- dat_data, pos <- dat_pos, op <- dat_op,
  at <- dat_at, start <- dat_start, wanted <- dat_wanted, bytes <- dat_bytes,
  bounce <- dat_bounce, meant <- dat_meant, raced <- dat_raced

Monvars ==
  <<monitor_pc, monitor_holder, monitor_waiters, monitor_semaphore>>
Convars ==
  <<console_printing, console_holder, console_depth, console_use_lock>>
Dirvars ==
  <<pageDir_running, pageDir_at, pageDir_pagedir, pageDir_pd,
    pageDir_table, pageDir_free, pageDir_cr3, pageDir_tlb,
    pageDir_esp0>>
Picvars ==
  <<interrupts_requested, interrupts_in_service, interrupts_enabled,
    interrupts_vec_no, interrupts_in_external_intr,
    interrupts_yield_on_return>>
Timvars ==
  <<timer_ticks, timer_enabled, timer_at, timer_low, timer_start,
    timer_wanted, timer_called>>
Clkvars ==
  <<rtc_time, rtc_at, rtc_read, rtc_passed>>
Kbdvars ==
  <<keyboard_down, keyboard_locked, keyboard_state,
    keyboard_caps_lock, keyboard_put>>
Vgavars ==
  <<vga_fb, vga_cx, vga_cy, vga_cursor, vga_beeping, vga_sheet>>
Allvars == <<all_prev, all_next, all_state, all_raced>>
Datvars ==
  <<dat_data, dat_pos, dat_op, dat_at, dat_start, dat_wanted, dat_bytes,
    dat_bounce, dat_meant, dat_raced>>

-----------------------------------------------------------------------------
ServicesPart ==
  {"Malloc", "Monitor", "Console", "PageDir", "Interrupts", "Timer",
   "Rtc", "Keyboard", "Vga", "AllList", "FileData"}

ServicesVars ==
  <<part, vars, Monvars, Convars, Dirvars, Picvars, Timvars, Clkvars, Kbdvars, Vgavars,
    Allvars, Datvars>>

ServicesInit ==
  /\ Init
  /\ Mon!Init
  /\ Con!Init
  /\ Dir!Init
  /\ Pic!Init
  /\ Tim!Init
  /\ Clk!Init
  /\ Kbd!Init
  /\ Vga!Init
  /\ All!Init
  /\ Dat!Init

(* The services other than p stay as they are.                             *)
Others(p) ==
  /\ UNCHANGED part
  /\ IF p = "Malloc" THEN TRUE ELSE UNCHANGED vars
  /\ IF p = "Monitor" THEN TRUE ELSE UNCHANGED Monvars
  /\ IF p = "Console" THEN TRUE ELSE UNCHANGED Convars
  /\ IF p = "PageDir" THEN TRUE ELSE UNCHANGED Dirvars
  /\ IF p = "Interrupts" THEN TRUE ELSE UNCHANGED Picvars
  /\ IF p = "Timer" THEN TRUE ELSE UNCHANGED Timvars
  /\ IF p = "Rtc" THEN TRUE ELSE UNCHANGED Clkvars
  /\ IF p = "Keyboard" THEN TRUE ELSE UNCHANGED Kbdvars
  /\ IF p = "Vga" THEN TRUE ELSE UNCHANGED Vgavars
  /\ IF p = "AllList" THEN TRUE ELSE UNCHANGED Allvars
  /\ IF p = "FileData" THEN TRUE ELSE UNCHANGED Datvars

ServicesNext ==
  \/ part = "Malloc" /\ Next /\ Others("Malloc")
  \/ part = "Monitor" /\ Mon!Next /\ Others("Monitor")
  \/ part = "Console" /\ Con!Next /\ Others("Console")
  \/ part = "PageDir" /\ Dir!Next /\ Others("PageDir")
  \/ part = "Interrupts" /\ Pic!Next /\ Others("Interrupts")
  \/ part = "Timer" /\ Tim!Next /\ Others("Timer")
  \/ part = "Rtc" /\ Clk!Next /\ Others("Rtc")
  \/ part = "Keyboard" /\ Kbd!Next /\ Others("Keyboard")
  \/ part = "Vga" /\ Vga!Next /\ Others("Vga")
  \/ part = "AllList" /\ All!Next /\ Others("AllList")
  \/ part = "FileData" /\ Dat!Next /\ Others("FileData")

ServicesSpec == ServicesInit /\ [][ServicesNext]_ServicesVars

-----------------------------------------------------------------------------
(* Properties.                                                             *)

(* No block is handed out twice, an arena goes back when its last block    *)
(* does and leaves none on the free list, and no page is lost              *)
(* (malloc.c:252).                                                         *)
BlocksAreSound ==
  FreeListExact /\ InUseHaveArenas /\ ArenasInUse /\ PagesPartitioned

(* Waiting on a condition and releasing the lock is one step to those who  *)
(* signal, and every signal is one waiter's (synch.c:299).                 *)
ImplementsMesa == Mon!ImplementsMesa

(* The console lock, its depth and who prints agree at every step, for     *)
(* nested calls and after a panic (console.c:92), and the display shows    *)
(* what was printed, also by others during a beep (vga.c:86).              *)
OutputIsNotMixed == Con!OutputIsNotMixed /\ Vga!ScreenShowsOutput

(* The processor uses no freed page table and no freed frame, and no page  *)
(* is in two address spaces or lost (process.c:212).                       *)
AddressSpacesAreOwn == Dir!AddressSpaceIsOwn /\ Dir!PagesAreAccounted

(* Outside handlers nothing keeps an interrupt from being delivered        *)
(* (interrupt.c:262), and the shift state that the keyboard's handler      *)
(* keeps from one interrupt to the next is that of the keys (kbd.c:95).    *)
InterruptsAreServed == Pic!EveryInterruptAcknowledged /\ Kbd!CharactersFollowKeys

(* A value that takes several reads, of ticks (timer.c:74) or of the       *)
(* clock's registers (rtc.c:69), belongs to one moment, so that nobody     *)
(* sleeps too short.                                                       *)
ClocksAreRead == Tim!SleepsAsLongAsAsked /\ Clk!TimeIsOneMoment

(* The list of all threads survives preemption inside list_insert(), but   *)
(* for two cases (thread.c:496).                                           *)
ListSurvives == All!ListSurvives

(* A write to a file changes the bytes in the range asked for and no       *)
(* others, also while another process writes to other sectors of it, and   *)
(* reads and writes return how many there are (inode.c:195 and 303).       *)
TransfersAreExact == Dat!TransfersAreExact
=============================================================================
