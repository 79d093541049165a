------------------------------- MODULE PageDir -------------------------------
(***************************************************************************)
(* Address spaces: userprog/pagedir.c with the parts of process.c and      *)
(* tss.c that create, switch and destroy them, and the processor's view of *)
(* them: the register CR3 and the translations it has cached.              *)
(*                                                                         *)
(* The timer may switch to another thread between any two steps.  Page     *)
(* tables are left out: a page directory maps user pages to frames.        *)
(***************************************************************************)
EXTENDS FiniteSets

CONSTANTS
  Thread,
  Page,   \* pages of memory, for page directories and frames
  Vpage,  \* user virtual pages
  Base,   \* init_page_dir, which maps no user page
  NULL

VARIABLES
  running, \* the running thread
  at,      \* where each thread is
  pagedir, \* t->pagedir
  pd,      \* the local variable of process_exit()
  table,   \* of each page in use as a page directory: its mapping; else NULL
  free,    \* pages that palloc has free
  cr3,     \* the active page directory
  tlb,     \* user pages whose translation is cached: a set of <<vpage, frame>>
  esp0     \* the thread on whose stack the next interrupt from user code runs

vars == <<running, at, pagedir, pd, table, free, cr3, tlb, esp0>>

(***************************************************************************)
(* "kernel"   no user program yet        "created"  t->pagedir is set      *)
(* "load"     loads the program          "user"     runs it                *)
(* "cleared"  in process_exit(), t->pagedir is NULL                        *)
(* "destroy"  in pagedir_destroy()                                         *)
(***************************************************************************)
At == {"kernel", "created", "load", "user", "cleared", "destroy"}

Init ==
  /\ running = CHOOSE t \in Thread : TRUE
  /\ at = [t \in Thread |-> "kernel"]
  /\ pagedir = [t \in Thread |-> NULL]
  /\ pd = [t \in Thread |-> NULL]
  /\ table = [p \in Page |-> NULL]
  /\ free = Page
  /\ cr3 = Base
  /\ tlb = {}
  /\ esp0 = running

(* pagedir_activate(): writing CR3 drops the cached translations.          *)
pagedir_activate(p) ==
  /\ cr3' = IF p = NULL THEN Base ELSE p
  /\ tlb' = {}

Frames(p) == {table[p][v] : v \in Vpage} \ {NULL}

-----------------------------------------------------------------------------
(* load().                                                                 *)

(* t->pagedir = pagedir_create ().                                         *)
Create(t) ==
  /\ running = t /\ at[t] = "kernel"
  /\ \E p \in free :
       /\ free' = free \ {p}
       /\ table' = [table EXCEPT ![p] = [v \in Vpage |-> NULL]]
       /\ pagedir' = [pagedir EXCEPT ![t] = p]
  /\ at' = [at EXCEPT ![t] = "created"]
  /\ UNCHANGED <<running, pd, cr3, tlb, esp0>>

(* process_activate().                                                     *)
Activate(t) ==
  /\ running = t /\ at[t] = "created"
  /\ pagedir_activate(pagedir[t])
  /\ esp0' = t
  /\ at' = [at EXCEPT ![t] = "load"]
  /\ UNCHANGED <<running, pagedir, pd, table, free>>

(* load_segment() and setup_stack(): a frame for a page, install_page().   *)
Install(t) ==
  /\ running = t /\ at[t] = "load"
  /\ \E v \in Vpage, f \in free :
       /\ table[pagedir[t]][v] = NULL
       /\ table' = [table EXCEPT ![pagedir[t]][v] = f]
       /\ free' = free \ {f}
  /\ UNCHANGED <<running, at, pagedir, pd, cr3, tlb, esp0>>

EnterUser(t) ==
  /\ running = t /\ at[t] = "load"
  /\ at' = [at EXCEPT ![t] = "user"]
  /\ UNCHANGED <<running, pagedir, pd, table, free, cr3, tlb, esp0>>

(* The program, or the kernel on its behalf, uses a user page: the         *)
(* processor walks the active page directory and caches what it finds.     *)
Access(t) ==
  /\ running = t /\ at[t] \in {"load", "user"}
  /\ cr3 # Base /\ table[cr3] # NULL
  /\ \E v \in Vpage :
       /\ table[cr3][v] # NULL
       /\ tlb' = tlb \cup {<<v, table[cr3][v]>>}
  /\ UNCHANGED <<running, at, pagedir, pd, table, free, cr3, esp0>>

-----------------------------------------------------------------------------
(* process_exit().                                                         *)

(* Mutant: t->pagedir is left set.                                         *)
Exit_keeps_pagedir(t) ==
  /\ running = t /\ at[t] = "user"
  /\ pd' = [pd EXCEPT ![t] = pagedir[t]]
  /\ at' = [at EXCEPT ![t] = "cleared"]
  /\ UNCHANGED <<running, pagedir, table, free, cr3, tlb, esp0>>

(* cur->pagedir = NULL.                                                    *)
Exit(t) ==
  /\ running = t /\ at[t] = "user"
  /\ pd' = [pd EXCEPT ![t] = pagedir[t]]
  /\ pagedir' = [pagedir EXCEPT ![t] = NULL]
  /\ at' = [at EXCEPT ![t] = "cleared"]
  /\ UNCHANGED <<running, table, free, cr3, tlb, esp0>>

(* pagedir_activate (NULL).                                                *)
ExitActivate(t) ==
  /\ running = t /\ at[t] = "cleared"
  /\ pagedir_activate(NULL)
  /\ at' = [at EXCEPT ![t] = "destroy"]
  /\ UNCHANGED <<running, pagedir, pd, table, free, esp0>>

(* pagedir_destroy (pd), page by page.  An entry that the loop has passed  *)
(* is not read again and is dropped here.                                  *)
DestroyFrame(t) ==
  /\ running = t /\ at[t] = "destroy"
  /\ \E v \in Vpage :
       /\ table[pd[t]][v] # NULL
       /\ free' = free \cup {table[pd[t]][v]}
       /\ table' = [table EXCEPT ![pd[t]][v] = NULL]
  /\ UNCHANGED <<running, at, pagedir, pd, cr3, tlb, esp0>>

(* The page directory itself; the thread is done and a new one follows.    *)
Destroy(t) ==
  /\ running = t /\ at[t] = "destroy"
  /\ Frames(pd[t]) = {}
  /\ free' = free \cup {pd[t]}
  /\ table' = [table EXCEPT ![pd[t]] = NULL]
  /\ pd' = [pd EXCEPT ![t] = NULL]
  /\ at' = [at EXCEPT ![t] = "kernel"]
  /\ UNCHANGED <<running, pagedir, cr3, tlb, esp0>>

-----------------------------------------------------------------------------
(* schedule(): thread_schedule_tail() calls process_activate().            *)
Switch(t) ==
  /\ running # t
  /\ running' = t
  /\ pagedir_activate(pagedir[t])
  /\ esp0' = t
  /\ UNCHANGED <<at, pagedir, pd, table, free>>

Next ==
  \E t \in Thread :
    \/ Create(t) \/ Activate(t) \/ Install(t) \/ EnterUser(t) \/ Access(t)
    \/ Exit(t) \/ ExitActivate(t) \/ DestroyFrame(t) \/ Destroy(t) \/ Switch(t)

Spec == Init /\ [][Next]_vars

-----------------------------------------------------------------------------
(* Properties.                                                             *)

(* The processor never looks up a translation in a page that was freed,    *)
(* never uses one that leads to a freed frame, and user code runs in its   *)
(* own address space with its own kernel stack, wherever the timer strikes *)
(* in process_exit() (process.c:212-218).                                  *)
AddressSpaceIsOwn ==
  /\ cr3 # Base => cr3 \notin free /\ table[cr3] # NULL
  /\ \A e \in tlb :
       cr3 # Base /\ table[cr3] # NULL /\ table[cr3][e[1]] = e[2] /\ e[2] \notin free
  /\ at[running] \in {"load", "user"} => cr3 = pagedir[running] /\ esp0 = running

(* No thread keeps a page directory that has been freed, no page is in two *)
(* address spaces, and every page that is in use is reached from the       *)
(* thread that will free it, also while process_exit() takes the address   *)
(* space apart.                                                            *)
PagesAreAccounted ==
  LET dir(t) == IF pagedir[t] # NULL THEN pagedir[t] ELSE pd[t]
      pages(t) == IF dir(t) = NULL THEN {} ELSE {dir(t)} \cup Frames(dir(t))
  IN
  /\ \A t \in Thread : dir(t) # NULL => table[dir(t)] # NULL
  /\ \A t, u \in Thread : t # u => pages(t) \cap pages(u) = {}
  /\ Page \ free = UNION {pages(t) : t \in Thread}
=============================================================================
