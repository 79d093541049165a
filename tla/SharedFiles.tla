----------------------------- MODULE SharedFiles -----------------------------
(***************************************************************************)
(* filesys/inode.c, directory.c, filesys.c and the free map when calls of  *)
(* several threads overlap.  The file system has no lock: the timer may    *)
(* switch threads anywhere, and every disk access sleeps.  A step here     *)
(* reads or writes one shared thing: the free map, a sector, the list of   *)
(* open inodes or an inode in memory.                                      *)
(* list_push_front() and list_remove() are one step; AllList shows what    *)
(* they do to each other when they overlap.  Here they need not be cut in  *)
(* pieces: OpenedAreRead is violated already as they are, and in ApartSpec *)
(* nobody else uses the list meanwhile.                                    *)
(*                                                                         *)
(* Every call but close() opens the root directory, so that its inode is   *)
(* shared by all of them, and closes it at its end.                        *)
(*                                                                         *)
(* FileSys has the same calls with their data sectors, descriptors and     *)
(* crashes, one call at a time.  Here a file has no data, so that its      *)
(* inode's sector is all it owns, the directory is one sector, and the     *)
(* copy of the free map on the disk is left out.                           *)
(***************************************************************************)
EXTENDS Integers, Sequences, SequencesExt, FiniteSets, FiniteSetsExt

CONSTANTS
  Thread, Name, NULL,
  Sector,          \* numbers of the sectors that files can use
  ROOT_DIR_SECTOR, \* that of the root directory's inode
  DIR_ENTRIES,     \* entries of the root directory
  MaxObject        \* bound of the model on inodes in memory

VARIABLES
  free_map,    \* sectors marked used, among those that files can use
  disk,        \* of each sector: the name of the file whose inode it holds
  entries,     \* of each slot of the directory: [name, sector], or NULL
  open_inodes, \* the list: inodes in memory, by number
  inode,       \* of each number: [sector, open_cnt, removed, data], or NULL
  file,        \* the inode that each thread has open, or NULL
  dir,         \* the root directory's inode as each thread's call has it open
  call         \* the call each thread is in

vars == <<free_map, disk, entries, open_inodes, inode, file, dir, call>>

Slot == 1 .. DIR_ENTRIES
Object == 1 .. MaxObject

(* The local variables of a thread's call, NULL until they are set.        *)
(* object is the inode that inode_open() or inode_close() is about.        *)
Idle == [op |-> "none", at |-> "none", name |-> NULL, sector |-> NULL, slot |-> NULL,
         object |-> NULL, bounce |-> NULL]

Init ==
  /\ free_map = {}
  /\ disk = [s \in Sector \cup {ROOT_DIR_SECTOR} |->
                IF s = ROOT_DIR_SECTOR THEN "root" ELSE NULL]
  /\ entries = [k \in Slot |-> NULL]
  /\ open_inodes = <<>>
  /\ inode = [o \in Object |-> NULL]
  /\ file = [t \in Thread |-> NULL]
  /\ dir = [t \in Thread |-> NULL]
  /\ call = [t \in Thread |-> Idle]

At(t, place) == call[t].at = place
Goto(t, place) == call' = [call EXCEPT ![t].at = place]
Return(t) == call' = [call EXCEPT ![t] = Idle]

-----------------------------------------------------------------------------
(* The calls begin.                                                        *)
Begin(t, c) ==
  /\ call[t] = Idle
  /\ call' = [call EXCEPT ![t] = c]
  /\ UNCHANGED <<free_map, disk, entries, open_inodes, inode, dir>>

(* Each of them begins with dir_open_root().                               *)
Create(t, name) ==
  /\ Begin(t, [Idle EXCEPT !.op = "create", !.at = "open", !.name = name])
  /\ UNCHANGED file

Open(t, name) ==
  /\ file[t] = NULL
  /\ Begin(t, [Idle EXCEPT !.op = "open", !.at = "open", !.name = name])
  /\ UNCHANGED file

RemoveFile(t, name) ==
  /\ Begin(t, [Idle EXCEPT !.op = "remove", !.at = "open", !.name = name])
  /\ UNCHANGED file

Close(t) ==
  /\ file[t] # NULL
  /\ Begin(t, [Idle EXCEPT !.op = "close", !.at = "close", !.object = file[t]])
  /\ file' = [file EXCEPT ![t] = NULL]

(* dir_close(), the end of every call that opened the directory.           *)
CloseDir(t) ==
  /\ call' = [call EXCEPT ![t] = [Idle EXCEPT !.op = "close", !.at = "close",
                                              !.object = dir[t]]]
  /\ dir' = [dir EXCEPT ![t] = NULL]

-----------------------------------------------------------------------------
(* lookup() of filesys_open() and filesys_remove().  It reads one entry    *)
(* after the other, none of which moves.                                   *)
Lookup(t) ==
  /\ At(t, "lookup")
  /\ LET Found == {k \in Slot : entries[k] # NULL /\ entries[k].name = call[t].name}
     IN \/ /\ Found = {}
           /\ CloseDir(t)
        \/ /\ Found # {}
           /\ call' = [call EXCEPT ![t].at = "open", ![t].slot = Min(Found),
                                   ![t].sector = entries[Min(Found)].sector]
           /\ UNCHANGED dir
  /\ UNCHANGED <<free_map, disk, entries, open_inodes, inode, file>>

-----------------------------------------------------------------------------
(* filesys_create().                                                       *)

(* bitmap_scan_and_flip() looks first and sets the bit then.               *)
Scan(t) ==
  /\ At(t, "scan")
  /\ LET Unused == Sector \ free_map IN
       \/ Unused = {} /\ CloseDir(t)
       \/ /\ Unused # {}
          /\ call' = [call EXCEPT ![t].at = "flip", ![t].sector = Min(Unused)]
          /\ UNCHANGED dir
  /\ UNCHANGED <<free_map, disk, entries, open_inodes, inode, file>>

Flip(t) ==
  /\ At(t, "flip")
  /\ free_map' = free_map \cup {call[t].sector}
  /\ Goto(t, "inode")
  /\ UNCHANGED <<disk, entries, open_inodes, inode, file, dir>>

(* inode_create().                                                         *)
WriteInode(t) ==
  /\ At(t, "inode")
  /\ disk' = [disk EXCEPT ![call[t].sector] = call[t].name]
  /\ Goto(t, "add")
  /\ UNCHANGED <<free_map, entries, open_inodes, inode, file, dir>>

(* dir_add(): the name and a free slot are looked up.                      *)
Add(t) ==
  /\ At(t, "add")
  /\ LET Unused == {k \in Slot : entries[k] = NULL}
         found == \E k \in Slot \ Unused : entries[k].name = call[t].name
     IN IF found \/ Unused = {} THEN Goto(t, "undo")
        ELSE call' = [call EXCEPT ![t].at = "bounce", ![t].slot = Min(Unused)]
  /\ UNCHANGED <<free_map, disk, entries, open_inodes, inode, file, dir>>

Undo(t) ==
  /\ At(t, "undo")
  /\ free_map' = free_map \ {call[t].sector}
  /\ CloseDir(t)
  /\ UNCHANGED <<disk, entries, open_inodes, inode, file>>

-----------------------------------------------------------------------------
(* inode_write_at() of an entry: the sector is read into a buffer, changed *)
(* and written back.                                                       *)

ReadEntries(t) ==
  /\ At(t, "bounce")
  /\ call' = [call EXCEPT ![t].at = "entry", ![t].bounce = entries]
  /\ UNCHANGED <<free_map, disk, entries, open_inodes, inode, file, dir>>

WriteEntries(t) ==
  /\ At(t, "entry")
  /\ LET c == call[t] IN
       /\ entries' = [c.bounce EXCEPT ![c.slot] =
                        IF c.op = "remove" THEN NULL
                        ELSE [name |-> c.name, sector |-> c.sector]]
       /\ IF c.op = "remove"
          THEN call' = [call EXCEPT ![t].at = "mark", ![t].bounce = NULL] /\ UNCHANGED dir
          ELSE CloseDir(t)
  /\ UNCHANGED <<free_map, disk, open_inodes, inode, file>>

-----------------------------------------------------------------------------
(* inode_open() and inode_close() begin.                                   *)
Enter(t) ==
  /\ call[t].at \in {"open", "close"}
  /\ Goto(t, IF At(t, "open") THEN "walk" ELSE "count")
  /\ UNCHANGED <<free_map, disk, entries, open_inodes, inode, file, dir>>

-----------------------------------------------------------------------------
(* inode_open(), of the directory first and then of the file.              *)

Wanted(t) == IF dir[t] = NULL THEN ROOT_DIR_SECTOR ELSE call[t].sector

(* The caller goes on with the inode o.  filesys_open() closes the         *)
(* directory, dir_remove() goes on to erase the entry.                     *)
Opened(t, o) ==
  \/ /\ dir[t] = NULL
     /\ dir' = [dir EXCEPT ![t] = o]
     /\ call' = [call EXCEPT ![t].at = IF call[t].op = "create" THEN "scan" ELSE "lookup",
                             ![t].object = NULL]
     /\ UNCHANGED file
  \/ /\ dir[t] # NULL /\ call[t].op = "open"
     /\ file' = [file EXCEPT ![t] = o]
     /\ CloseDir(t)
  \/ /\ dir[t] # NULL /\ call[t].op = "remove"
     /\ Goto(t, "bounce")
     /\ UNCHANGED <<file, dir>>

Walk(t) ==
  /\ At(t, "walk")
  /\ LET Found == {k \in DOMAIN open_inodes : inode[open_inodes[k]].sector = Wanted(t)}
     IN IF Found = {} THEN Goto(t, "push")
        ELSE call' = [call EXCEPT ![t].at = "reopen", ![t].object = open_inodes[Min(Found)]]
  /\ UNCHANGED <<free_map, disk, entries, open_inodes, inode, file, dir>>

(* inode_reopen().                                                         *)
Reopen(t) ==
  /\ At(t, "reopen")
  /\ inode' = [inode EXCEPT ![call[t].object].open_cnt = @ + 1]
  /\ Opened(t, call[t].object)
  /\ UNCHANGED <<free_map, disk, entries, open_inodes>>

(* A new one goes on the list before it is read.                           *)
Push(t) ==
  /\ At(t, "push")
  /\ LET Unused == {o \in Object : inode[o] = NULL}
         o == Min(Unused)
     IN /\ Unused # {}
        /\ inode' = [inode EXCEPT ![o] = [sector |-> Wanted(t), open_cnt |-> 1,
                                          removed |-> FALSE, data |-> NULL]]
        /\ open_inodes' = <<o>> \o open_inodes
        /\ call' = [call EXCEPT ![t].at = "read", ![t].object = o]
  /\ UNCHANGED <<free_map, disk, entries, file, dir>>

Read(t) ==
  /\ At(t, "read")
  /\ LET o == call[t].object IN
       /\ inode' = [inode EXCEPT ![o].data = disk[inode[o].sector]]
       /\ Opened(t, o)
  /\ UNCHANGED <<free_map, disk, entries, open_inodes>>

-----------------------------------------------------------------------------
(* inode_remove() and inode_close().                                       *)

(* The file that was removed is closed, then the directory.                *)
Closed(t) == IF dir[t] = NULL THEN Return(t) /\ UNCHANGED dir ELSE CloseDir(t)

Mark(t) ==
  /\ At(t, "mark")
  /\ inode' = [inode EXCEPT ![call[t].object].removed = TRUE]
  /\ Goto(t, "close")
  /\ UNCHANGED <<free_map, disk, entries, open_inodes, file, dir>>

Count(t) ==
  /\ At(t, "count")
  /\ LET o == call[t].object IN
       /\ inode' = [inode EXCEPT ![o].open_cnt = @ - 1]
       /\ IF inode[o].open_cnt = 1 THEN Goto(t, "unlist") /\ UNCHANGED dir ELSE Closed(t)
  /\ UNCHANGED <<free_map, disk, entries, open_inodes, file>>

(* Mutant: an inode that was removed is left on the list.                  *)
Unlist_kept(t) ==
  /\ At(t, "unlist")
  /\ LET o == call[t].object IN
       /\ \E k \in DOMAIN open_inodes :
            /\ open_inodes[k] = o
            /\ open_inodes' = IF inode[o].removed THEN open_inodes
                              ELSE RemoveAt(open_inodes, k)
       /\ Goto(t, IF inode[o].removed THEN "release" ELSE "free")
  /\ UNCHANGED <<free_map, disk, entries, inode, file, dir>>

(* list_remove().                                                          *)
Unlist(t) ==
  /\ At(t, "unlist")
  /\ LET o == call[t].object IN
       /\ \E k \in DOMAIN open_inodes :
            open_inodes[k] = o /\ open_inodes' = RemoveAt(open_inodes, k)
       /\ Goto(t, IF inode[o].removed THEN "release" ELSE "free")
  /\ UNCHANGED <<free_map, disk, entries, inode, file, dir>>

(* free_map_release().                                                     *)
Release(t) ==
  /\ At(t, "release")
  /\ free_map' = free_map \ {inode[call[t].object].sector}
  /\ Goto(t, "free")
  /\ UNCHANGED <<disk, entries, open_inodes, inode, file, dir>>

Free(t) ==
  /\ At(t, "free")
  /\ inode' = [inode EXCEPT ![call[t].object] = NULL]
  /\ Closed(t)
  /\ UNCHANGED <<free_map, disk, entries, open_inodes, file>>

(* What C does to an inode that was freed is open: a behaviour ends where  *)
(* a step would use one.                                                   *)
NotFreed(t) == call[t].object # NULL => inode[call[t].object] # NULL

Next ==
  \E t \in Thread :
    /\ NotFreed(t)
    /\ \/ \E name \in Name : Create(t, name) \/ Open(t, name) \/ RemoveFile(t, name)
       \/ Close(t) \/ Lookup(t)
       \/ Scan(t) \/ Flip(t) \/ WriteInode(t) \/ Add(t) \/ Undo(t)
       \/ ReadEntries(t) \/ WriteEntries(t)
       \/ Enter(t) \/ Walk(t) \/ Reopen(t) \/ Push(t) \/ Read(t)
       \/ Mark(t) \/ Count(t) \/ Unlist(t) \/ Release(t) \/ Free(t)

Spec == Init /\ [][Next]_vars

-----------------------------------------------------------------------------
(* What callers would have to keep apart; the kernel keeps nothing apart.  *)

(* Two calls conflict if both change the directory and the free map, or if *)
(* one removes what the other opens.                                       *)
Conflict(c, d) ==
  \/ {c.op, d.op} \subseteq {"create", "remove"}
  \/ {c.op, d.op} = {"open", "remove"} /\ c.name = d.name

(* Where a thread uses the list of open inodes and the counts of openers:  *)
(* inode_open() to its end, and inode_close() up to list_remove().         *)
Exclusive == {"walk", "reopen", "push", "read", "count", "unlist"}

Apart ==
  \A t, u \in Thread : t # u =>
    /\ ~Conflict(call[t], call[u])
    /\ ~{call[t].at, call[u].at} \subseteq Exclusive

ApartNext == Next /\ Apart'

ApartSpec == Init /\ [][ApartNext]_vars

-----------------------------------------------------------------------------
(* Properties.                                                             *)

Live == {o \in Object : inode[o] # NULL}

(* Who uses inode o: threads that have it open as a file, calls that have  *)
(* it open as the directory, and calls that are about to close it, erase   *)
(* its entry or read it.                                                   *)
Counted == {"read", "bounce", "entry", "mark", "close", "count"}
Held(t, how) ==
  CASE how = "file" -> file[t]
    [] how = "dir" -> dir[t]
    [] how = "call" -> IF call[t].at \in Counted THEN call[t].object ELSE NULL
Users(o) == {u \in Thread \X {"file", "dir", "call"} : Held(u[1], u[2]) = o}

(* Calls that own a sector.                                                *)
Creating ==
  {t \in Thread : call[t].op = "create" /\ call[t].at \in {"inode", "add", "undo", "bounce", "entry"}}

OwnedByCalls ==
  {call[t].sector : t \in Creating} \cup
  {inode[call[t].object].sector : t \in {t \in Thread : At(t, "release")}}

Named == {k \in Slot : entries[k] # NULL}

(* No two files have a name or a sector in common, and what is under a     *)
(* name is the inode that was created for it.                              *)
NamesAreSound ==
  \A k \in Named :
    /\ disk[entries[k].sector] = entries[k].name
    /\ \A l \in Named \ {k} :
         entries[k].name # entries[l].name /\ entries[k].sector # entries[l].sector

(* An inode in memory is alone for its sector and has been read when it is *)
(* used, and its count is the number of those who use it.                  *)
InodesAreSound ==
  /\ \A t \in Thread, o \in Object :
       o \in {file[t], dir[t]} => o \in Range(open_inodes) /\ inode[o].data # NULL
  /\ Range(open_inodes) \subseteq Live /\ IsInjective(open_inodes)
  /\ \A o \in Range(open_inodes) :
       /\ inode[o].open_cnt = Cardinality(Users(o))
       /\ inode[o].data \in {NULL, disk[inode[o].sector]}
       /\ \A p \in Range(open_inodes) \ {o} : inode[o].sector # inode[p].sector

(* A sector is marked used as long as a file or a call owns it, and no     *)
(* longer.                                                                 *)
SectorsAreSound ==
  /\ free_map = {entries[k].sector : k \in Named} \cup OwnedByCalls
                  \cup ({inode[o].sector : o \in Range(open_inodes)} \ {ROOT_DIR_SECTOR})
  /\ \A t \in Creating : call[t].sector \notin {entries[k].sector : k \in Named}

(* It is enough to let one thread at a time create or remove, none remove  *)
(* a file that another opens, and one at a time use the list of open       *)
(* inodes and their counts: with these kept apart files stay sound at      *)
(* every step, whatever else overlaps (filesys.c:45, inode.c:163).         *)
FilesStaySound == NamesAreSound /\ InodesAreSound /\ SectorsAreSound

(* "Reads an inode from SECTOR and returns a `struct inode' that contains  *)
(* it" (inode.c:108): an inode that inode_open() has returned has been     *)
(* read.  It need not be: another call that opens the root directory or    *)
(* the same file finds it on the list while it is read (inode.c:135).      *)
OpenedAreRead ==
  \A t \in Thread, o \in Object :
    o \in {file[t], dir[t]} => inode[o] # NULL /\ inode[o].data # NULL
=============================================================================
