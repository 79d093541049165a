------------------------------- MODULE FileSys -------------------------------
(***************************************************************************)
(* filesys/*.c with the descriptor tables of userprog/process.c: create,   *)
(* open, write, remove and close, and a crash between any two writes to    *)
(* the disk.                                                               *)
(*                                                                         *)
(* The file system has no lock.  Here calls do not overlap, as when one    *)
(* process runs at a time; files stay open from one call to the next.  An  *)
(* action ends with at most one write to the disk, and what it does in     *)
(* memory before that is lost in a crash anyway.  Memory allocation does   *)
(* not fail, and a disk write is all or nothing.                           *)
(*                                                                         *)
(* The root directory and the free map have fixed sectors.  The content of *)
(* the other sectors is an inode or just data.                             *)
(***************************************************************************)
EXTENDS Integers, FiniteSets, FiniteSetsExt, Sequences, SequencesExt, Functions, TLC

CONSTANTS
  Sector,      \* numbers of the sectors that files can use
  Name,        \* valid file names
  Bad,         \* a name that is empty or too long
  Process,
  NULL,        \* no directory entry, no file
  DIR_ENTRIES, \* entries of the root directory
  MAX_FILE_DESC_COUNT, \* descriptors of a process, 0 to 2 left aside
  MaxLength,   \* bound of the model on the length of a file, in sectors
  MaxLost      \* bound of the model on the files opened without a descriptor

ASSUME FileSysAssumption ==
  /\ Sector \subseteq Nat /\ IsFiniteSet(Sector)
  /\ IsFiniteSet(Process)
  /\ Bad \notin Name /\ NULL \notin Sector /\ NULL \notin [name : Name, sector : Sector]
  /\ DIR_ENTRIES \in Nat /\ MAX_FILE_DESC_COUNT \in Nat
  /\ MaxLength \in Nat /\ MaxLost \in Nat

(* Processes and the names are interchangeable.                            *)
Symmetry == Permutations(Name) \cup Permutations(Process)

VARIABLES
  \* on disk
  disk,        \* of each sector: an inode, or "data"
  entries,     \* the root directory: [name, sector], or NULL if not in use
  free_map,    \* sectors marked used; every change is written through
  \* in memory
  open_inodes, \* by sector: [open_cnt, removed, data]
  file_desc,   \* of each process: the sectors of its open files, NULL if closed
  lost,        \* struct files that no descriptor names, by sector
  call         \* the call in progress

diskVars == <<disk, entries, free_map>>
fileVars == <<open_inodes, file_desc, lost>>
vars == <<diskVars, fileVars, call>>

Slot == 1 .. DIR_ENTRIES

(* An inode names length consecutive sectors.                              *)
Inode == [start : Sector \cup {0}, length : 0 .. MaxLength]
Extent(i) == i.start .. i.start + i.length - 1

(***************************************************************************)
(* The call in progress: where it is, and                                  *)
(*   create: its arguments and the sectors allocated so far;               *)
(*   close:  the sectors of the inodes still to be closed;                 *)
(*   release: the sectors still to be freed, after which it goes on with   *)
(*   closing.                                                              *)
(***************************************************************************)
Idle == [at |-> "idle"]

NoFiles == [p \in Process |-> <<>>]

(* A formatted disk, after filesys_init().                                 *)
Init ==
  /\ disk = [s \in Sector |-> "data"]
  /\ entries = [i \in Slot |-> NULL]
  /\ free_map = {}
  /\ open_inodes = <<>>
  /\ file_desc = NoFiles
  /\ lost = [s \in Sector |-> 0]
  /\ call = Idle

-----------------------------------------------------------------------------
(* The free map.                                                           *)

(* bitmap_scan(): the first groups of n sectors that are free.             *)
Groups(n) == {s \in Sector : s .. s + n - 1 \subseteq Sector \ free_map}
Fits(n) == n = 0 \/ Groups(n) # {}
Found(n) == IF n = 0 THEN 0 ELSE Min(Groups(n))

(* free_map_allocate() and free_map_release().                             *)
Mark(S) == free_map' = free_map \cup S
Release(S) == free_map' = free_map \ S

-----------------------------------------------------------------------------
(* The root directory.                                                     *)

(* lookup(): the slots that hold name.                                     *)
lookup(name) == {i \in Slot : entries[i] # NULL /\ entries[i].name = name}

FreeSlots == {i \in Slot : entries[i] = NULL}

-----------------------------------------------------------------------------
(* filesys_create().                                                       *)

(* free_map_allocate (1, &inode_sector): without one it fails.             *)
Create(name, length) ==
  /\ call = Idle
  /\ Fits(1)
  /\ LET s == Found(1) IN
       /\ Mark({s})
       /\ call' = [at |-> "allocate", name |-> name, length |-> length, sector |-> s]
  /\ UNCHANGED <<disk, entries, fileVars>>

(* inode_create(): the data sectors; without them it fails.                *)
AllocateData ==
  /\ call.at = "allocate"
  /\ IF Fits(call.length)
     THEN LET i == [start |-> Found(call.length), length |-> call.length] IN
            /\ Mark(Extent(i))
            /\ call' = [at |-> "inode", name |-> call.name, sector |-> call.sector,
                        inode |-> i, zeroed |-> 0]
     ELSE /\ call' = [at |-> "release", extents |-> <<{call.sector}>>, closing |-> <<>>]
          /\ UNCHANGED free_map
  /\ UNCHANGED <<disk, entries, fileVars>>

(* Writes the inode.                                                       *)
WriteInode ==
  /\ call.at = "inode"
  /\ disk' = [disk EXCEPT ![call.sector] = call.inode]
  /\ call' = [call EXCEPT !.at = "data"]
  /\ UNCHANGED <<entries, free_map, fileVars>>

(* Writes zeros to the next data sector, whatever it held.                 *)
WriteZeros ==
  /\ call.at = "data" /\ call.zeroed < call.inode.length
  /\ disk' = [disk EXCEPT ![call.inode.start + call.zeroed] = "data"]
  /\ call' = [call EXCEPT !.zeroed = @ + 1]
  /\ UNCHANGED <<entries, free_map, fileVars>>

(* The inode and its data are written.                                     *)
Created == call.at = "data" /\ call.zeroed = call.inode.length

AddFails == call.name = Bad \/ lookup(call.name) # {} \/ FreeSlots = {}

(* Mutant: the name is not looked up before the entry is written.          *)
DirAdd_unchecked ==
  /\ Created
  /\ FreeSlots # {}
  /\ entries' = [entries EXCEPT ![Min(FreeSlots)] =
                   [name |-> call.name, sector |-> call.sector]]
  /\ call' = Idle
  /\ UNCHANGED <<disk, free_map, fileVars>>

(* dir_add().  If it fails only the inode's sector is released, not the    *)
(* data sectors.                                                           *)
DirAdd ==
  /\ Created
  /\ IF AddFails
     THEN /\ call' = [at |-> "release", extents |-> <<{call.sector}>>, closing |-> <<>>]
          /\ UNCHANGED entries
     ELSE /\ entries' = [entries EXCEPT ![Min(FreeSlots)] =
                           [name |-> call.name, sector |-> call.sector]]
          /\ call' = Idle
  /\ UNCHANGED <<disk, free_map, fileVars>>

-----------------------------------------------------------------------------
(* inode_open() and inode_close().                                         *)

inode_open(s) ==
  IF s \in DOMAIN open_inodes
  THEN [open_inodes EXCEPT ![s].open_cnt = @ + 1]
  ELSE [t \in DOMAIN open_inodes \cup {s} |->
          IF t = s THEN [open_cnt |-> 1, removed |-> FALSE, data |-> disk[s]]
          ELSE open_inodes[t]]

(* What the call does next, with closing the inodes left to close.         *)
GoOn(closing) ==
  call' = IF closing = <<>> THEN Idle ELSE [at |-> "close", closing |-> closing]

(* Mutant: the sectors of a removed inode are freed at the first close.    *)
InodeClose_early ==
  /\ call.at = "close"
  /\ LET s == Head(call.closing)
         i == open_inodes[s] IN
       /\ IF i.open_cnt > 1
          THEN open_inodes' = [open_inodes EXCEPT ![s].open_cnt = @ - 1]
          ELSE open_inodes' = Restrict(open_inodes, DOMAIN open_inodes \ {s})
       /\ IF i.removed
          THEN call' = [at |-> "release", extents |-> <<{s}, Extent(i.data)>>,
                        closing |-> Tail(call.closing)]
          ELSE GoOn(Tail(call.closing))
  /\ UNCHANGED <<diskVars, file_desc, lost>>

InodeClose ==
  /\ call.at = "close"
  /\ LET s == Head(call.closing)
         i == open_inodes[s] IN
       IF i.open_cnt > 1
       THEN /\ open_inodes' = [open_inodes EXCEPT ![s].open_cnt = @ - 1]
            /\ GoOn(Tail(call.closing))
       ELSE /\ open_inodes' = Restrict(open_inodes, DOMAIN open_inodes \ {s})
            /\ IF i.removed
               THEN call' = [at |-> "release", extents |-> <<{s}, Extent(i.data)>>,
                             closing |-> Tail(call.closing)]
               ELSE GoOn(Tail(call.closing))
  /\ UNCHANGED <<diskVars, file_desc, lost>>

(* Mutant: of the sectors of a removed file only the inode's is freed.     *)
ReleaseNext_first ==
  /\ call.at = "release"
  /\ Release(Head(call.extents))
  /\ GoOn(call.closing)
  /\ UNCHANGED <<disk, entries, fileVars>>

(* free_map_release(), once for the inode, once for its data.              *)
ReleaseNext ==
  /\ call.at = "release"
  /\ Release(Head(call.extents))
  /\ IF Tail(call.extents) = <<>>
     THEN GoOn(call.closing)
     ELSE call' = [call EXCEPT !.extents = Tail(@)]
  /\ UNCHANGED <<disk, entries, fileVars>>

-----------------------------------------------------------------------------
(* open, write, remove, close and exit.                                    *)

(* filesys_open() and process_add_file(), which never uses a slot again.   *)
(* When the table is full the open file is left without a descriptor.      *)
Open(p) ==
  /\ call = Idle
  /\ \E name \in Name : \E k \in lookup(name) :
       LET s == entries[k].sector IN
         /\ open_inodes' = inode_open(s)
         /\ IF Len(file_desc[p]) < MAX_FILE_DESC_COUNT
            THEN /\ file_desc' = [file_desc EXCEPT ![p] = Append(@, s)]
                 /\ UNCHANGED lost
            ELSE /\ FoldFunction(+, 0, lost) < MaxLost
                 /\ lost' = [lost EXCEPT ![s] = @ + 1]
                 /\ UNCHANGED file_desc
  /\ UNCHANGED <<diskVars, call>>

(* file_write(): a sector of the file.                                     *)
Write(p) ==
  /\ call = Idle
  /\ \E s \in Range(file_desc[p]) \ {NULL} : \E d \in Extent(open_inodes[s].data) :
       disk' = [disk EXCEPT ![d] = "data"]
  /\ UNCHANGED <<entries, free_map, fileVars, call>>

(* dir_remove(): opens the inode, erases the entry, marks the inode.       *)
RemoveFile ==
  /\ call = Idle
  /\ \E name \in Name : \E k \in lookup(name) :
       LET s == entries[k].sector IN
         /\ entries' = [entries EXCEPT ![k] = NULL]
         /\ open_inodes' = [inode_open(s) EXCEPT ![s].removed = TRUE]
         /\ GoOn(<<s>>)
  /\ UNCHANGED <<disk, free_map, file_desc, lost>>

(* process_close_file().                                                   *)
Close(p) ==
  /\ call = Idle
  /\ \E fd \in DOMAIN file_desc[p] :
       /\ file_desc[p][fd] # NULL
       /\ file_desc' = [file_desc EXCEPT ![p][fd] = NULL]
       /\ GoOn(<<file_desc[p][fd]>>)
  /\ UNCHANGED <<diskVars, open_inodes, lost>>

(* The elements of list with the indices K, in the order of the list.      *)
(* SelectSeq() says the same by recursion, which proofs cannot use.        *)
Nth(K, k) == CHOOSE i \in K : Cardinality({j \in K : j <= i}) = k
Picked(list, K) == [k \in 1 .. Cardinality(K) |-> list[Nth(K, k)]]

(* The descriptors of p's open files.                                      *)
OpenFds(p) == {fd \in DOMAIN file_desc[p] : file_desc[p][fd] # NULL}

(* Mutant: exit leaves the files of the process open.                      *)
Exit_keeps_files(p) ==
  /\ call = Idle
  /\ file_desc[p] # <<>>
  /\ file_desc' = [file_desc EXCEPT ![p] = <<>>]
  /\ UNCHANGED <<diskVars, open_inodes, lost, call>>

(* clear_opened_filedesc() in process_exit(); another process takes p's    *)
(* place, with an empty table.                                             *)
Exit(p) ==
  /\ call = Idle
  /\ file_desc[p] # <<>>
  /\ GoOn(Picked(file_desc[p], OpenFds(p)))
  /\ file_desc' = [file_desc EXCEPT ![p] = <<>>]
  /\ UNCHANGED <<diskVars, open_inodes, lost>>

-----------------------------------------------------------------------------
(* The machine stops, and filesys_init() starts again from the disk.       *)
Crash ==
  /\ open_inodes' = <<>>
  /\ file_desc' = NoFiles
  /\ lost' = [s \in Sector |-> 0]
  /\ call' = Idle
  /\ UNCHANGED diskVars

Next ==
  \/ \E name \in Name \cup {Bad} : \E n \in 0 .. MaxLength : Create(name, n)
  \/ AllocateData \/ WriteInode \/ WriteZeros \/ DirAdd
  \/ InodeClose \/ ReleaseNext
  \/ \E p \in Process : Open(p) \/ Write(p) \/ Close(p) \/ Exit(p)
  \/ RemoveFile \/ Crash

Spec == Init /\ [][Next]_vars

-----------------------------------------------------------------------------
(* Properties.                                                             *)

(* The sectors of the file whose inode is i, in sector s.                  *)
Sectors(s, i) == {s} \cup Extent(i)

Listed == {entries[k].sector : k \in {k \in Slot : entries[k] # NULL}}

(* What is on the disk is sound at every moment, so that a crash finds it  *)
(* so: an entry names a written inode, no name and no sector belongs to    *)
(* two files, and the free map has no sector of a file free.               *)
DiskIsSound ==
  \A k \in Slot : entries[k] # NULL =>
    LET s == entries[k].sector IN
      /\ disk[s] \in Inode
      /\ Sectors(s, disk[s]) \subseteq free_map
      /\ \A l \in Slot \ {k} : entries[l] # NULL =>
           /\ entries[l].name # entries[k].name
           /\ Sectors(entries[l].sector, disk[entries[l].sector])
                \cap Sectors(s, disk[s]) = {}

(* The sectors that the call in progress has allocated or is to free.      *)
InCall ==
  CASE call.at = "allocate" -> {call.sector}
    [] call.at \in {"inode", "data"} -> Sectors(call.sector, call.inode)
    [] call.at = "release" -> UNION Range(call.extents)
    [] OTHER -> {}

(* A file can be used as long as it is open, also after it was removed:    *)
(* its sectors stay allocated and belong to no other file, and its inode   *)
(* in memory is the one on the disk.  The sectors of the call in progress  *)
(* are its own, and used when it frees them (free-map.c:47).               *)
OpenFilesKeepSectors ==
  /\ InCall \subseteq free_map
  /\ \A s \in DOMAIN open_inodes :
       LET i == open_inodes[s].data IN
         /\ disk[s] = i
         /\ Sectors(s, i) \subseteq free_map
         /\ open_inodes[s].removed <=> s \notin Listed
         /\ \A t \in (DOMAIN open_inodes \cup Listed) \ {s} :
              Sectors(t, disk[t]) \cap Sectors(s, i) = {}
         /\ Sectors(s, i) \cap InCall = {}

(* The inodes that are in memory are those that descriptors, files lost by *)
(* open() and the call in progress refer to, and open_cnt counts them.     *)
Openers(s) ==
  lost[s]
  + Cardinality({h \in Process \X (1 .. MAX_FILE_DESC_COUNT) :
                   h[2] \in DOMAIN file_desc[h[1]] /\ file_desc[h[1]][h[2]] = s})
  + (IF call.at \in {"close", "release"}
     THEN Cardinality({k \in DOMAIN call.closing : call.closing[k] = s}) ELSE 0)

CountsAreExact ==
  \A s \in Sector :
    Openers(s) = IF s \in DOMAIN open_inodes THEN open_inodes[s].open_cnt ELSE 0

(* A file stays as it is until its last opener closes it, which the count  *)
(* tells (inode.c:171).                                                    *)
OpenFilesAreSound == OpenFilesKeepSectors /\ CountsAreExact

(* Sectors marked used that no entry, open inode or call accounts for.     *)
Leaked ==
  free_map \ (InCall \cup UNION {Sectors(s, disk[s]) : s \in DOMAIN open_inodes \cup Listed})

(* Sectors are lost in a crash or by any create() that fails in dir_add(), *)
(* because the directory is full, the name exists or it is invalid         *)
(* (filesys.c:54), and in no other way: a removed file gives all its       *)
(* sectors back when it is closed for the last time.                       *)
OnlyKnownLeaks ==
  [][Leaked' \subseteq Leaked \/ Crash \/ (Created /\ AddFails)]_vars
=============================================================================
