------------------------------ MODULE MCFileSys -------------------------------
(***************************************************************************)
(* The calls of the file system in two ways: one at a time, with data,     *)
(* descriptors and crashes (FileSys), and overlapping (SharedFiles).       *)
(***************************************************************************)
EXTENDS FileSys

VARIABLES
  part, \* which of the two runs; the other stays in its initial state
  shr_free_map, shr_disk, shr_entries, shr_open_inodes, shr_inode, shr_file,
  shr_dir, shr_call

(* Two sectors besides that of the root directory's inode, and an inode in *)
(* memory for each.                                                        *)
Shr == INSTANCE SharedFiles WITH
  Thread <- Process, Sector <- {2, 3}, ROOT_DIR_SECTOR <- 1, MaxObject <- 3,
  free_map <- shr_free_map, disk <- shr_disk, entries <- shr_entries,
  open_inodes <- shr_open_inodes, inode <- shr_inode, file <- shr_file, dir <-
  shr_dir, call <- shr_call

Shrvars ==
  <<shr_free_map, shr_disk, shr_entries, shr_open_inodes, shr_inode, shr_file,
    shr_dir, shr_call>>

MCvars == <<part, vars, Shrvars>>

MCInit == part \in {"FileSys", "SharedFiles"} /\ Init /\ Shr!Init

MCNext ==
  /\ UNCHANGED part
  /\ \/ part = "FileSys" /\ Next /\ UNCHANGED Shrvars
     \/ part = "SharedFiles" /\ Shr!ApartNext /\ UNCHANGED vars

MCSpec == MCInit /\ [][MCNext]_MCvars

-----------------------------------------------------------------------------
(* Properties.                                                             *)

(* Calls that overlap, kept apart as SharedFiles says, leave files sound   *)
(* at every step (inode.c:163, filesys.c:45).                              *)
FilesStaySound == Shr!FilesStaySound
=============================================================================
