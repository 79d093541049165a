------------------------------ MODULE MCPromises ------------------------------
(***************************************************************************)
(* What comments of the repository say and the code does not do, on small  *)
(* instances of the modules.  The modules share no state, and run one      *)
(* after the other: each goes on until it has broken the promise that is   *)
(* made of its code.                                                       *)
(***************************************************************************)
EXTENDS Integers, Sequences, FiniteSets

CONSTANT NULL

VARIABLES
  shr_free_map, shr_disk, shr_entries, shr_open_inodes, shr_inode, shr_file,
  shr_dir, shr_call, arg_at, arg_stack, arg_params, arg_size, arg_i,
  arg_buffer, arg_taken, sys_at, sys_stack, sys_params, sys_size, sys_i,
  sys_buffer, sys_taken, par_table, par_calls, par_part_nr, par_blocks,
  par_reached, arc_given, arc_disk, arc_files, arc_extract_sector,
  arc_append_sector, arc_appended, arc_at, arc_name, arc_done, lib_call,
  lib_given, lib_result, lib_array, lib_i, lib_cnt, lib_at_index, lib_at,
  lib_key, lib_first, lib_last, lib_memory, lib_remaining, lib_save_ptr,
  lib_tokens, lim_call, lim_result

Shr == INSTANCE SharedFiles WITH
  Thread <- {"t1", "t2"}, Name <- {"x", "y"}, Sector <- {2, 3},
  ROOT_DIR_SECTOR <- 1, DIR_ENTRIES <- 2, MaxObject <- 3,
  free_map <- shr_free_map, disk <- shr_disk, entries <- shr_entries,
  open_inodes <- shr_open_inodes, inode <- shr_inode, file <- shr_file, dir <-
  shr_dir, call <- shr_call
Arg == INSTANCE Syscall WITH
  MaxFrame <- 6, MaxSize <- 0,
  at <- arg_at, stack <- arg_stack, params <- arg_params, size <- arg_size, i
  <- arg_i, buffer <- arg_buffer, taken <- arg_taken
Sys == INSTANCE Syscall WITH
  MaxFrame <- 0, MaxSize <- 5,
  at <- sys_at, stack <- sys_stack, params <- sys_params, size <- sys_size, i
  <- sys_i, buffer <- sys_buffer, taken <- sys_taken
Par == INSTANCE Partitions WITH
  W <- 3, DiskSize <- 5, Entries <- 2, MaxDepth <- 4,
  table <- par_table, calls <- par_calls, part_nr <- par_part_nr, blocks <-
  par_blocks, reached <- par_reached
Arc == INSTANCE Archive WITH
  Name <- {"a", "b"}, MaxSize <- 1, MaxEntries <- 2, DiskSize <- 4,
  given <- arc_given, disk <- arc_disk, files <- arc_files, extract_sector <-
  arc_extract_sector, append_sector <- arc_append_sector, appended <-
  arc_appended, at <- arc_at, name <- arc_name, done <- arc_done
Lib == INSTANCE Library WITH
  Key <- {1, 2}, MaxCount <- 2, Char <- {"a"}, Delimiter <- {" "},
  Null <- "0", Size <- 3,
  call <- lib_call, given <- lib_given, result <- lib_result, array <-
  lib_array, i <- lib_i, cnt <- lib_cnt, at_index <- lib_at_index, at <-
  lib_at, key <- lib_key, first <- lib_first, last <- lib_last, memory <-
  lib_memory, remaining <- lib_remaining, save_ptr <- lib_save_ptr, tokens <-
  lib_tokens
Lim == INSTANCE Limits WITH
  W <- 2, SW <- 6, HEADER <- 3, SMALLEST <- 4, ArenaPage <- 16,
  MaxArgument <- 8, OW <- 5, AW <- 4, PGSIZE <- 2, PHYS_BASE <- 12,
  Sizes <- {1, 5}, MaxCount <- 2, FileLength <- 2,
  call <- lim_call, result <- lim_result

Shrvars ==
  <<shr_free_map, shr_disk, shr_entries, shr_open_inodes, shr_inode, shr_file,
    shr_dir, shr_call>>
Argvars ==
  <<arg_at, arg_stack, arg_params, arg_size, arg_i, arg_buffer, arg_taken>>
Sysvars ==
  <<sys_at, sys_stack, sys_params, sys_size, sys_i, sys_buffer, sys_taken>>
Parvars == <<par_table, par_calls, par_part_nr, par_blocks, par_reached>>
Arcvars ==
  <<arc_given, arc_disk, arc_files, arc_extract_sector, arc_append_sector,
    arc_appended, arc_at, arc_name, arc_done>>
Libvars ==
  <<lib_call, lib_given, lib_result, lib_array, lib_i, lib_cnt, lib_at_index,
    lib_at, lib_key, lib_first, lib_last, lib_memory, lib_remaining,
    lib_save_ptr, lib_tokens>>
Limvars == <<lim_call, lim_result>>

MCvars == <<Shrvars, Argvars, Sysvars, Parvars, Arcvars, Libvars, Limvars>>

MCInit == Shr!Init /\ Arg!Init /\ Sys!Init /\ Par!Init /\ Arc!Init /\ Lib!Init /\ Lim!Init

(* The promises, each with the comment that makes it in its module.        *)
Promise ==
  <<Shr!OpenedAreRead, Arg!ArgumentsArrive, Sys!ReadStoresWhatItReturns,
    Par!PartitionsAreDescribed, Arc!EndMarkIsThere, Lib!MoveReturnsDst,
    Lim!RemaindersAreExact>>

(* The module whose turn it is: the first that has broken none.            *)
Turn(k) == Promise[k] /\ \A j \in 1 .. k - 1 : ~Promise[j]

MCNext ==
  \/ Turn(1) /\ Shr!Next /\ UNCHANGED <<Argvars, Sysvars, Parvars, Arcvars, Libvars, Limvars>>
  \/ Turn(2) /\ Arg!Next /\ UNCHANGED <<Shrvars, Sysvars, Parvars, Arcvars, Libvars, Limvars>>
  \/ Turn(3) /\ Sys!Next /\ UNCHANGED <<Shrvars, Argvars, Parvars, Arcvars, Libvars, Limvars>>
  \/ Turn(4) /\ Par!Next /\ UNCHANGED <<Shrvars, Argvars, Sysvars, Arcvars, Libvars, Limvars>>
  \/ Turn(5) /\ Arc!Next /\ UNCHANGED <<Shrvars, Argvars, Sysvars, Parvars, Libvars, Limvars>>
  \/ Turn(6) /\ Lib!Next /\ UNCHANGED <<Shrvars, Argvars, Sysvars, Parvars, Arcvars, Limvars>>
  \/ Turn(7) /\ Lim!Next /\ UNCHANGED <<Shrvars, Argvars, Sysvars, Parvars, Arcvars, Libvars>>

MCSpec == MCInit /\ [][MCNext]_MCvars

(* States differ by whose turn it is and by the state of that module: how  *)
(* the others broke their promises is not told apart.                      *)
State == <<Shrvars, Argvars, Sysvars, Parvars, Arcvars, Libvars, Limvars>>
View == LET now == {k \in DOMAIN Promise : Turn(k)} IN <<now, {State[k] : k \in now}>>

-----------------------------------------------------------------------------
(* Properties.                                                             *)

(* At any moment at least one of the promises is kept: an inode that was   *)
(* opened has been read (inode.c:108), a system call is passed its         *)
(* arguments (lib/user/syscall.c:17), read() returns the size it stored    *)
(* (syscall.c:224), the table in the given sector is read                  *)
(* (partition.c:36), an archive ends with two sectors of zeros             *)
(* (fsutil.c:213), memmove() returns dst (string.c:21), and a remainder is *)
(* the remainder (arithmetic.c:129).  The comments say that all of them    *)
(* always are; a state in which none is shows that each of them is broken. *)
SomePromiseIsKept == \E k \in DOMAIN Promise : Promise[k]
=============================================================================
