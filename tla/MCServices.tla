------------------------------ MODULE MCServices ------------------------------
(***************************************************************************)
(* The services and, in the same way, the modules that model what comes    *)
(* from disks, the keyboard and programs, and the library.                 *)
(***************************************************************************)
EXTENDS Services

CONSTANTS d2, d3

MCDesc == {d2, d3}
MCBlocksPerArena == [d \in MCDesc |-> IF d = d2 THEN 2 ELSE 3]

VARIABLES
  syscall_at, syscall_stack, syscall_params, syscall_size, syscall_i,
  syscall_buffer, syscall_taken, partitions_table, partitions_calls,
  partitions_part_nr, partitions_blocks, partitions_reached, archive_given,
  archive_disk, archive_files, archive_extract_sector, archive_append_sector,
  archive_appended, archive_at, archive_name, archive_done,
  containers_container, containers_buckets, containers_hash_cnt,
  containers_contents, containers_bit_cnt, containers_bits, containers_file,
  containers_call, containers_found, containers_wanted, containers_saved,
  containers_given, containers_list, containers_a0, containers_a1b0,
  containers_b1, containers_output_run_cnt, containers_at, library_call,
  library_given, library_result, library_array, library_i, library_cnt,
  library_at_index, library_at, library_key, library_first, library_last,
  library_memory, library_remaining, library_save_ptr, library_tokens,
  limits_call, limits_result

Sys == INSTANCE Syscall WITH
  MaxFrame <- 6, MaxSize <- 5, at <- syscall_at, stack <- syscall_stack,
  params <- syscall_params, size <- syscall_size, i <- syscall_i,
  buffer <- syscall_buffer, taken <- syscall_taken
Par == INSTANCE Partitions WITH
  W <- 3, DiskSize <- 5, Entries <- 2, MaxDepth <- 4,
  table <- partitions_table, calls <- partitions_calls,
  part_nr <- partitions_part_nr, blocks <- partitions_blocks,
  reached <- partitions_reached
Arc == INSTANCE Archive WITH
  Name <- {"a", "b"}, MaxSize <- 1, MaxEntries <- 2, DiskSize <- 4,
  NULL <- NULL, given <- archive_given, disk <- archive_disk,
  files <- archive_files, extract_sector <- archive_extract_sector,
  append_sector <- archive_append_sector, appended <- archive_appended,
  at <- archive_at, name <- archive_name, done <- archive_done
Ctr == INSTANCE Containers WITH
  HashKey <- {0, 1, 2, 3, 5}, Version <- {1, 2}, MIN_BUCKETS <- 2,
  BEST_ELEMS_PER_BUCKET <- 1, ELEM_BITS <- 2, MaxBits <- 3, NULL <- NULL,
  Key <- {1, 2, 3}, MaxLength <- 5, container <- containers_container,
  buckets <- containers_buckets, hash_cnt <- containers_hash_cnt,
  contents <- containers_contents, bit_cnt <- containers_bit_cnt,
  bits <- containers_bits, file <- containers_file, call <- containers_call,
  found <- containers_found, wanted <- containers_wanted,
  saved <- containers_saved, given <- containers_given,
  list <- containers_list, a0 <- containers_a0, a1b0 <- containers_a1b0,
  b1 <- containers_b1, output_run_cnt <- containers_output_run_cnt,
  at <- containers_at
Lib == INSTANCE Library WITH
  Key <- {1, 2, 3}, MaxCount <- 5, Char <- {"a"}, Delimiter <- {" "},
  Null <- "0", Size <- 5, call <- library_call, given <- library_given,
  result <- library_result, array <- library_array, i <- library_i,
  cnt <- library_cnt, at_index <- library_at_index, at <- library_at,
  key <- library_key, first <- library_first, last <- library_last,
  memory <- library_memory, remaining <- library_remaining,
  save_ptr <- library_save_ptr, tokens <- library_tokens
Lim == INSTANCE Limits WITH
  W <- 3, SW <- 9, HEADER <- 3, SMALLEST <- 4, ArenaPage <- 64,
  MaxArgument <- 40, OW <- 5, AW <- 4, PGSIZE <- 2, PHYS_BASE <- 12,
  Sizes <- {1, 2, 5, 9, 12}, MaxCount <- 4, FileLength <- 5,
  call <- limits_call, result <- limits_result

Sysvars ==
  <<syscall_at, syscall_stack, syscall_params, syscall_size, syscall_i,
    syscall_buffer, syscall_taken>>
Parvars ==
  <<partitions_table, partitions_calls, partitions_part_nr,
    partitions_blocks, partitions_reached>>
Arcvars ==
  <<archive_given, archive_disk, archive_files, archive_extract_sector,
    archive_append_sector, archive_appended, archive_at, archive_name,
    archive_done>>
Ctrvars ==
  <<containers_container, containers_buckets, containers_hash_cnt,
    containers_contents, containers_bit_cnt, containers_bits,
    containers_file, containers_call, containers_found, containers_wanted,
    containers_saved, containers_given, containers_list, containers_a0,
    containers_a1b0, containers_b1, containers_output_run_cnt, containers_at>>
Libvars ==
  <<library_call, library_given, library_result, library_array, library_i,
    library_cnt, library_at_index, library_at, library_key, library_first,
    library_last, library_memory, library_remaining, library_save_ptr,
    library_tokens>>
Limvars ==
  <<limits_call, limits_result>>

-----------------------------------------------------------------------------
Part ==
  ServicesPart \cup
  {"Syscall", "Partitions", "Archive", "Containers", "Library", "Limits"}

Restvars == <<Sysvars, Parvars, Arcvars, Ctrvars, Libvars, Limvars>>

MCvars == <<ServicesVars, Restvars>>

MCInit ==
  /\ part \in Part
  /\ ServicesInit
  /\ Sys!Init
  /\ Par!Init
  /\ Arc!Init
  /\ Ctr!Init
  /\ Lib!Init
  /\ Lim!Init

(* The modules other than p stay as they are.                              *)
Only(p) ==
  /\ UNCHANGED ServicesVars
  /\ IF p = "Syscall" THEN TRUE ELSE UNCHANGED Sysvars
  /\ IF p = "Partitions" THEN TRUE ELSE UNCHANGED Parvars
  /\ IF p = "Archive" THEN TRUE ELSE UNCHANGED Arcvars
  /\ IF p = "Containers" THEN TRUE ELSE UNCHANGED Ctrvars
  /\ IF p = "Library" THEN TRUE ELSE UNCHANGED Libvars
  /\ IF p = "Limits" THEN TRUE ELSE UNCHANGED Limvars

MCNext ==
  \/ ServicesNext /\ UNCHANGED Restvars
  \/ part = "Syscall" /\ Sys!Next /\ Only("Syscall")
  \/ part = "Partitions" /\ Par!Next /\ Only("Partitions")
  \/ part = "Archive" /\ Arc!Next /\ Only("Archive")
  \/ part = "Containers" /\ Ctr!Next /\ Only("Containers")
  \/ part = "Library" /\ Lib!Next /\ Only("Library")
  \/ part = "Limits" /\ Lim!Next /\ Only("Limits")

MCSpec == MCInit /\ [][MCNext]_MCvars

-----------------------------------------------------------------------------
(* Properties.                                                             *)

(* A block is as big as it was asked for, and not much bigger, for every   *)
(* size and product that does not wrap around (malloc.c:109 and 165).      *)
BlocksFit == Lim!BlockIsBigEnough /\ Lim!BlockIsNotTooBig

(* The library computes what its callers rely on: a stable sort            *)
(* (list.c:383) and a heap sort (stdlib.c:110), a map under growing,       *)
(* shrinking and failing to (hash.c:360), bits that share words            *)
(* (bitmap.c:349), copies that overlap and strings that do not fit         *)
(* (string.c:32 and 365), and 64-bit quotients (arithmetic.c:53).          *)
LibraryIsRight ==
  /\ Ctr!TableIsAMap /\ Ctr!BitsAreExact /\ Ctr!SortedAtLast
  /\ Lib!SortsAndFinds /\ Lib!StringsAreExact
  /\ Lim!QuotientsAreExact

(* What devices and programs hand over ends up where it belongs:           *)
(* characters from the keyboard inside the buffer and in order             *)
(* (syscall.c:238), partitions on their disk (partition.c:160), files and  *)
(* archives whole although the power may fail at any sector                *)
(* (fsutil.c:147), and arguments and segments where a program expects      *)
(* them, up to the limits of the types of the code (process.c:584).        *)
InputsAreTaken ==
  /\ Sys!KeyboardReadStaysInside /\ Par!PartitionsAreSound
  /\ Arc!ArchivesAreExact /\ Lim!ImageIsRight
=============================================================================
