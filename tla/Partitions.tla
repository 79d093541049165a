------------------------------ MODULE Partitions ------------------------------
(***************************************************************************)
(* devices/partition.c: the scan of a disk for partitions, which become    *)
(* block devices of their own, and the transfers that go through them to   *)
(* the disk (devices/block.c).  Sector numbers have W bits, 32 in the code.*)
(***************************************************************************)
EXTENDS Integers, Sequences, SequencesExt

CONSTANTS
  W,
  DiskSize, \* sectors of the disk
  Entries,  \* entries of a partition table, 4 in the code
  MaxDepth  \* bound of the model on the nesting of read_partition_table()

VARIABLES
  table,   \* the partition table in sector 0
  calls,   \* activations of read_partition_table(): [sector, primary, i]
  part_nr,
  blocks,  \* partitions registered: [nr, start, size], in order
  reached  \* of the last transfer: the partition, and the sector of the disk

vars == <<table, calls, part_nr, blocks, reached>>

uint32_t(n) == n % 2^W

Entry ==
  {[kind |-> "empty"]}
  \cup [kind : {"extended"}, offset : 0 .. 2^W - 1]
  \cup [kind : {"data"}, offset : 0 .. 2^W - 1, size : 1 .. 2^W - 1]

Init ==
  /\ table = <<>>
  /\ calls = <<>>
  /\ part_nr = 0
  /\ blocks = <<>>
  /\ reached = <<>>

(* partition_scan().                                                       *)
partition_scan(t) ==
  /\ table' = t
  /\ calls' = <<[sector |-> 0, primary |-> 0, i |-> 1]>>
  /\ UNCHANGED <<part_nr, blocks, reached>>

-----------------------------------------------------------------------------
(* read_partition_table().  It reads sector 0 whatever its parameter.      *)

(* The loop goes on to its next entry.                                     *)
Advanced == [calls EXCEPT ![Len(calls)].i = @ + 1]

Parsing(kind) ==
  /\ calls # <<>> /\ Last(calls).i <= Entries
  /\ table[Last(calls).i].kind = kind

SkipEntry ==
  /\ Parsing("empty")
  /\ calls' = Advanced
  /\ UNCHANGED <<table, part_nr, blocks, reached>>

(* The call for an extended partition returns at once if its sector is     *)
(* past the end of the disk.                                               *)
Nest ==
  /\ Parsing("extended") /\ Len(calls) < MaxDepth
  /\ LET c == Last(calls)
         offset == table[c.i].offset
         primary == IF c.sector = 0 THEN offset ELSE c.primary
         sector == IF c.sector = 0 THEN offset ELSE uint32_t(offset + c.primary)
     IN calls' = IF sector >= DiskSize THEN Advanced
                 ELSE Append(Advanced, [sector |-> sector, primary |-> primary, i |-> 1])
  /\ UNCHANGED <<table, part_nr, blocks, reached>>

(* Mutant: the end of the partition may wrap around.                       *)
Inside_wraps(start, size) == start < DiskSize /\ uint32_t(start + size) <= DiskSize

(* The checks of found_partition().                                        *)
Inside(start, size) ==
  /\ start < DiskSize
  /\ uint32_t(start + size) >= start
  /\ uint32_t(start + size) <= DiskSize

FoundPartition ==
  /\ Parsing("data")
  /\ LET c == Last(calls)
         start == uint32_t(table[c.i].offset + c.sector)
         size == table[c.i].size
     IN blocks' = IF ~Inside(start, size) THEN blocks
                  ELSE Append(blocks, [nr |-> part_nr + 1, start |-> start, size |-> size])
  /\ part_nr' = part_nr + 1
  /\ calls' = Advanced
  /\ UNCHANGED <<table, reached>>

Return ==
  /\ calls # <<>> /\ Last(calls).i > Entries
  /\ calls' = Front(calls)
  /\ UNCHANGED <<table, part_nr, blocks, reached>>

-----------------------------------------------------------------------------
(* block_read() or block_write() of a partition, partition_read() or       *)
(* partition_write() and block_read() or block_write() of the disk.        *)
Transfer(p, sector) ==
  /\ calls = <<>>
  /\ sector < p.size  \* check_sector()
  /\ reached' = <<p, uint32_t(p.start + sector)>>
  /\ UNCHANGED <<table, calls, part_nr, blocks>>

Next ==
  \/ table = <<>> /\ \E t \in [1 .. Entries -> Entry] : partition_scan(t)
  \/ SkipEntry \/ Nest \/ FoundPartition \/ Return
  \/ \E p \in ToSet(blocks), sector \in 0 .. 2^W - 1 : Transfer(p, sector)

Spec == Init /\ [][Next]_vars

-----------------------------------------------------------------------------
(* Properties.                                                             *)

(* The partitions of a table without extended partitions, by their order   *)
(* among the entries that are not empty.                                   *)
Primary ==
  LET numbered ==
        [i \in 1 .. Entries |->
           [entry |-> table[i],
            nr |-> Len(SelectSeq(SubSeq(table, 1, i), LAMBDA e : e.kind # "empty"))]]
      whole(x) == x.entry.kind = "data" /\ x.entry.offset + x.entry.size <= DiskSize
      found == SelectSeq(numbered, whole)
  IN [k \in DOMAIN found |-> [nr |-> found[k].nr, start |-> found[k].entry.offset,
                              size |-> found[k].entry.size]]

(* Every partition lies on the disk, so that no transfer that it lets      *)
(* through reaches another sector or stops the kernel (block.c:107).       *)
(* Without extended partitions all partitions are found.                   *)
PartitionsAreSound ==
  /\ \A k \in DOMAIN blocks : blocks[k].start + blocks[k].size <= DiskSize
  /\ reached # <<>> =>
       reached[2] \in reached[1].start .. reached[1].start + reached[1].size - 1
  /\ table # <<>> /\ calls = <<>> /\ (\A i \in 1 .. Entries : table[i].kind # "extended")
       => blocks = Primary

(* "Reads the partition table in the given SECTOR of BLOCK"                *)
(* (partition.c:36): on a disk whose other sectors hold no table, all      *)
(* partitions come from the entries of the table in sector 0.  They do     *)
(* not: the scan of an extended partition reads sector 0 again             *)
(* (partition.c:91) and takes its entries for those of SECTOR.             *)
PartitionsAreDescribed ==
  \A k \in DOMAIN blocks :
    \E i \in 1 .. Entries :
      table[i].kind = "data" /\ table[i].offset = blocks[k].start /\ table[i].size = blocks[k].size
=============================================================================
