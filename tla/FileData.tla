------------------------------- MODULE FileData ------------------------------
(***************************************************************************)
(* inode_read_at() and inode_write_at() of filesys/inode.c under           *)
(* file_read(), file_write() and file_seek(): a transfer of bytes, sector  *)
(* by sector.  Each thread has a struct file of its own for the same       *)
(* inode, so that the lock in it keeps nobody apart (syscall.c:251).       *)
(***************************************************************************)
EXTENDS Integers, FiniteSets

CONSTANTS
  Thread,
  SECTOR_SIZE, \* BLOCK_SECTOR_SIZE
  Length,      \* of the file, in bytes
  MaxSize      \* bound of the model on the size of a transfer and on seeking

VARIABLES
  data,   \* the bytes of the file's sectors: who wrote them
  pos,    \* file->pos of each thread
  op,     \* of each thread: "read", "write" or "none"
  at,     \* "next" before a sector, or "bounce" with its content read
  start, wanted, \* the arguments offset and size
  bytes,  \* bytes_read or bytes_written
  bounce, \* the bounce buffer of a writer
  meant,  \* history: what data is if every write changes its bytes alone
  raced   \* history: two threads were about to write the same sector

vars == <<data, pos, op, at, start, wanted, bytes, bounce, meant, raced>>

bytes_to_sectors(size) == (size + SECTOR_SIZE - 1) \div SECTOR_SIZE
Byte == 0 .. bytes_to_sectors(Length) * SECTOR_SIZE - 1
Nobody == [b \in Byte |-> 0]

Init ==
  /\ data = Nobody /\ meant = Nobody
  /\ pos = [t \in Thread |-> 0]
  /\ op = [t \in Thread |-> "none"]
  /\ at = [t \in Thread |-> "next"]
  /\ start = [t \in Thread |-> 0]
  /\ wanted = [t \in Thread |-> 0]
  /\ bytes = [t \in Thread |-> 0]
  /\ bounce = [t \in Thread |-> Nobody]
  /\ raced = FALSE

Minimum(x, y) == IF x < y THEN x ELSE y

(* file_seek().                                                            *)
file_seek(t, new_pos) ==
  /\ op[t] = "none"
  /\ pos' = [pos EXCEPT ![t] = new_pos]
  /\ UNCHANGED <<data, op, at, start, wanted, bytes, bounce, meant, raced>>

(* file_read() or file_write() of size bytes.                              *)
Begin(t, o, size) ==
  /\ op[t] = "none"
  /\ op' = [op EXCEPT ![t] = o]
  /\ start' = [start EXCEPT ![t] = pos[t]]
  /\ wanted' = [wanted EXCEPT ![t] = size]
  /\ bytes' = [bytes EXCEPT ![t] = 0]
  /\ UNCHANGED <<data, pos, at, bounce, meant, raced>>

-----------------------------------------------------------------------------
(* The variables of the loop.                                              *)
offset(t) == start[t] + bytes[t]
sector_ofs(t) == offset(t) % SECTOR_SIZE
sector_left(t) == SECTOR_SIZE - sector_ofs(t)
inode_left(t) == Length - offset(t)
size_left(t) == wanted[t] - bytes[t]

(* Mutant: the end of the file is not looked at.                           *)
chunk_size_unbounded(t) == Minimum(size_left(t), sector_left(t))

chunk_size(t) == Minimum(size_left(t), Minimum(inode_left(t), sector_left(t)))

SectorOf(t) == offset(t) - sector_ofs(t) .. offset(t) + sector_left(t) - 1
Chunk(t) == offset(t) .. offset(t) + chunk_size(t) - 1

Goes(t) == size_left(t) > 0 /\ chunk_size(t) > 0
WholeSector(t) == sector_ofs(t) = 0 /\ chunk_size(t) = SECTOR_SIZE

(* A round of inode_read_at(): block_read(), directly or by a bounce       *)
(* buffer; where the bytes go is left out.                                 *)
ReadSector(t) ==
  /\ op[t] = "read" /\ Goes(t)
  /\ bytes' = [bytes EXCEPT ![t] = @ + chunk_size(t)]
  /\ UNCHANGED <<data, pos, op, at, start, wanted, bounce, meant, raced>>

(* A round of inode_write_at() for a part of a sector begins with reading  *)
(* the sector.                                                             *)
ReadBounce(t) ==
  /\ op[t] = "write" /\ at[t] = "next" /\ Goes(t) /\ ~WholeSector(t)
  /\ bounce' = [bounce EXCEPT ![t] =
                  [b \in Byte |-> IF b \in SectorOf(t) THEN data[b] ELSE 0]]
  /\ at' = [at EXCEPT ![t] = "bounce"]
  /\ UNCHANGED <<data, pos, op, start, wanted, bytes, meant, raced>>

(* block_write().                                                          *)
WriteSector(t) ==
  /\ op[t] = "write" /\ Goes(t)
  /\ at[t] = "bounce" \/ WholeSector(t)
  /\ data' = [b \in Byte |-> CASE b \in Chunk(t) -> t
                               [] b \in SectorOf(t) \ Chunk(t) -> bounce[t][b]
                               [] OTHER -> data[b]]
  /\ meant' = [b \in Byte |-> IF b \in Chunk(t) THEN t ELSE meant[b]]
  /\ raced' = (raced \/ \E u \in Thread \ {t} :
                          at[u] = "bounce" /\ SectorOf(u) = SectorOf(t))
  /\ bytes' = [bytes EXCEPT ![t] = @ + chunk_size(t)]
  /\ at' = [at EXCEPT ![t] = "next"]
  /\ bounce' = [bounce EXCEPT ![t] = Nobody]
  /\ UNCHANGED <<pos, op, start, wanted>>

(* The loop ends, file_read() or file_write() moves the position.          *)
Return(t) ==
  /\ op[t] # "none" /\ at[t] = "next" /\ ~Goes(t)
  /\ pos' = [pos EXCEPT ![t] = @ + bytes[t]]
  /\ op' = [op EXCEPT ![t] = "none"]
  /\ start' = [start EXCEPT ![t] = 0]
  /\ wanted' = [wanted EXCEPT ![t] = 0]
  /\ bytes' = [bytes EXCEPT ![t] = 0]
  /\ UNCHANGED <<data, at, bounce, meant, raced>>

(* What follows a race is not explored.                                    *)
Next ==
  /\ ~raced
  /\ \E t \in Thread :
       \/ \E n \in 0 .. MaxSize : file_seek(t, n)
       \/ \E o \in {"read", "write"}, n \in 0 .. MaxSize : Begin(t, o, n)
       \/ ReadSector(t) \/ ReadBounce(t) \/ WriteSector(t) \/ Return(t)

Spec == Init /\ [][Next]_vars

-----------------------------------------------------------------------------
(* Properties.                                                             *)

(* A write changes the bytes between the position and the end of the       *)
(* transfer or of the file and no other byte, wherever sectors begin, also *)
(* while another thread writes to other sectors of the file.  Both return  *)
(* the number of bytes of the file that are in the range asked for.  Only  *)
(* two threads that change parts of one sector can undo each other's       *)
(* writes.                                                                 *)
TransfersAreExact ==
  /\ ~raced => data = meant
  /\ \A t \in Thread :
       /\ \A b \in Byte : data[b] # 0 => b < Length
       /\ bytes[t] <= wanted[t]
       /\ bytes[t] > 0 => offset(t) <= Length
       /\ op[t] # "none" /\ at[t] = "next" /\ ~Goes(t) =>
            bytes[t] = Cardinality((start[t] .. start[t] + wanted[t] - 1)
                                     \cap (0 .. Length - 1))
=============================================================================
