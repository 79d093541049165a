------------------------------- MODULE Archive -------------------------------
(***************************************************************************)
(* fsutil_extract() and fsutil_append() of filesys/fsutil.c: files come    *)
(* from an archive on the scratch device and go to one.  Sizes are in      *)
(* sectors.  A panic or a power failure may stop the kernel at any sector, *)
(* and the next boot starts again from the disk.                           *)
(***************************************************************************)
EXTENDS Integers, Sequences, SequencesExt

CONSTANTS
  Name,
  MaxSize,    \* bound of the model on the size of a file
  MaxEntries, \* bound of the model on the entries of the first archive
  DiskSize,   \* sectors of the scratch device
  NULL

VARIABLES
  given,  \* the entries of the archive that the host put on the device
  disk,
  files,  \* of each name, the content of its file, or NULL
  extract_sector, append_sector, \* the two static variables "sector"
  appended, \* names that fsutil_append() completed since the boot
  at,
  name, done \* the file being copied, and how many of its sectors are

vars == <<given, disk, files, extract_sector, append_sector, appended, at, name, done>>

Zero == [kind |-> "zero"]
Junk == [kind |-> "junk"]
Header(n, size) == [kind |-> "regular", name |-> n, size |-> size]
Data(n, k) == [kind |-> "data", name |-> n, number |-> k]
Entry == [kind : {"directory"}] \cup {Header(n, size) : n \in Name, size \in 0 .. MaxSize}

Content(e) == [k \in 1 .. e.size |-> Data(e.name, k)]

(* The sectors of an archive.                                              *)
Sectors(entries) ==
  FlattenSeq([i \in DOMAIN entries |->
    IF entries[i].kind = "regular" THEN <<entries[i]>> \o Content(entries[i])
                                   ELSE <<entries[i]>>])

Init ==
  /\ given = <<>>
  /\ disk = [s \in 0 .. DiskSize - 1 |-> Junk]
  /\ files = [n \in Name |-> NULL]
  /\ extract_sector = 0 /\ append_sector = 0
  /\ appended = <<>>
  /\ at = "new"
  /\ name = NULL /\ done = 0

(* utils/pintos puts an archive with its end mark on the device.           *)
PutArchive(entries) ==
  /\ Len(Sectors(entries)) + 2 <= DiskSize
  /\ given' = entries
  /\ LET written == Sectors(entries) \o <<Zero, Zero>>
     IN disk' = [s \in DOMAIN disk |->
                   IF s < Len(written) THEN written[s + 1] ELSE disk[s]]
  /\ at' = "off"
  /\ UNCHANGED <<files, extract_sector, append_sector, appended, name, done>>

Boot ==
  /\ at = "off"
  /\ at' = "idle"
  /\ extract_sector' = 0 /\ append_sector' = 0
  /\ appended' = <<>>
  /\ UNCHANGED <<given, disk, files, name, done>>

PowerOff ==
  /\ at \notin {"new", "off"}
  /\ at' = "off"
  /\ name' = NULL /\ done' = 0
  /\ UNCHANGED <<given, disk, files, extract_sector, append_sector, appended>>

Panic ==
  /\ at' = "panic"
  /\ UNCHANGED <<given, disk, files, extract_sector, append_sector, appended, name, done>>

-----------------------------------------------------------------------------
(* fsutil_extract().  The command line has it before every append, as      *)
(* the comment on fsutil_append() asks.                                    *)
fsutil_extract ==
  /\ at = "idle" /\ append_sector = 0
  /\ at' = "header"
  /\ UNCHANGED <<given, disk, files, extract_sector, append_sector, appended, name, done>>

EndOfArchive(header) == header = Zero /\ at' = "erase" /\ UNCHANGED <<files, name, done>>

SkipDirectory(header) ==
  header.kind = "directory" /\ UNCHANGED <<files, at, name, done>>

CreateFile(header) ==
  /\ header.kind = "regular"
  /\ files[header.name] = NULL
  /\ files' = [files EXCEPT ![header.name] = [k \in 1 .. header.size |-> Zero]]
  /\ at' = "copy" /\ name' = header.name /\ done' = 0

ReadHeader ==
  /\ at = "header" /\ extract_sector < DiskSize
  /\ LET header == disk[extract_sector]
     IN EndOfArchive(header) \/ SkipDirectory(header) \/ CreateFile(header)
  /\ extract_sector' = extract_sector + 1
  /\ UNCHANGED <<given, disk, append_sector, appended>>

(* The device ends, the sector is no header, or filesys_create() fails,    *)
(* for want of space or because the name exists.                           *)
BadHeader ==
  /\ at = "header"
  /\ extract_sector < DiskSize => disk[extract_sector].kind \notin {"zero", "directory"}
  /\ Panic

ExtractSector ==
  /\ at = "copy" /\ done < Len(files[name]) /\ extract_sector < DiskSize
  /\ files' = [files EXCEPT ![name][done + 1] = disk[extract_sector]]
  /\ done' = done + 1
  /\ extract_sector' = extract_sector + 1
  /\ UNCHANGED <<given, disk, append_sector, appended, at, name>>

(* block_read() past the end of the device.                                *)
ExtractPastEnd ==
  /\ at = "copy" /\ done < Len(files[name]) /\ extract_sector >= DiskSize
  /\ Panic

Extracted ==
  /\ at = "copy" /\ done = Len(files[name])
  /\ at' = "header" /\ name' = NULL /\ done' = 0
  /\ UNCHANGED <<given, disk, files, extract_sector, append_sector, appended>>

(* The two writes that erase the header, sector 0 first.                   *)
Erase ==
  /\ \/ at = "erase" /\ disk' = [disk EXCEPT ![0] = Zero] /\ at' = "erase 1"
     \/ at = "erase 1" /\ disk' = [disk EXCEPT ![1] = Zero] /\ at' = "idle"
  /\ UNCHANGED <<given, files, extract_sector, append_sector, appended, name, done>>

-----------------------------------------------------------------------------
(* fsutil_append().                                                        *)
fsutil_append(n) ==
  /\ at = "idle"
  /\ files[n] # NULL /\ append_sector < DiskSize
  /\ disk' = [disk EXCEPT ![append_sector] = Header(n, Len(files[n]))]
  /\ append_sector' = append_sector + 1
  /\ at' = "append" /\ name' = n /\ done' = 0
  /\ UNCHANGED <<given, files, extract_sector, appended>>

(* No such file, or no room for its header.                                *)
AppendFails(n) ==
  /\ at = "idle"
  /\ files[n] = NULL \/ append_sector >= DiskSize
  /\ Panic

AppendSector ==
  /\ at = "append" /\ done < Len(files[name]) /\ append_sector < DiskSize
  /\ disk' = [disk EXCEPT ![append_sector] = files[name][done + 1]]
  /\ append_sector' = append_sector + 1
  /\ done' = done + 1
  /\ UNCHANGED <<given, files, extract_sector, appended, at, name>>

(* Out of space, before a sector of the file or before the end mark.       *)
OutOfSpace == at = "append" /\ append_sector >= DiskSize /\ Panic

EndMark ==
  /\ at = "append" /\ done = Len(files[name]) /\ append_sector < DiskSize
  /\ disk' = [disk EXCEPT ![append_sector] = Zero]
  /\ at' = "mark"
  /\ UNCHANGED <<given, files, extract_sector, append_sector, appended, name, done>>

(* Mutant: the next file goes behind the end mark.                         *)
SecondMark_advances ==
  /\ at = "mark"
  /\ \E last \in {Zero, Junk} : disk' = [disk EXCEPT ![append_sector] = last]
  /\ appended' = Append(appended, name)
  /\ append_sector' = append_sector + 1
  /\ at' = "idle" /\ name' = NULL /\ done' = 0
  /\ UNCHANGED <<given, files, extract_sector>>

(* The second write goes to the same sector, from the buffer's second byte *)
(* on, so that its last byte is whatever follows the buffer in memory.     *)
SecondMark ==
  /\ at = "mark"
  /\ \E last \in {Zero, Junk} : disk' = [disk EXCEPT ![append_sector] = last]
  /\ appended' = Append(appended, name)
  /\ at' = "idle" /\ name' = NULL /\ done' = 0
  /\ UNCHANGED <<given, files, extract_sector, append_sector>>

Next ==
  \/ at = "new" /\ \E entries \in SeqOf(Entry, MaxEntries) : PutArchive(entries)
  \/ Boot \/ PowerOff
  \/ fsutil_extract \/ ReadHeader \/ BadHeader \/ ExtractSector \/ ExtractPastEnd
  \/ Extracted \/ Erase
  \/ \E n \in Name : fsutil_append(n) \/ AppendFails(n)
  \/ AppendSector \/ OutOfSpace \/ EndMark \/ SecondMark

Spec == Init /\ [][Next]_vars

-----------------------------------------------------------------------------
(* Properties.                                                             *)

(* An extraction that ends, in this boot or after others that were cut     *)
(* short, has brought every file of the archive, whole, and leaves no      *)
(* archive to be extracted again (fsutil.c:147).  The files appended since *)
(* the boot are on the device one behind the other (fsutil.c:162).         *)
ArchivesAreExact ==
  at = "idle" =>
    /\ extract_sector > 0 =>
         /\ \A e \in ToSet(given) : e.kind = "regular" => files[e.name] = Content(e)
         /\ append_sector = 0 => disk[0] = Zero /\ disk[1] = Zero
    /\ LET copies == [i \in DOMAIN appended |->
                        <<Header(appended[i], Len(files[appended[i]]))>> \o files[appended[i]]]
       IN [i \in 1 .. append_sector |-> disk[i - 1]] = FlattenSeq(copies)

(* "Write ustar end-of-archive marker, which is two consecutive sectors    *)
(* full of zeros" (fsutil.c:213): behind the files appended there are two  *)
(* of them.  There is one at most: both writes go to the first of the two  *)
(* sectors (fsutil.c:217).                                                 *)
EndMarkIsThere ==
  at = "idle" /\ appended # <<>> /\ append_sector + 1 < DiskSize =>
    disk[append_sector] = Zero /\ disk[append_sector + 1] = Zero
=============================================================================
