------------------------------ MODULE Installer ------------------------------
(***************************************************************************)
(* parthenope-install (src/tools/parthenope-install.c): it erases the old  *)
(* second level bootloader from the reserved blocks of the disk, writes    *)
(* the new one there as a linked list of BOOT blocks and writes the        *)
(* RigidDiskBlock, which points to the first of them, last.                *)
(*                                                                         *)
(* The disk survives a killed installer, which may be run again: Crash may *)
(* come between any two block writes (one block is written at once, and    *)
(* the fseek() before the next one flushes it), Rerun after the end.       *)
(*                                                                         *)
(* A disk of which a read or a write fails is not modelled: the code does  *)
(* not look at what fread() and fwrite() return.                           *)
(*                                                                         *)
(* A block is a record of its identifier, whether its checksum is right,   *)
(* the block number in its `next' field (for the RigidDiskBlock: the boot  *)
(* list) and, for a BOOT block, which run wrote it and which chunk it is.  *)
(* "DATA" stands for every identifier that is none of the six of rdb.h nor *)
(* 0xffffffff, "PART" for all of BADB, PART, FSHD and LSEG.                *)
(***************************************************************************)
EXTENDS Integers, Sequences, FiniteSets

CONSTANTS
  Blocks,     \* blocks of the disk that are looked at, 0 .. Blocks - 1
  Limit,      \* RDB_LOCATION_LIMIT, 16 in the code
  Word,       \* a uint32_t has the values 0 .. Word - 1, 2^32 in the code
  Lo, Hi,     \* rdb_RDBBlocksLo and rdb_RDBBlocksHi
  Disks,      \* the disks the first run may find
  Sizes,      \* the lengths of the bootloader, in chunks of 123 longwords
  MaxRuns     \* how often the installer is started

Block == 0 .. (Blocks - 1)
NoBlock == -1          \* 0xffffffff

Ids == {"RDSK", "PART", "BOOT", "FREE", "DATA"}
Contents == [id : Ids, good : BOOLEAN, next : Block \cup {NoBlock},
             run : 0 .. MaxRuns, chunk : Nat]

ASSUME SizeAssumption ==
  /\ Word \in Nat \ {0} /\ Lo \in 0 .. (Word - 1) /\ Hi \in 0 .. (Word - 1)
  /\ Limit \in Nat
  /\ Blocks \in Nat \ {0} /\ MaxRuns \in Nat \ {0}
  /\ Sizes \subseteq Nat
\* What install_slb() takes for the length of the reserved range; it wraps
\* where the range ends before it begins.
nblocks == (Hi - Lo) % Word
\* The disk is longer than the installer ever looks.
ASSUME RoomAssumption == \A s \in Sizes : nblocks + s + 2 < Blocks
ASSUME DiskAssumption == Limit <= Blocks /\ Disks \subseteq [Block -> Contents]
\* Whatever the first run finds was written before it.
ASSUME OldAssumption == \A d \in Disks : \A b \in Block : d[b].run = 0

VARIABLES
  disk,
  run,        \* the number of this start of the installer
  size,       \* the chunks of the bootloader it installs
  pc,
  rdb_block,  \* where find_rdb() found the RigidDiskBlock
  list,       \* rdb_BootBlockList of the copy in memory
  block,      \* the block to erase, or to write next
  free_block_pointer,
  offset,     \* chunks written
  result      \* "ok", "no rdb", "no file", "no space": what was printed

memory == <<rdb_block, list, block, free_block_pointer, offset>>
vars == <<disk, run, size, pc, rdb_block, list, block, free_block_pointer,
          offset, result>>

Init ==
  /\ disk \in Disks
  /\ run = 1 /\ size \in Sizes
  /\ pc = "find"
  /\ rdb_block = NoBlock /\ list = NoBlock /\ block = NoBlock
  /\ free_block_pointer = 0 /\ offset = 0
  /\ result = "none"

-----------------------------------------------------------------------------
(* Finding the RigidDiskBlock.                                             *)

IsRdb(b) == disk[b].good /\ disk[b].id = "RDSK"

\* find_rdb(): the first of the blocks where one may be.
FindRdb ==
  /\ pc = "find"
  /\ \E b \in 0 .. (Limit - 1) :
       /\ IsRdb(b) /\ \A c \in 0 .. (b - 1) : ~IsRdb(c)
       /\ rdb_block' = b
       /\ list' = disk[b].next
       /\ block' = disk[b].next
  /\ pc' = "open"
  /\ UNCHANGED <<disk, run, size, free_block_pointer, offset, result>>

NoRdb ==
  /\ pc = "find"
  /\ \A b \in 0 .. (Limit - 1) : ~IsRdb(b)
  /\ pc' = "done" /\ result' = "no rdb"
  /\ UNCHANGED <<disk, run, size, memory>>

\* main() looks for the file only then; nothing has been written yet.
OpenFile ==
  /\ pc = "open" /\ pc' = "erase"
  /\ UNCHANGED <<disk, run, size, memory, result>>

NoFile ==
  /\ pc = "open" /\ pc' = "done" /\ result' = "no file"
  /\ UNCHANGED <<disk, run, size, memory>>

-----------------------------------------------------------------------------
(* erase_slb(): along the old list as long as it is one.                   *)

Listed(b) == b # NoBlock /\ disk[b].good /\ disk[b].id = "BOOT"

\* A slip: the identifier is left as it is.
ErasedNot(blk) == [blk EXCEPT !.good = TRUE]

\* The identifier of a free block, the checksum made good.
Erased(blk) == [blk EXCEPT !.id = "FREE"]

Erase ==
  /\ pc = "erase" /\ Listed(block)
  /\ disk' = [disk EXCEPT ![block] = Erased(@)]
  /\ block' = disk[block].next
  /\ UNCHANGED <<run, size, pc, rdb_block, list, free_block_pointer, offset, result>>

EraseEnds ==
  /\ pc = "erase" /\ ~Listed(block)
  /\ pc' = "first"
  /\ free_block_pointer' = 0 /\ offset' = 0
  /\ UNCHANGED <<disk, run, size, rdb_block, list, block, result>>

-----------------------------------------------------------------------------
(* install_slb().                                                          *)

\* Two slips: a stale boot block, or a partition block, counts as free.
IsFreeOrBoot(blk) == blk.id \notin {"RDSK", "PART"}
IsFreeOrPart(blk) == blk.id \notin {"RDSK", "BOOT"}

\* IS_FREE, applied to whatever was read, with a good checksum or not.
IsFree(blk) == blk.id \notin {"RDSK", "PART", "BOOT"}

\* next_free_block(): the blocks behind the pointer are looked at up to the
\* first free one; the bound is only looked at after a block that is not.
Examined(b) ==
  /\ b > free_block_pointer
  /\ IsFree(disk[b]) \/ b >= nblocks
  /\ \A c \in (free_block_pointer + 1) .. (b - 1) :
       ~IsFree(disk[c]) /\ c < nblocks

NextFree(b) == Examined(b) /\ IsFree(disk[b])
NoneFree    == \A b \in Block : ~NextFree(b)

\* The first block: it goes into the RigidDiskBlock in memory at once.
InstallFirst ==
  /\ pc = "first"
  /\ \E b \in Block :
       NextFree(b) /\ list' = b /\ block' = b /\ free_block_pointer' = b
  /\ pc' = "install"
  /\ UNCHANGED <<disk, run, size, rdb_block, offset, result>>

\* A slip: the list is not cut behind the last chunk.
BootBlockUncut(next, last) ==
  [id |-> "BOOT", good |-> TRUE, next |-> next, run |-> run, chunk |-> offset + 1]

\* The block of one chunk: the next block is needed even for the last one.
BootBlock(next, last) ==
  [id |-> "BOOT", good |-> TRUE, next |-> IF last THEN NoBlock ELSE next,
   run |-> run, chunk |-> offset + 1]

\* A slip: one chunk too many.
MoreThanAll == offset <= size

\* The loop's condition.
More == offset < size

InstallChunk ==
  /\ pc = "install" /\ More
  /\ \E b \in Block :
       /\ NextFree(b)
       /\ disk' = [disk EXCEPT ![block] = BootBlock(b, offset + 1 = size)]
       /\ block' = b /\ free_block_pointer' = b
  /\ offset' = offset + 1
  /\ UNCHANGED <<run, size, pc, rdb_block, list, result>>

\* "Not enough free blocks!": install_slb() returns, main() goes on.
InstallFails ==
  /\ pc = "first" \/ (pc = "install" /\ More)
  /\ NoneFree
  /\ pc' = "write_rdb" /\ result' = "no space"
  /\ UNCHANGED <<disk, run, size, memory>>

InstallEnds ==
  /\ pc = "install" /\ offset = size
  /\ pc' = "write_rdb" /\ result' = "ok"
  /\ UNCHANGED <<disk, run, size, memory>>

\* main() writes the copy of the RigidDiskBlock back, whatever happened.
WriteRdb ==
  /\ pc = "write_rdb"
  /\ disk' = [disk EXCEPT ![rdb_block].next = list, ![rdb_block].good = TRUE]
  /\ pc' = "done"
  /\ UNCHANGED <<run, size, memory, result>>

Program ==
  \/ FindRdb \/ NoRdb \/ OpenFile \/ NoFile \/ Erase \/ EraseEnds
  \/ InstallFirst \/ InstallChunk \/ InstallFails \/ InstallEnds \/ WriteRdb

-----------------------------------------------------------------------------

\* The installer is started again, after its end or after it was killed.
Start ==
  /\ run < MaxRuns
  /\ run' = run + 1
  /\ size' \in Sizes
  /\ pc' = "find" /\ result' = "none"
  /\ rdb_block' = NoBlock /\ list' = NoBlock /\ block' = NoBlock
  /\ free_block_pointer' = 0 /\ offset' = 0
  /\ UNCHANGED disk

Rerun == pc = "done" /\ Start
Crash == pc # "done" /\ Start

Next == Program \/ Rerun \/ Crash

Spec     == Init /\ [][Next]_vars
FairSpec == Spec /\ WF_vars(Program)

-----------------------------------------------------------------------------
(* What the firmware reads: from the RigidDiskBlock along the list.        *)

Rdb == CHOOSE b \in 0 .. (Limit - 1) : IsRdb(b) /\ \A c \in 0 .. (b - 1) : ~IsRdb(c)

HasRdb == \E b \in 0 .. (Limit - 1) : IsRdb(b)

\* The k-th block of the list, NoBlock behind its end or its first block
\* that is no BOOT block.
Chain == LET c[k \in 1 .. Blocks] ==
               LET b == IF k = 1 THEN disk[Rdb].next
                        ELSE IF c[k - 1] = NoBlock THEN NoBlock
                        ELSE disk[c[k - 1]].next
               IN  IF Listed(b) THEN b ELSE NoBlock
         IN  c

Read == {k \in DOMAIN Chain : Chain[k] # NoBlock}

-----------------------------------------------------------------------------
(* Properties.                                                             *)

TypeOK ==
  /\ disk \in [Block -> Contents]
  /\ run \in 1 .. MaxRuns /\ size \in Sizes
  /\ pc \in {"find", "open", "erase", "first", "install", "write_rdb", "done"}
  /\ rdb_block \in Block \cup {NoBlock}
  /\ list \in Block \cup {NoBlock} /\ block \in Block \cup {NoBlock}
  /\ free_block_pointer \in Block
  /\ offset \in 0 .. size
  /\ result \in {"none", "ok", "no rdb", "no file", "no space"}

\* No step of any run, killed or not, touches a block that is neither free
\* nor a boot block: partitions, file systems and the bad block list stay,
\* and of a RigidDiskBlock only the boot list and the checksum change.
NoCollateral ==
  [][\A b \in Block :
       /\ disk[b].id = "PART" => disk'[b] = disk[b]
       /\ disk[b].id = "RDSK" =>
            disk'[b].id = "RDSK" /\ (b # rdb_block => disk'[b] = disk[b])]_vars

\* The firmware never reads a list with chunks of two bootloaders in it,
\* wherever a run is killed and however often: what it reads of the list is
\* all from the old one or all from the same new one.
NeverMixed ==
  HasRdb => \A j, k \in Read : disk[Chain[j]].run = disk[Chain[k]].run

\* After a run that did not complain the firmware reads the bootloader it
\* installed, every chunk once and in order, and the list ends behind it.
Installed ==
  (pc = "done" /\ result = "ok") =>
    /\ Read = 1 .. size
    /\ \A k \in 1 .. size :
         disk[Chain[k]].run = run /\ disk[Chain[k]].chunk = k
    /\ size > 0 => disk[Chain[size]].next = NoBlock

\* The start that wrote the first block the firmware reads, if it reads any;
\* by NeverMixed it wrote all of them.
Writers ==
  IF HasRdb /\ Listed(disk[Rdb].next) THEN {disk[disk[Rdb].next].run} ELSE {}

\* Wherever a start is killed: an old bootloader, once gone, never comes back,
\* the new one can be read only after that, the firmware never has the choice
\* between both, and "ok" is answered with the new one in place.
Area == INSTANCE BootArea WITH
  started <- run,
  length  <- size,
  reads   <- Writers,
  answer  <- IF pc = "done" THEN result ELSE "none"

AreaSpec == Area!Spec

\* Every start comes to its end, on a list that runs in a circle too.
Ends == <>[](pc = "done")

\* rdb.h: the boot blocks lie in the range reserved for them.
StaysInReservedRange ==
  [][\A b \in Block : disk'[b] # disk[b] =>
       b \in Lo .. Hi \/ b = rdb_block]_vars

\* rdb.h: bcb_Next is the number of the next BootstrapCodeBlock.
ChainOfBootBlocks ==
  (pc = "done" /\ result \in {"ok", "no space"}) =>
    \A k \in Read : LET next == disk[Chain[k]].next
                    IN  next # NoBlock => disk[next].id = "BOOT"
=============================================================================
