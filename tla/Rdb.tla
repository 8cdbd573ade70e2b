--------------------------------- MODULE Rdb ---------------------------------
(***************************************************************************)
(* The partition table (src/src/rdb.c): RdbPartitionTable_init() takes the *)
(* first hard disk of the scan, the first good RigidDiskBlock on it, and   *)
(* fills one slot after the other, walking the partition list from its     *)
(* head again for each slot.                                               *)
(*                                                                         *)
(* A block is a record of its identifier, whether its checksum is right,   *)
(* the block its list field points to (for the RigidDiskBlock the head of  *)
(* the partition list) and, for a partition, its geometry: first and last  *)
(* cylinder and the blocks of one cylinder.  A block that is not on the    *)
(* disk, or can never be read, is one outside the disk's domain.  Others   *)
(* fail to be read now and then: `fails' counts how often (history, up to  *)
(* MaxFails), since the list is read again for each slot.                  *)
(***************************************************************************)
EXTENDS Integers, Sequences, FiniteSets

CONSTANTS
  Blocks,    \* block numbers are 0 .. Blocks - 1
  Limit,     \* RDB_LOCATION_LIMIT, 16 in the code
  UnitLists, \* what the scan of the units may find, disk by disk
  MaxFails   \* reads of blocks of the disk that may fail

NoBlock == -1      \* 0xffffffff
NoDisk  == <<>>    \* a unit that is no hard disk

Block == 0 .. (Blocks - 1)
Geometry == [low : Nat, high : Nat, cylinder : Nat]
Contents == [id : {"RDSK", "PART", "other"}, good : BOOLEAN,
             next : Block \cup {NoBlock}, geometry : Geometry]

ASSUME LimitAssumption == Limit \in Nat \ {0} /\ Blocks \in Nat
ASSUME FailAssumption == MaxFails \in Nat
ASSUME UnitAssumption ==
  \A units \in UnitLists : \A u \in DOMAIN units :
    /\ u \in Nat
    /\ units[u] = NoDisk \/ \E S \in SUBSET Block : units[u] \in [S -> Contents]

\* A slot of the table: the block of its partition and info's start and size.
NoPartition == [at |-> NoBlock, start |-> 0, size |-> 0]

VARIABLES
  disk,    \* the disk get_dev() returned
  pc,
  b,       \* where get_rdb() looks
  rdb,     \* the RigidDiskBlock it found
  slot,    \* the slot being filled
  part,    \* partitions still to be passed
  block,   \* where get_partition_info() is in the list
  p,       \* the partition its p points to, NoBlock for NULL
  table,
  fails    \* how many reads failed, history

vars == <<disk, pc, b, rdb, slot, part, block, p, table, fails>>

\* get_dev(), which ignores the number it is given.
FirstDisk(units) ==
  LET found == {u \in DOMAIN units : units[u] # NoDisk}
  IN  IF found = {} THEN NoDisk
      ELSE units[CHOOSE u \in found : \A v \in found : u <= v]

Init ==
  /\ \E units \in UnitLists : disk = FirstDisk(units)
  /\ pc = IF disk = NoDisk THEN "done" ELSE "find"
  /\ b = 0 /\ rdb = NoBlock
  /\ slot = 0 /\ part = 0 /\ block = NoBlock /\ p = NoBlock
  /\ table = [k \in 0 .. (Limit - 1) |-> NoPartition]
  /\ fails = 0

\* block_read() fails for a block of the disk.
ReadFails(k) == k \in DOMAIN disk /\ fails < MaxFails /\ fails' = fails + 1

-----------------------------------------------------------------------------
(* get_rdb().                                                              *)

IsRdb(k) == k \in DOMAIN disk /\ disk[k].id = "RDSK" /\ disk[k].good

FindPass ==
  /\ pc = "find" /\ b < Limit
  /\ \/ ~IsRdb(b) /\ UNCHANGED fails
     \/ ReadFails(b)
  /\ b' = b + 1
  /\ UNCHANGED <<disk, pc, rdb, slot, part, block, p, table>>

FindTake ==
  /\ pc = "find" /\ b < Limit /\ IsRdb(b)
  /\ rdb' = b
  /\ block' = disk[b].next /\ part' = 0
  /\ pc' = "walk"
  /\ UNCHANGED <<disk, b, slot, p, table, fails>>

FindNone ==
  /\ pc = "find" /\ b = Limit
  /\ pc' = "done"
  /\ UNCHANGED <<disk, b, rdb, slot, part, block, p, table, fails>>

-----------------------------------------------------------------------------
(* get_partition_info() for one slot, and the loop over the slots.         *)

IsPartition(k) == k \in DOMAIN disk /\ disk[k].id = "PART"

NextSlot ==
  /\ slot' = slot + 1 /\ part' = slot + 1
  /\ block' = disk[rdb].next /\ p' = NoBlock
  /\ pc' = IF slot + 1 < Limit THEN "walk" ELSE "done"

\* info->start and info->size.
Info(k) ==
  LET g == disk[k].geometry
  IN  [at |-> k, start |-> g.low * g.cylinder,
       size |-> (g.high - g.low + 1) * g.cylinder - 1]

\* The list leads to what is no partition: the slot stays empty.
WalkAstray ==
  /\ pc = "walk" /\ block \in DOMAIN disk /\ ~IsPartition(block)
  /\ NextSlot
  /\ UNCHANGED <<disk, b, rdb, table, fails>>

\* The list ends or a block cannot be read: the slot stays empty, but for a p
\* left behind, and the next slot is looked for all the same.
WalkEnd ==
  /\ pc = "walk"
  /\ \/ block \notin DOMAIN disk /\ UNCHANGED fails
     \/ ReadFails(block)
  /\ table' = IF p = NoBlock THEN table ELSE [table EXCEPT ![slot] = Info(p)]
  /\ NextSlot
  /\ UNCHANGED <<disk, b, rdb>>

\* A bad checksum: `continue' with the same block, which is read again, and
\* with p pointing to it.
WalkAgain ==
  /\ pc = "walk" /\ IsPartition(block) /\ ~disk[block].good
  /\ p' = block
  /\ UNCHANGED <<disk, pc, b, rdb, slot, part, block, table, fails>>

\* Slip: one more partition passed than asked for.
PassedTooMany == part >= 0

Passed == part > 0

\* Slip: p is not reset.
WalkPassKept ==
  /\ pc = "walk" /\ IsPartition(block) /\ disk[block].good /\ Passed
  /\ part' = part - 1
  /\ block' = disk[block].next /\ p' = block
  /\ UNCHANGED <<disk, pc, b, rdb, slot, table, fails>>

\* Slip: the partitions passed are not counted.
WalkPassUncounted ==
  /\ pc = "walk" /\ IsPartition(block) /\ disk[block].good /\ Passed
  /\ block' = disk[block].next /\ p' = NoBlock
  /\ UNCHANGED <<disk, pc, b, rdb, slot, part, table, fails>>

WalkPass ==
  /\ pc = "walk" /\ IsPartition(block) /\ disk[block].good /\ Passed
  /\ part' = part - 1
  /\ block' = disk[block].next /\ p' = NoBlock
  /\ UNCHANGED <<disk, pc, b, rdb, slot, table, fails>>

WalkTake ==
  /\ pc = "walk" /\ IsPartition(block) /\ disk[block].good /\ ~Passed
  /\ table' = [table EXCEPT ![slot] = Info(block)]
  /\ NextSlot
  /\ UNCHANGED <<disk, b, rdb, fails>>

Next == \/ FindPass \/ FindTake \/ FindNone
        \/ WalkAstray \/ WalkEnd \/ WalkAgain \/ WalkPass \/ WalkTake

Spec     == Init /\ [][Next]_vars
FairSpec == Spec /\ WF_vars(Next)

-----------------------------------------------------------------------------
(* What is on the disk, with no machine.                                   *)

Rdbs == {k \in DOMAIN disk \cap 0 .. (Limit - 1) :
           disk[k].id = "RDSK" /\ disk[k].good}

Slots == 0 .. (Limit - 1)

\* The k-th partition of r's list, from 0, NoBlock behind its end.
Listed(r) ==
  LET l[k \in Slots] ==
        LET at == IF k = 0 THEN disk[r].next
                  ELSE IF l[k - 1] = NoBlock THEN NoBlock
                  ELSE disk[l[k - 1]].next
        IN  IF IsPartition(at) THEN at ELSE NoBlock
  IN  l

-----------------------------------------------------------------------------
(* Properties.                                                             *)

TypeOK ==
  /\ pc \in {"find", "walk", "done"}
  /\ b \in 0 .. Limit /\ rdb \in {NoBlock} \cup DOMAIN disk
  /\ slot \in 0 .. Limit /\ part \in 0 .. Limit
  /\ block \in Block \cup {NoBlock} /\ p \in DOMAIN disk \cup {NoBlock}
  /\ fails \in 0 .. MaxFails
  /\ DOMAIN table = Slots
  /\ \A k \in Slots : table[k].at \in DOMAIN disk \cup {NoBlock}

\* What slot k may hold: the k-th partition of the list or none, or one with a
\* bad checksum from further up the list.
Meant(k) ==
  LET at == table[k].at
  IN  \/ at \in {NoBlock, Listed(rdb)[k]}
      \/ ~disk[at].good /\ \E j \in 0 .. k : at = Listed(rdb)[j]

\* The table is the list of a good RigidDiskBlock, each partition in the slot
\* of its place, also when the list runs in a circle or is longer than the
\* table.  Every slot that is not costs a read that failed: it is empty, or
\* holds a partition with a bad checksum, which only a failing read gets past.
\* While all is read it is the first RigidDiskBlock.
TableIsList ==
  pc = "done" =>
    IF rdb = NoBlock
    THEN (fails = 0 => Rdbs = {}) /\ \A k \in Slots : table[k].at = NoBlock
    ELSE /\ rdb \in Rdbs /\ (fails = 0 => \A r \in Rdbs : rdb <= r)
         /\ \A k \in Slots : Meant(k)
         /\ Cardinality({k \in Slots : table[k].at # Listed(rdb)[k]}) <= fails

\* While all is read the table has no hole: magic_load() stops at the first
\* empty slot and never looks at a partition behind one.
NoHoles ==
  fails = 0 =>
    \A k \in Slots \ {0} : table[k].at # NoBlock => table[k - 1].at # NoBlock

\* Filling the table comes to an end, on a list that runs in a circle too and
\* whatever cannot be read, unless a partition of the list has a bad checksum:
\* that one is read again for ever.
Returns ==
  <>(pc = "done" \/ (pc = "walk" /\ IsPartition(block) /\ ~disk[block].good))
=============================================================================
