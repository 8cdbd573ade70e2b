--------------------------- MODULE InstallerProofs ---------------------------
(* What Installer guarantees for every disk, every size and every number   *)
(* of runs: types, that nothing but free and boot blocks is written, that  *)
(* what can be read is of one run and, after a run that did not complain,  *)
(* the whole of what it installed.                                         *)
EXTENDS Installer, FiniteSetTheorems, WellFoundedInduction, TLAPS

\* While the installer is at work the RigidDiskBlock it found still is one.
RdbKept ==
  pc \in {"open", "erase", "first", "install", "write_rdb"} =>
    /\ rdb_block \in Block
    /\ disk[rdb_block].id = "RDSK"

\* The block the next chunk goes to is the last one that was looked at, and
\* it is still free.
TargetFree ==
  pc = "install" =>
    /\ block = free_block_pointer /\ block \in Block
    /\ IsFree(disk[block])

Inv == TypeOK /\ RdbKept /\ TargetFree

\* The disk keeps its domain and the form of its blocks when one is replaced.
LEMMA DiskReplaced ==
  ASSUME disk \in [Block -> Contents], NEW b \in Block, NEW c \in Contents
  PROVE  [disk EXCEPT ![b] = c] \in [Block -> Contents]
  OBVIOUS

\* The range of the numbers, apart from the rest of the types.
LEMMA Numbers ==
  ASSUME TypeOK
  PROVE  /\ size \in Nat /\ offset \in 0 .. size /\ offset \in Nat
         /\ run \in 1 .. MaxRuns /\ run \in 0 .. MaxRuns /\ run \in Nat
         /\ 0 \in Block
<1>1. size \in Sizes /\ offset \in 0 .. size /\ run \in 1 .. MaxRuns
  BY DEF TypeOK
<1>2. size \in Nat /\ MaxRuns \in Nat /\ Blocks \in Nat \ {0}
  BY <1>1, SizeAssumption
<1>3. 0 \in Block
  BY <1>2 DEF Block
<1> QED
  BY <1>1, <1>2, <1>3

\* Every start begins in a state of the invariant.
LEMMA InitInv == Init => Inv
<1> SUFFICES ASSUME Init PROVE Inv
  OBVIOUS
<1>1. TypeOK
  <2>1. disk \in [Block -> Contents]
    BY DiskAssumption DEF Init
  <2>2. 0 \in Block /\ 1 \in 1 .. MaxRuns /\ size \in Nat
    BY SizeAssumption DEF Block, Init
  <2> QED
    BY <2>1, <2>2 DEF Init, TypeOK
<1> QED
  BY <1>1 DEF Inv, RdbKept, TargetFree, Init

\* Every step keeps the types.
LEMMA TypeStep == Inv /\ [Next]_vars => TypeOK'
<1> SUFFICES ASSUME Inv, [Next]_vars PROVE TypeOK'
  OBVIOUS
<1> USE DEF Inv, memory
<1>0. size \in Nat /\ 0 \in Block /\ offset \in 0 .. size
  BY Numbers
<1>1. CASE FindRdb
  <2>1. \A b \in 0 .. (Limit - 1) : b \in Block
    BY SizeAssumption, DiskAssumption DEF Block
  <2>2. PICK b \in 0 .. (Limit - 1) :
           rdb_block' = b /\ list' = disk[b].next /\ block' = disk[b].next
    BY <1>1 DEF FindRdb
  <2>3. disk[b].next \in Block \cup {NoBlock}
    BY <2>1, <2>2 DEF TypeOK, Contents
  <2> QED
    BY <1>1, <2>1, <2>2, <2>3 DEF FindRdb, TypeOK
<1>2. CASE NoRdb \/ OpenFile \/ NoFile
  BY <1>2 DEF NoRdb, OpenFile, NoFile, TypeOK
<1>3. CASE Erase
  <2>1. block \in Block /\ disk[block] \in Contents
    BY <1>3 DEF Erase, Listed, TypeOK
  <2>2. Erased(disk[block]) \in Contents /\ disk[block].next \in Block \cup {NoBlock}
    BY <2>1 DEF Erased, Contents, Ids
  <2>3. disk' = [disk EXCEPT ![block] = Erased(disk[block])]
    BY <1>3 DEF Erase
  <2>4. disk' \in [Block -> Contents]
    BY <2>1, <2>2, <2>3, DiskReplaced DEF TypeOK
  <2> QED
    BY <1>3, <2>2, <2>4 DEF Erase, TypeOK
<1>4. CASE EraseEnds
  <2>1. offset' = 0 /\ size' = size /\ 0 \in 0 .. size
    BY <1>0, <1>4 DEF EraseEnds
  <2>2. offset' \in 0 .. size'
    BY <2>1
  <2> QED
    BY <1>0, <1>4, <2>2 DEF EraseEnds, TypeOK
<1>5. CASE InstallFirst
  BY <1>5 DEF InstallFirst, TypeOK
<1>6. CASE InstallChunk
  <2>1. PICK b \in Block :
           /\ disk' = [disk EXCEPT ![block] = BootBlock(b, offset + 1 = size)]
           /\ block' = b /\ free_block_pointer' = b
    BY <1>6 DEF InstallChunk
  <2>2. block \in Block /\ offset < size
    BY <1>6 DEF InstallChunk, More, TargetFree
  <2>3. run \in 0 .. MaxRuns /\ offset + 1 \in Nat /\ offset + 1 \in 0 .. size
    BY <2>2, Numbers
  <2>4. BootBlock(b, offset + 1 = size) \in Contents
    BY <2>2, <2>3 DEF BootBlock, Contents, Ids
  <2>5. disk' \in [Block -> Contents]
    BY <2>1, <2>2, <2>4, DiskReplaced DEF TypeOK
  <2> QED
    BY <1>6, <2>1, <2>3, <2>5 DEF InstallChunk, TypeOK
<1>7. CASE InstallFails \/ InstallEnds
  BY <1>7 DEF InstallFails, InstallEnds, TypeOK
<1>8. CASE WriteRdb
  <2>1. rdb_block \in Block /\ disk[rdb_block] \in Contents
    BY <1>8 DEF WriteRdb, RdbKept, TypeOK
  <2> DEFINE c == [disk[rdb_block] EXCEPT !.next = list, !.good = TRUE]
  <2>2. c \in Contents
    BY <2>1 DEF Contents, TypeOK
  <2>3. disk' = [disk EXCEPT ![rdb_block] = c]
    BY <1>8, <2>1 DEF WriteRdb, TypeOK, Contents
  <2>4. disk' \in [Block -> Contents]
    BY <2>1, <2>2, <2>3, DiskReplaced DEF TypeOK
  <2> QED
    BY <1>8, <2>4 DEF WriteRdb, TypeOK
<1>9. CASE Rerun \/ Crash
  <2>1. run < MaxRuns /\ run' = run + 1 /\ size' \in Sizes /\ offset' = 0
    BY <1>9 DEF Rerun, Crash, Start
  <2>2. run' \in 1 .. MaxRuns /\ offset' \in 0 .. size'
    BY <2>1, Numbers, SizeAssumption
  <2> QED
    BY <1>0, <1>9, <2>1, <2>2 DEF Rerun, Crash, Start, TypeOK
<1>10. CASE UNCHANGED vars
  BY <1>10 DEF vars, TypeOK
<1> QED
  BY <1>1, <1>2, <1>3, <1>4, <1>5, <1>6, <1>7, <1>8, <1>9, <1>10 DEF Next, Program

\* Every step keeps the RigidDiskBlock one: what is erased is a boot block
\* and what is overwritten is free, so neither is the one that was found.
LEMMA RdbStep == Inv /\ [Next]_vars => RdbKept'
<1> SUFFICES ASSUME Inv, [Next]_vars PROVE RdbKept'
  OBVIOUS
<1> USE DEF Inv, memory
<1>1. CASE FindRdb
  <2>1. \A b \in 0 .. (Limit - 1) : b \in Block
    BY SizeAssumption, DiskAssumption DEF Block
  <2> QED
    BY <1>1, <2>1 DEF FindRdb, IsRdb, RdbKept
<1>2. CASE Erase
  <2>1. disk[block].id = "BOOT" /\ block # rdb_block
    BY <1>2 DEF Erase, Listed, RdbKept
  <2>2. disk'[rdb_block] = disk[rdb_block]
    BY <1>2, <2>1 DEF Erase, TypeOK, RdbKept
  <2> QED
    BY <1>2, <2>2 DEF Erase, RdbKept
<1>3. CASE InstallChunk
  <2>1. block # rdb_block
    BY <1>3 DEF InstallChunk, TargetFree, IsFree, RdbKept
  <2>2. disk'[rdb_block] = disk[rdb_block]
    BY <1>3, <2>1 DEF InstallChunk, TypeOK, RdbKept
  <2> QED
    BY <1>3, <2>2 DEF InstallChunk, RdbKept
<1>4. CASE EraseEnds \/ InstallFirst \/ InstallFails \/ InstallEnds \/ OpenFile
  BY <1>4 DEF EraseEnds, InstallFirst, InstallFails, InstallEnds, OpenFile, RdbKept
<1>5. CASE NoRdb \/ NoFile \/ WriteRdb \/ Rerun \/ Crash
  BY <1>5 DEF NoRdb, NoFile, WriteRdb, Rerun, Crash, Start, RdbKept
<1>6. CASE UNCHANGED vars
  BY <1>6 DEF vars, RdbKept
<1> QED
  BY <1>1, <1>2, <1>3, <1>4, <1>5, <1>6 DEF Next, Program

\* Every step keeps the next target free: a chunk is written to the old
\* target, and the new one lies behind it.
LEMMA TargetStep == Inv /\ [Next]_vars => TargetFree'
<1> SUFFICES ASSUME Inv, [Next]_vars PROVE TargetFree'
  OBVIOUS
<1> USE DEF Inv, memory
<1>1. CASE InstallFirst
  BY <1>1 DEF InstallFirst, NextFree, TargetFree
<1>2. CASE InstallChunk
  <2>1. PICK b \in Block :
           /\ NextFree(b)
           /\ disk' = [disk EXCEPT ![block] = BootBlock(b, offset + 1 = size)]
           /\ block' = b /\ free_block_pointer' = b
    BY <1>2 DEF InstallChunk
  <2>2. b # block
    <3>1. block = free_block_pointer /\ block \in Block /\ b > free_block_pointer
      BY <1>2, <2>1 DEF InstallChunk, NextFree, Examined, TargetFree
    <3> QED
      BY <3>1, SizeAssumption DEF Block
  <2>3. disk'[b] = disk[b]
    BY <2>1, <2>2 DEF TypeOK
  <2>4. IsFree(disk'[b])
    BY <2>1, <2>3 DEF NextFree
  <2> QED
    BY <2>1, <2>4 DEF TargetFree
<1>3. CASE UNCHANGED vars
  BY <1>3 DEF vars, TargetFree
<1>4. CASE \/ FindRdb \/ NoRdb \/ OpenFile \/ NoFile \/ Erase \/ EraseEnds
           \/ InstallFails \/ InstallEnds \/ WriteRdb \/ Rerun \/ Crash
  BY <1>4 DEF FindRdb, NoRdb, OpenFile, NoFile, Erase, EraseEnds, InstallFails,
              InstallEnds, WriteRdb, Rerun, Crash, Start, TargetFree
<1> QED
  BY <1>1, <1>2, <1>3, <1>4 DEF Next, Program

\* The strengthened invariant holds in every state of every behaviour.
LEMMA Invariant == Spec => []Inv
<1>1. Inv /\ [Next]_vars => Inv'
  BY TypeStep, RdbStep, TargetStep DEF Inv
<1> QED
  BY InitInv, <1>1, PTL DEF Spec

\* Every state of the installer and the disk has its type.
THEOREM TypeCorrect == Spec => []TypeOK
<1>1. Inv => TypeOK
  BY DEF Inv
<1> QED
  BY Invariant, <1>1, PTL

\* The conclusion of NoCollateral, for one step.
Spared ==
  \A b \in Block :
    /\ disk[b].id = "PART" => disk'[b] = disk[b]
    /\ disk[b].id = "RDSK" =>
         disk'[b].id = "RDSK" /\ (b # rdb_block => disk'[b] = disk[b])

\* Three actions write: the two of erase_slb() and install_slb() to blocks
\* that are neither, the last one to the RigidDiskBlock that was found.
LEMMA StepSpares == Inv /\ [Next]_vars => Spared
<1> SUFFICES ASSUME Inv, [Next]_vars, NEW b \in Block
             PROVE  /\ disk[b].id = "PART" => disk'[b] = disk[b]
                    /\ disk[b].id = "RDSK" =>
                         disk'[b].id = "RDSK" /\ (b # rdb_block => disk'[b] = disk[b])
  BY DEF Spared
<1> USE DEF Inv
<1>1. CASE disk' = disk
  BY <1>1
<1>2. CASE Erase
  <2>1. disk[block].id = "BOOT"
    BY <1>2 DEF Erase, Listed
  <2>2. b # block => disk'[b] = disk[b]
    BY <1>2 DEF Erase, TypeOK
  <2> QED
    BY <2>1, <2>2
<1>3. CASE InstallChunk
  <2>1. disk[block].id \notin {"RDSK", "PART"}
    BY <1>3 DEF InstallChunk, TargetFree, IsFree
  <2>2. b # block => disk'[b] = disk[b]
    BY <1>3 DEF InstallChunk, TypeOK
  <2> QED
    BY <2>1, <2>2
<1>4. CASE WriteRdb
  <2>1. rdb_block \in Block /\ disk[rdb_block].id = "RDSK"
    BY <1>4 DEF WriteRdb, RdbKept
  <2>2. b # rdb_block => disk'[b] = disk[b]
    BY <1>4 DEF WriteRdb, TypeOK
  <2>3. disk'[rdb_block].id = disk[rdb_block].id
    BY <1>4, <2>1 DEF WriteRdb, TypeOK, Contents
  <2> QED
    BY <2>1, <2>2, <2>3
<1> QED
  BY <1>1, <1>2, <1>3, <1>4 DEF Next, Program, FindRdb, NoRdb, OpenFile, NoFile,
     EraseEnds, InstallFirst, InstallFails, InstallEnds, Rerun, Crash, Start, vars

\* No run, killed or not, damages a partition block, a bad block list or a
\* RigidDiskBlock, on any disk (parthenope-install.c:117-123, 150, 261).
THEOREM NothingElseIsWritten == Spec => NoCollateral
<1>1. Inv /\ [Next]_vars => [Spared]_vars
  BY StepSpares
<1> QED
  BY Invariant, <1>1, PTL DEF Spec, NoCollateral, Spared
-----------------------------------------------------------------------------
(* One bootloader at a time.                                               *)

\* find_rdb()'s answer: where the firmware finds the RigidDiskBlock too.
FirstRdb(r) ==
  r \in 0 .. (Limit - 1) /\ IsRdb(r) /\ \A c \in 0 .. (r - 1) : ~IsRdb(c)

\* Every list the firmware can read is of run q: it begins in that run if it
\* begins at all, and it never leaves it.
OneRun(q) ==
  /\ \A r : FirstRdb(r) /\ Listed(disk[r].next) => disk[disk[r].next].run = q
  /\ \A b \in Block :
       Listed(b) /\ disk[b].run = q /\ Listed(disk[b].next) =>
         disk[disk[b].next].run = q

\* The block that was found is the first one as long as it is used.
FoundFirst ==
  pc \in {"open", "erase", "first", "install", "write_rdb"} \/ result = "ok" =>
    FirstRdb(rdb_block)

\* A run writes its number on nothing before it installs.
Labels ==
  \A b \in Block :
    /\ disk[b].run <= run
    /\ pc \in {"find", "open", "erase", "first"} => disk[b].run < run

Single ==
  /\ \E q \in Nat : OneRun(q)
  /\ pc \in {"first", "install", "write_rdb"} => OneRun(run)

\* Erasing begins at the head of the list on the disk: it is there that the
\* list is cut off, whether the run gets to its end or not.
HeadErased ==
  /\ pc \in {"open", "erase"} =>
       list = disk[rdb_block].next /\ (block = list \/ ~Listed(list))
  /\ pc = "first" => list = disk[rdb_block].next /\ ~Listed(list)
  /\ pc \in {"install", "write_rdb"} => (Listed(list) => disk[list].run = run)

\* The blocks w of the chunks written so far: each points to the next, the
\* last one to the block of the next chunk or, behind the whole, nowhere.
Written(w) ==
  /\ list = IF offset = 0 THEN block ELSE w[1]
  /\ \A k \in 1 .. offset :
       /\ w[k] >= k /\ Listed(w[k])
       /\ disk[w[k]].run = run /\ disk[w[k]].chunk = k
       /\ disk[w[k]].next = IF k = size THEN NoBlock
                            ELSE IF k = offset THEN block ELSE w[k + 1]

Progress ==
  /\ pc = "first" => offset = 0
  /\ pc = "install" => block > offset
  /\ pc = "install" \/ result = "ok" => \E w \in [1 .. offset -> Block] : Written(w)
  /\ result = "ok" => pc \in {"write_rdb", "done"} /\ offset = size
  /\ result = "ok" /\ offset = 0 => ~Listed(list)
  /\ pc = "done" /\ result = "ok" => disk[rdb_block].next = list

IInv == Inv /\ FoundFirst /\ Labels /\ Single /\ HeadErased /\ Progress

\* The blocks a RigidDiskBlock is looked for in are blocks of the disk.
LEMMA LocationsAreBlocks ==
  \A r \in 0 .. (Limit - 1) : r \in Block /\ \A c \in 0 .. (r - 1) : c \in 0 .. (Limit - 1)
  BY SizeAssumption, DiskAssumption DEF Block

\* What a next field points to is a block or nothing.
LEMMA NextType ==
  ASSUME TypeOK, NEW b \in Block
  PROVE  /\ disk[b].next \in Block \cup {NoBlock} /\ disk[b].run \in 0 .. MaxRuns
         /\ disk[b].run \in Nat
  <1>1. disk[b] \in Contents
    BY DEF TypeOK
  <1>2. QED
    BY <1>1, SizeAssumption DEF Contents

\* Only blocks of the disk are listed.
LEMMA ListedType ==
  ASSUME NEW b \in Block \cup {NoBlock}, Listed(b)
  PROVE  b \in Block
  BY DEF Listed

\* Of a block erased only the identifier is another one.
LEMMA ErasedFields ==
  ASSUME NEW blk \in Contents
  PROVE  /\ Erased(blk).id = "FREE" /\ Erased(blk).next = blk.next
         /\ Erased(blk).run = blk.run
  BY DEF Erased, Contents

\* Erasing takes one block off every list and leaves the others.
LEMMA EraseWrites ==
  ASSUME Inv, Erase
  PROVE  /\ block \in Block /\ Listed(block)
         /\ disk'[block] = Erased(disk[block])
         /\ \A b \in Block : b # block => disk'[b] = disk[b]
         /\ \A b \in Block \cup {NoBlock} :
              Listed(b)' <=> b # block /\ Listed(b)
  <1>1. block \in Block /\ Listed(block) /\ disk' = [disk EXCEPT ![block] = Erased(@)]
    BY DEF Erase, Listed, Inv, TypeOK
  <1>2. /\ disk'[block] = Erased(disk[block])
        /\ \A b \in Block : b # block => disk'[b] = disk[b]
    BY <1>1 DEF Inv, TypeOK
  <1>3. disk'[block].id = "FREE"
    BY <1>1, <1>2, ErasedFields DEF Inv, TypeOK
  <1>4. NoBlock \notin Block
    BY SizeAssumption DEF NoBlock, Block
  <1>5. ASSUME NEW b \in Block \cup {NoBlock}
        PROVE  Listed(b)' <=> b # block /\ Listed(b)
    <2>1. CASE b = NoBlock
      BY <2>1 DEF Listed
    <2>2. CASE b = block
      BY <1>3, <2>2 DEF Listed
    <2>3. CASE b \in Block /\ b # block
      BY <1>2, <2>3 DEF Listed
    <2>4. QED
      BY <2>1, <2>2, <2>3
  <1>6. QED
    BY <1>1, <1>2, <1>5

\* Erasing changes neither what a block points to nor whose it is.
LEMMA EraseKeeps ==
  ASSUME Inv, Erase, NEW b \in Block
  PROVE  disk'[b].next = disk[b].next /\ disk'[b].run = disk[b].run
  <1>1. CASE b = block
    <2>1. disk[block] \in Contents
      BY <1>1 DEF Inv, TypeOK
    <2>2. disk'[block] = Erased(disk[block])
      BY EraseWrites
    <2>3. QED
      BY ONLY <1>1, <2>1, <2>2, ErasedFields
  <1>2. CASE b # block
    <2>1. disk'[b] = disk[b]
      BY <1>2, EraseWrites
    <2>2. QED
      BY ONLY <2>1
  <1>3. QED
    BY <1>1, <1>2

\* A chunk is written to one free block, which is listed then.
LEMMA ChunkWrites ==
  ASSUME Inv, InstallChunk
  PROVE  /\ block \in Block /\ ~Listed(block) /\ IsFree(disk[block])
         /\ block' \in Block /\ block' > block /\ IsFree(disk[block'])
         /\ disk'[block] = BootBlock(block', offset + 1 = size)
         /\ \A b \in Block : b # block => disk'[b] = disk[b]
         /\ \A b \in Block \cup {NoBlock} :
              Listed(b)' <=> b = block \/ Listed(b)
  <1>1. PICK b \in Block :
           /\ NextFree(b)
           /\ disk' = [disk EXCEPT ![block] = BootBlock(b, offset + 1 = size)]
           /\ block' = b
    BY DEF InstallChunk
  <1>2. block \in Block /\ IsFree(disk[block]) /\ block = free_block_pointer
    BY DEF InstallChunk, Inv, TargetFree
  <1>3. b > block /\ IsFree(disk[b])
    BY <1>1, <1>2 DEF NextFree, Examined
  <1>4. /\ disk'[block] = BootBlock(b, offset + 1 = size)
        /\ \A c \in Block : c # block => disk'[c] = disk[c]
    BY <1>1, <1>2 DEF Inv, TypeOK
  <1>5. NoBlock \notin Block
    BY SizeAssumption DEF NoBlock, Block
  <1>6. ~Listed(block) /\ disk'[block].good /\ disk'[block].id = "BOOT"
    BY <1>2, <1>4 DEF IsFree, Listed, BootBlock
  <1>7. \A c \in Block \cup {NoBlock} : Listed(c)' <=> c = block \/ Listed(c)
    BY <1>2, <1>4, <1>5, <1>6 DEF Listed
  <1>8. QED
    BY <1>1, <1>2, <1>3, <1>4, <1>6, <1>7

\* Writing the RigidDiskBlock changes the head of its list and no boot block.
LEMMA RdbWrites ==
  ASSUME Inv, FoundFirst, WriteRdb
  PROVE  /\ rdb_block \in Block /\ IsRdb(rdb_block)
         /\ disk'[rdb_block].good /\ disk'[rdb_block].id = "RDSK"
         /\ disk'[rdb_block].next = list
         /\ \A b \in Block : b # rdb_block => disk'[b] = disk[b]
         /\ \A b \in Block \cup {NoBlock} :
              (Listed(b)' <=> Listed(b)) /\ (Listed(b) => disk'[b] = disk[b])
  <1>1. rdb_block \in Block /\ IsRdb(rdb_block)
    BY LocationsAreBlocks DEF FoundFirst, FirstRdb, WriteRdb
  <1>2. disk[rdb_block] \in Contents
    BY <1>1 DEF Inv, TypeOK
  <1>3. disk' = [disk EXCEPT ![rdb_block] = [@ EXCEPT !.next = list, !.good = TRUE]]
    BY <1>1, <1>2 DEF WriteRdb, Inv, TypeOK, Contents
  <1>4. /\ disk'[rdb_block] = [disk[rdb_block] EXCEPT !.next = list, !.good = TRUE]
        /\ \A b \in Block : b # rdb_block => disk'[b] = disk[b]
    BY <1>1, <1>3 DEF Inv, TypeOK
  <1>5. /\ disk'[rdb_block].next = list /\ disk'[rdb_block].good
        /\ disk'[rdb_block].id = "RDSK" /\ disk[rdb_block].id = "RDSK"
    BY <1>1, <1>2, <1>4 DEF Contents, IsRdb
  <1>6. \A b \in Block \cup {NoBlock} : Listed(b) =>
          b \in Block /\ b # rdb_block /\ disk'[b] = disk[b]
    BY <1>4, <1>5 DEF Listed
  <1>7. \A b \in Block \cup {NoBlock} : Listed(b)' => Listed(b)
    BY <1>4, <1>5 DEF Listed
  <1>8. \A b \in Block \cup {NoBlock} : Listed(b) => Listed(b)'
    BY <1>6 DEF Listed
  <1>9. QED
    BY <1>1, <1>4, <1>5, <1>6, <1>7, <1>8

\* Where a RigidDiskBlock is and where it is not never changes.
LEMMA SameRdbs ==
  ASSUME Inv, FoundFirst, [Next]_vars, NEW r
  PROVE  FirstRdb(r)' <=> FirstRdb(r)
  <1>1. \A b \in Block : IsRdb(b)' <=> IsRdb(b)
    <2>1. CASE disk' = disk
      BY <2>1 DEF IsRdb
    <2>2. CASE Erase
      <3>1. disk[block].id = "BOOT" /\ disk'[block].id = "FREE"
        <4>1. block \in Block /\ Listed(block) /\ disk'[block] = Erased(disk[block])
          BY <2>2, EraseWrites
        <4>2. disk[block] \in Contents
          BY <4>1 DEF Inv, TypeOK
        <4>3. QED
          BY <4>1, <4>2, ErasedFields DEF Listed
      <3>2. QED
        BY <2>2, <3>1, EraseWrites DEF IsRdb
    <2>3. CASE InstallChunk
      BY <2>3, ChunkWrites DEF IsRdb, IsFree, BootBlock
    <2>4. CASE WriteRdb
      BY <2>4, RdbWrites DEF IsRdb
    <2>5. Erase \/ InstallChunk \/ WriteRdb \/ disk' = disk
      BY DEF Next, Program, FindRdb, NoRdb, OpenFile, NoFile, EraseEnds,
         InstallFirst, InstallFails, InstallEnds, Rerun, Crash, Start, vars
    <2>6. QED
      BY <2>1, <2>2, <2>3, <2>4, <2>5
  <1>2. QED
    BY <1>1, LocationsAreBlocks DEF FirstRdb

-----------------------------------------------------------------------------
(* Each part of the invariant is kept.                                     *)

\* The actions that leave the disk and the numbers the invariant speaks of
\* alone.
Idle == NoRdb \/ NoFile \/ OpenFile

LEMMA InitIInv == Init => IInv
  <1> SUFFICES ASSUME Init PROVE IInv
    OBVIOUS
  <1>1. Inv
    BY InitInv
  <1>2. \A b \in Block : disk[b].run = 0
    BY OldAssumption DEF Init
  <1>3. Labels
    BY <1>2 DEF Init, Labels
  <1>4. OneRun(0)
    <2>1. \A b \in Block : Listed(disk[b].next) => disk[b].next \in Block
      BY <1>1, NextType, ListedType DEF Inv
    <2>2. QED
      BY <1>2, <2>1, LocationsAreBlocks DEF OneRun, FirstRdb
  <1>5. Single
    BY <1>4 DEF Single, Init
  <1>6. FoundFirst /\ HeadErased /\ Progress
    BY DEF Init, FoundFirst, HeadErased, Progress
  <1>7. QED
    BY <1>1, <1>3, <1>5, <1>6 DEF IInv

LEMMA FoundStep == IInv /\ [Next]_vars => FoundFirst'
  <1> SUFFICES ASSUME IInv, [Next]_vars PROVE FoundFirst'
    OBVIOUS
  <1>1. \A r : FirstRdb(r)' <=> FirstRdb(r)
    BY SameRdbs DEF IInv
  <1>2. CASE FindRdb
    BY <1>1, <1>2 DEF FindRdb, FoundFirst, FirstRdb
  <1>3. CASE NoRdb \/ NoFile \/ Rerun \/ Crash
    BY <1>3 DEF NoRdb, NoFile, Rerun, Crash, Start, FoundFirst, IInv, Progress
  <1>4. CASE \/ OpenFile \/ Erase \/ EraseEnds \/ InstallFirst \/ InstallChunk
             \/ InstallFails \/ InstallEnds \/ WriteRdb \/ UNCHANGED vars
    <2>1. /\ rdb_block' = rdb_block
          /\ pc' \in {"open", "erase", "first", "install", "write_rdb"} \/ result' = "ok"
               => pc \in {"open", "erase", "first", "install", "write_rdb"} \/ result = "ok"
      BY <1>4 DEF OpenFile, Erase, EraseEnds, InstallFirst, InstallChunk,
         InstallFails, InstallEnds, WriteRdb, memory, vars
    <2>2. QED
      BY <1>1, <2>1 DEF IInv, FoundFirst, FirstRdb
  <1>5. QED
    BY <1>2, <1>3, <1>4 DEF Next, Program

LEMMA LabelsStep == IInv /\ [Next]_vars => Labels'
  <1> SUFFICES ASSUME IInv, [Next]_vars PROVE Labels'
    OBVIOUS
  <1>0. Inv /\ FoundFirst /\ Labels /\ TypeOK
    BY DEF IInv, Inv
  <1>1. \A b \in Block : disk[b].run \in Nat
    BY <1>0, NextType
  <1>2. run \in Nat
    BY <1>0, Numbers
  <1>3. CASE disk' = disk
    <2>1. \/ run' = run + 1 /\ pc' = "find"
          \/ run' = run /\ (pc' \in {"find", "open", "erase", "first"} =>
                              pc \in {"find", "open", "erase", "first"})
      BY <1>3 DEF Next, Program, FindRdb, NoRdb, OpenFile, NoFile, Erase, EraseEnds,
         InstallFirst, InstallChunk, InstallFails, InstallEnds, WriteRdb, Rerun,
         Crash, Start, vars
    <2>2. QED
      BY <1>0, <1>1, <1>2, <1>3, <2>1 DEF Labels
  <1>4. CASE Erase
    <2>1. \A b \in Block : disk'[b].run = disk[b].run
      BY <1>0, <1>4, EraseKeeps
    <2>2. QED
      BY <1>0, <1>4, <2>1 DEF Erase, Labels
  <1>5. CASE InstallChunk
    <2>1. disk'[block].run = run
      BY <1>0, <1>5, ChunkWrites DEF BootBlock
    <2>2. \A b \in Block : disk'[b].run = disk[b].run \/ disk'[b].run = run
      BY <1>0, <1>5, <2>1, ChunkWrites
    <2>3. QED
      BY <1>0, <1>2, <1>5, <2>2 DEF InstallChunk, Labels
  <1>6. CASE WriteRdb
    <2>1. disk'[rdb_block].run = disk[rdb_block].run
      <3>1. rdb_block \in Block /\ disk[rdb_block] \in Contents
        BY <1>0, <1>6, RdbWrites DEF TypeOK
      <3>2. disk' = [disk EXCEPT ![rdb_block] = [@ EXCEPT !.next = list, !.good = TRUE]]
        BY <1>0, <1>6, <3>1 DEF WriteRdb, TypeOK, Contents
      <3>3. QED
        BY <1>0, <3>1, <3>2 DEF TypeOK, Contents
    <2>2. \A b \in Block : disk'[b].run = disk[b].run
      BY <1>0, <1>6, <2>1, RdbWrites
    <2>3. QED
      BY <1>0, <1>6, <2>2 DEF WriteRdb, Labels
  <1>7. Erase \/ InstallChunk \/ WriteRdb \/ disk' = disk
    BY DEF Next, Program, FindRdb, NoRdb, OpenFile, NoFile, EraseEnds,
       InstallFirst, InstallFails, InstallEnds, Rerun, Crash, Start, vars
  <1>8. QED
    BY <1>3, <1>4, <1>5, <1>6, <1>7

\* Erasing takes blocks off the lists, and what is left of a list of one run
\* is of that run.
LEMMA EraseOneRun ==
  ASSUME IInv, Erase, NEW q, OneRun(q)
  PROVE  OneRun(q)'
  <1>0. Inv /\ FoundFirst /\ TypeOK /\ [Next]_vars
    BY DEF IInv, Inv, Next, Program
  <1>1. \A b \in Block : disk'[b].next = disk[b].next /\ disk'[b].run = disk[b].run
    BY <1>0, EraseKeeps
  <1>2. \A b \in Block : Listed(disk[b].next) => disk[b].next \in Block
    BY <1>0, NextType, ListedType
  <1>3. \A b \in Block : Listed(disk[b].next)' => Listed(disk[b].next)
    <2> SUFFICES ASSUME NEW b \in Block, Listed(disk[b].next)'
                 PROVE  Listed(disk[b].next)
      OBVIOUS
    <2> DEFINE n == disk[b].next
    <2>1. n \in Block \cup {NoBlock}
      BY <1>0, NextType
    <2>2. disk'[b].next = n
      BY <1>1
    <2> HIDE DEF n
    <2>3. n # NoBlock /\ disk'[n].good /\ disk'[n].id = "BOOT"
      BY <2>2 DEF Listed
    <2>4. Listed(n)
      <3>1. \A c \in Block \cup {NoBlock} :
              c # NoBlock /\ disk'[c].good /\ disk'[c].id = "BOOT" => Listed(c)
        BY <1>0, EraseWrites DEF Listed
      <3>2. QED
        BY <2>1, <2>3, <3>1
    <2>5. QED
      BY <2>4 DEF n
  <1>4. \A r : FirstRdb(r)' <=> FirstRdb(r)
    BY <1>0, SameRdbs
  <1>5. \A r : FirstRdb(r) => r \in Block
    BY LocationsAreBlocks DEF FirstRdb
  <1>6. \A b \in Block : Listed(b)' => Listed(b)
    BY <1>0, EraseWrites
  <1>7. QED
    BY <1>1, <1>2, <1>3, <1>4, <1>5, <1>6 DEF OneRun

\* There is one first.
LEMMA OneFirst ==
  ASSUME NEW r, NEW s, FirstRdb(r), FirstRdb(s)
  PROVE  r = s
  BY SizeAssumption DEF FirstRdb

\* A chunk is added to the run's own list or to no list.
LEMMA ChunkOneRun ==
  ASSUME IInv, InstallChunk
  PROVE  OneRun(run)'
  <1>0. Inv /\ FoundFirst /\ TypeOK /\ [Next]_vars /\ OneRun(run) /\ run' = run
    BY DEF IInv, Inv, Next, Program, Single, InstallChunk
  <1>1. /\ block \in Block /\ ~Listed(block) /\ IsFree(disk[block])
        /\ block' \in Block /\ block' # block /\ IsFree(disk[block'])
        /\ disk'[block].run = run /\ disk'[block].next \in {block', NoBlock}
        /\ \A b \in Block : b # block => disk'[b] = disk[b]
        /\ \A b \in Block \cup {NoBlock} : Listed(b)' => b = block \/ Listed(b)
    BY <1>0, ChunkWrites, SizeAssumption DEF BootBlock, Block
  <1>2. ASSUME NEW n \in Block \cup {NoBlock}, Listed(n)', Listed(n) => disk[n].run = run
        PROVE  disk'[n].run = run
    <2>1. CASE n = block
      BY <1>1, <2>1
    <2>2. CASE n # block
      <3>1. Listed(n)
        BY <1>1, <1>2, <2>2
      <3>2. n \in Block
        BY <3>1, ListedType
      <3>3. QED
        BY <1>1, <1>2, <2>2, <3>1, <3>2
    <2>3. QED
      BY <2>1, <2>2
  <1>3. ASSUME NEW r, FirstRdb(r)', Listed(disk[r].next)'
        PROVE  disk'[disk'[r].next].run = run
    <2>1. FirstRdb(r) /\ r \in Block /\ disk[r].id = "RDSK"
      BY <1>0, <1>3, SameRdbs, LocationsAreBlocks DEF FirstRdb, IsRdb
    <2>2. disk'[r] = disk[r]
      BY <1>1, <2>1 DEF IsFree
    <2>3. disk[r].next \in Block \cup {NoBlock}
      BY <1>0, <2>1, NextType
    <2>4. Listed(disk[r].next) => disk[disk[r].next].run = run
      BY <1>0, <2>1 DEF OneRun
    <2>5. PICK n : n = disk[r].next
      OBVIOUS
    <2>6. disk'[r].next = n /\ Listed(n)'
      BY <1>3, <2>2, <2>5 DEF Listed
    <2>7. QED
      BY <1>2, <2>3, <2>4, <2>5, <2>6
  <1>4. ASSUME NEW b \in Block, Listed(b)', disk'[b].run = run, Listed(disk[b].next)'
        PROVE  disk'[disk'[b].next].run = run
    <2>1. CASE b = block
      <3>1. disk'[b].next # NoBlock
        BY <1>4 DEF Listed
      <3>2. disk'[b].next = block'
        BY <1>1, <2>1, <3>1
      <3>3. disk'[block'].id = "BOOT" /\ disk'[block'] = disk[block']
        BY <1>1, <1>4, <3>2 DEF Listed
      <3>4. QED
        BY <1>1, <3>3 DEF IsFree
    <2>2. CASE b # block
      <3>1. Listed(b) /\ disk'[b] = disk[b]
        BY <1>1, <1>4, <2>2
      <3>0. PICK n : n = disk[b].next
        OBVIOUS
      <3>2. n \in Block \cup {NoBlock}
        BY <1>0, <3>0, NextType
      <3>3. Listed(n) => disk[n].run = run
        BY <1>0, <1>4, <3>0, <3>1 DEF OneRun
      <3>4. disk'[b].next = n
        BY <3>0, <3>1
      <3>5. Listed(n)'
        BY <1>4, <3>4 DEF Listed
      <3>6. QED
        BY <1>2, <3>2, <3>3, <3>4, <3>5
    <2>3. QED
      BY <2>1, <2>2
  <1>5. QED
    BY <1>0, <1>3, <1>4 DEF OneRun

\* The RigidDiskBlock is made to point to the run's own list, or to none.
LEMMA WriteOneRun ==
  ASSUME IInv, WriteRdb
  PROVE  OneRun(run)'
  <1>0. /\ Inv /\ FoundFirst /\ TypeOK /\ [Next]_vars /\ OneRun(run) /\ run' = run
        /\ FirstRdb(rdb_block) /\ (Listed(list) => disk[list].run = run)
        /\ list \in Block \cup {NoBlock}
    BY DEF IInv, Inv, Next, Program, Single, WriteRdb, FoundFirst, HeadErased, TypeOK
  <1>1. /\ disk'[rdb_block].next = list
        /\ \A b \in Block \cup {NoBlock} : Listed(b)' => Listed(b) /\ disk'[b] = disk[b]
    BY <1>0, RdbWrites
  <1>2. ASSUME NEW r, FirstRdb(r)', Listed(disk[r].next)'
        PROVE  disk'[disk'[r].next].run = run
    <2>1. r = rdb_block
      BY <1>0, <1>2, SameRdbs, OneFirst
    <2>2. disk'[r].next = list
      BY <1>1, <2>1
    <2>0. PICK n : n = list
      OBVIOUS
    <2>3. disk'[r].next = n /\ n \in Block \cup {NoBlock} /\ (Listed(n) => disk[n].run = run)
      BY <1>0, <2>0, <2>2
    <2>4. Listed(n)'
      BY <1>2, <2>3 DEF Listed
    <2>5. QED
      BY <1>1, <2>3, <2>4
  <1>3. ASSUME NEW b \in Block, Listed(b)', disk'[b].run = run, Listed(disk[b].next)'
        PROVE  disk'[disk'[b].next].run = run
    <2>1. Listed(b) /\ disk'[b] = disk[b]
      BY <1>1, <1>3
    <2> DEFINE n == disk[b].next
    <2>2. n \in Block \cup {NoBlock}
      BY <1>0, NextType
    <2>3. disk'[b].next = n
      BY <2>1
    <2>4. Listed(n) => disk[n].run = run
      BY <1>0, <1>3, <2>1 DEF OneRun
    <2> HIDE DEF n
    <2>5. n # NoBlock /\ disk'[n].good /\ disk'[n].id = "BOOT"
      BY <1>3, <2>3 DEF Listed
    <2>6. Listed(n) /\ disk'[n] = disk[n]
      <3>1. \A c \in Block \cup {NoBlock} :
              c # NoBlock /\ disk'[c].good /\ disk'[c].id = "BOOT" =>
                Listed(c) /\ disk'[c] = disk[c]
        BY <1>1 DEF Listed
      <3>2. QED
        BY <2>2, <2>5, <3>1
    <2>7. QED
      BY <2>3, <2>4, <2>6
  <1>4. QED
    BY <1>0, <1>2, <1>3 DEF OneRun

LEMMA SingleStep == IInv /\ [Next]_vars => Single'
  <1> SUFFICES ASSUME IInv, [Next]_vars PROVE Single'
    OBVIOUS
  <1>0. Inv /\ FoundFirst /\ TypeOK /\ Single /\ Labels /\ HeadErased /\ run \in Nat
    BY Numbers DEF IInv, Inv
  <1>1. CASE disk' = disk
    <2>1. \A q : OneRun(q)' <=> OneRun(q)
      BY <1>1 DEF OneRun, FirstRdb, IsRdb, Listed
    <2>2. CASE EraseEnds
      <3>1. FirstRdb(rdb_block) /\ ~Listed(disk[rdb_block].next) /\ run' = run
        BY <1>0, <2>2 DEF EraseEnds, FoundFirst, HeadErased
      <3>2. \A b \in Block : disk[b].run # run
        BY <1>0, <2>2, NextType DEF EraseEnds, Labels
      <3>3. OneRun(run)
        BY <3>1, <3>2, OneFirst DEF OneRun
      <3>4. QED
        BY <1>0, <2>1, <3>1, <3>3 DEF Single
    <2>3. CASE ~EraseEnds
      <3>1. pc' \in {"first", "install", "write_rdb"} =>
              pc \in {"first", "install", "write_rdb"} /\ run' = run
        BY <1>1, <2>3 DEF Next, Program, FindRdb, NoRdb, OpenFile, NoFile, Erase,
           InstallFirst, InstallChunk, InstallFails, InstallEnds, WriteRdb, Rerun,
           Crash, Start, vars
      <3>2. QED
        BY <1>0, <2>1, <3>1 DEF Single
    <2>4. QED
      BY <2>2, <2>3
  <1>2. CASE Erase
    <2>1. PICK q \in Nat : OneRun(q)
      BY <1>0 DEF Single
    <2>2. OneRun(q)'
      BY <1>2, <2>1, EraseOneRun
    <2>3. pc' = "erase"
      BY <1>2 DEF Erase
    <2>4. QED
      BY <2>2, <2>3 DEF Single
  <1>3. CASE InstallChunk
    <2>1. OneRun(run)' /\ run' \in Nat
      BY <1>0, <1>3, ChunkOneRun DEF InstallChunk
    <2>2. QED
      BY <2>1 DEF Single
  <1>4. CASE WriteRdb
    <2>1. OneRun(run)' /\ run' \in Nat
      BY <1>0, <1>4, WriteOneRun DEF WriteRdb
    <2>2. QED
      BY <2>1 DEF Single
  <1>5. Erase \/ InstallChunk \/ WriteRdb \/ disk' = disk
    BY DEF Next, Program, FindRdb, NoRdb, OpenFile, NoFile, EraseEnds,
       InstallFirst, InstallFails, InstallEnds, Rerun, Crash, Start, vars
  <1>6. QED
    BY <1>1, <1>2, <1>3, <1>4, <1>5

LEMMA HeadStep == IInv /\ [Next]_vars => HeadErased'
  <1> SUFFICES ASSUME IInv, [Next]_vars PROVE HeadErased'
    OBVIOUS
  <1>0. Inv /\ TypeOK /\ RdbKept /\ HeadErased
    BY DEF IInv, Inv
  <1>1. CASE FindRdb
    BY <1>1 DEF FindRdb, HeadErased
  <1>2. CASE Erase
    <2>1. list = disk[rdb_block].next /\ rdb_block \in Block /\ rdb_block # block
      BY <1>0, <1>2, EraseWrites DEF Erase, HeadErased, RdbKept, Listed
    <2>2. disk'[rdb_block].next = list
      BY <1>0, <1>2, <2>1, EraseWrites
    <2>3. PICK n : n = list
      OBVIOUS
    <2>4. n \in Block \cup {NoBlock} /\ (n = block \/ ~Listed(n))
      BY <1>0, <1>2, <2>3 DEF Erase, HeadErased, TypeOK
    <2>5. ~Listed(n)'
      BY <1>0, <1>2, <2>4, EraseWrites
    <2>6. list' = n /\ rdb_block' = rdb_block /\ pc' = "erase"
      BY <1>2, <2>3 DEF Erase
    <2>7. ~Listed(list)'
      BY <2>5, <2>6 DEF Listed
    <2>8. QED
      BY <2>2, <2>3, <2>6, <2>7 DEF HeadErased
  <1>3. CASE EraseEnds
    BY <1>0, <1>3 DEF EraseEnds, HeadErased, Listed
  <1>4. CASE InstallFirst
    BY <1>4 DEF InstallFirst, NextFree, IsFree, HeadErased, Listed
  <1>5. CASE InstallChunk
    <2>1. PICK n : n = list
      OBVIOUS
    <2>2. n \in Block \cup {NoBlock} /\ (Listed(n) => n \in Block /\ disk[n].run = run)
      BY <1>0, <1>5, <2>1, ListedType DEF InstallChunk, HeadErased, TypeOK
    <2>3. disk'[block].run = run
      BY <1>0, <1>5, ChunkWrites DEF BootBlock
    <2>4. Listed(n)' => disk'[n].run = run
      BY <1>0, <1>5, <2>2, <2>3, ChunkWrites
    <2>5. list' = n /\ run' = run /\ pc' = "install"
      BY <1>5, <2>1 DEF InstallChunk
    <2>6. QED
      BY <2>4, <2>5 DEF HeadErased, Listed
  <1>6. CASE InstallFails \/ InstallEnds
    BY <1>0, <1>6 DEF InstallFails, InstallEnds, HeadErased, Listed, memory
  <1>7. CASE NoRdb \/ NoFile \/ WriteRdb \/ Rerun \/ Crash
    BY <1>7 DEF NoRdb, NoFile, WriteRdb, Rerun, Crash, Start, HeadErased
  <1>8. CASE OpenFile \/ UNCHANGED vars
    BY <1>0, <1>8 DEF OpenFile, memory, vars, HeadErased, Listed
  <1>9. QED
    BY <1>1, <1>2, <1>3, <1>4, <1>5, <1>6, <1>7, <1>8 DEF Next, Program

\* One more chunk: the blocks so far and the one just written.
LEMMA ChunkProgress ==
  ASSUME IInv, InstallChunk
  PROVE  Progress'
  <1>0. /\ Inv /\ TypeOK /\ Progress /\ pc = "install" /\ offset < size
        /\ size \in Nat /\ offset \in Nat
        /\ offset' = offset + 1 /\ list' = list /\ run' = run /\ size' = size
        /\ pc' = "install" /\ result' = result /\ result # "ok" /\ block > offset
    BY Numbers DEF IInv, Inv, InstallChunk, More, Progress
  <1>1. PICK w \in [1 .. offset -> Block] : Written(w)
    BY <1>0 DEF Progress
  <1>2. /\ block \in Block /\ ~Listed(block) /\ block' \in Block /\ block' > block
        /\ disk'[block].run = run /\ disk'[block].chunk = offset + 1
        /\ disk'[block].next = IF offset + 1 = size THEN NoBlock ELSE block'
        /\ \A b \in Block : b # block => disk'[b] = disk[b]
        /\ \A b \in Block \cup {NoBlock} : Listed(b)' <=> b = block \/ Listed(b)
    BY <1>0, ChunkWrites DEF BootBlock
  <1> DEFINE v == [k \in 1 .. (offset + 1) |-> IF k = offset + 1 THEN block ELSE w[k]]
  <1>3. PICK u : u = v
    OBVIOUS
  <1>4. u \in [1 .. offset' -> Block]
    BY <1>0, <1>1, <1>2, <1>3
  <1>5. /\ u[offset + 1] = block
        /\ \A k \in 1 .. offset : u[k] = w[k]
    BY <1>0, <1>3
  <1>6. list = u[1]
    BY <1>0, <1>1, <1>5 DEF Written
  <1> HIDE DEF v
  <1>7. ASSUME NEW k \in 1 .. (offset + 1)
        PROVE  /\ u[k] >= k /\ Listed(u[k])'
               /\ disk'[u[k]].run = run /\ disk'[u[k]].chunk = k
               /\ disk'[u[k]].next = IF k = size THEN NoBlock
                                     ELSE IF k = offset + 1 THEN block' ELSE u[k + 1]
    <2>1. CASE k = offset + 1
      <3>1. u[k] >= k
        BY <1>0, <1>2, <1>5, <2>1, SizeAssumption DEF Block
      <3>2. Listed(u[k])'
        <4>1. PICK b : b = u[k]
          OBVIOUS
        <4>2. Listed(b)'
          BY <1>2, <1>5, <2>1, <4>1
        <4>3. QED
          BY <4>1, <4>2
      <3>3. QED
        BY <1>2, <1>5, <2>1, <3>1, <3>2
    <2>2. CASE k # offset + 1
      <3>1. k \in 1 .. offset /\ u[k] = w[k] /\ w[k] \in Block
        BY <1>0, <1>1, <1>5, <2>2
      <3>2. /\ w[k] >= k /\ Listed(w[k])
            /\ disk[w[k]].run = run /\ disk[w[k]].chunk = k
            /\ disk[w[k]].next = IF k = offset THEN block ELSE w[k + 1]
        BY <1>0, <1>1, <3>1 DEF Written
      <3>3. PICK b : b = w[k]
        OBVIOUS
      <3>4. Listed(b)' /\ b # block /\ disk'[b] = disk[b]
        BY <1>2, <3>1, <3>2, <3>3
      <3>5. Listed(u[k])'
        BY <3>1, <3>3, <3>4
      <3>6. u[k + 1] = IF k = offset THEN block ELSE w[k + 1]
        BY <1>0, <1>5, <3>1
      <3>7. k # size
        BY <1>0, <3>1
      <3>8. QED
        BY <2>2, <3>1, <3>2, <3>3, <3>4, <3>5, <3>6, <3>7
    <2>3. QED
      BY <2>1, <2>2
  <1>8. Written(u)'
    <2>1. list' = IF offset' = 0 THEN block' ELSE u[1]
      BY <1>0, <1>6
    <2>2. QED
      BY <1>0, <1>7, <2>1 DEF Written
  <1>9. block' > offset'
    BY <1>0, <1>2, SizeAssumption DEF Block
  <1>10. QED
    BY <1>0, <1>4, <1>8, <1>9 DEF Progress

LEMMA ProgressStep == IInv /\ [Next]_vars => Progress'
  <1> SUFFICES ASSUME IInv, [Next]_vars PROVE Progress'
    OBVIOUS
  <1>0. Inv /\ TypeOK /\ Progress /\ FoundFirst /\ size \in Nat
    BY Numbers DEF IInv, Inv
  <1>1. CASE InstallFirst
    <2>1. /\ pc' = "install" /\ offset = 0 /\ offset' = 0 /\ list' = block'
          /\ result' = result /\ result # "ok"
      BY <1>0, <1>1 DEF InstallFirst, Progress
    <2>2. block' > 0
      <3>1. block' \in Block /\ block' > free_block_pointer /\ free_block_pointer \in Block
        BY <1>0, <1>1 DEF InstallFirst, NextFree, Examined, TypeOK
      <3>2. QED
        BY <3>1, SizeAssumption DEF Block
    <2>3. \E w \in [1 .. offset' -> Block] : Written(w)'
      <3> DEFINE v == [k \in 1 .. 0 |-> 0]
      <3>1. PICK w : w = v
        OBVIOUS
      <3>2. w \in [1 .. offset' -> Block]
        BY <2>1, <3>1
      <3>3. Written(w)'
        BY <2>1 DEF Written
      <3>4. QED
        BY <3>2, <3>3
    <2>4. QED
      BY <2>1, <2>2, <2>3 DEF Progress
  <1>2. CASE InstallChunk
    BY <1>2, ChunkProgress
  <1>3. CASE InstallEnds
    <2>1. /\ pc = "install" /\ pc' = "write_rdb" /\ result' = "ok" /\ offset = size
          /\ UNCHANGED <<disk, run, size, list, block, offset>>
      BY <1>3 DEF InstallEnds, memory
    <2>2. PICK w \in [1 .. offset -> Block] : Written(w)
      BY <1>0, <2>1 DEF Progress
    <2>3. Written(w)'
      BY <2>1, <2>2 DEF Written, Listed
    <2>4. offset = 0 => ~Listed(list)
      BY <1>0, <2>1, <2>2 DEF Written, Inv, TargetFree, IsFree, Listed
    <2>5. QED
      BY <2>1, <2>2, <2>3, <2>4 DEF Progress, Listed
  <1>4. CASE WriteRdb
    <2>1. /\ pc = "write_rdb" /\ pc' = "done"
          /\ UNCHANGED <<run, size, list, block, offset, result, rdb_block>>
      BY <1>4 DEF WriteRdb, memory
    <2>2. CASE result = "ok"
      <3>1. PICK w \in [1 .. offset -> Block] : Written(w)
        BY <1>0, <2>2 DEF Progress
      <3>2. /\ disk'[rdb_block].next = list
            /\ \A b \in Block \cup {NoBlock} :
                 (Listed(b)' <=> Listed(b)) /\ (Listed(b) => disk'[b] = disk[b])
        BY <1>0, <1>4, RdbWrites
      <3>3. ASSUME NEW k \in 1 .. offset
            PROVE  /\ w[k] >= k /\ Listed(w[k])'
                   /\ disk'[w[k]].run = run /\ disk'[w[k]].chunk = k
                   /\ disk'[w[k]].next = IF k = size THEN NoBlock
                                         ELSE IF k = offset THEN block ELSE w[k + 1]
        <4>1. PICK b : b = w[k]
          OBVIOUS
        <4>2. /\ b \in Block /\ Listed(b) /\ b >= k /\ disk[b].run = run /\ disk[b].chunk = k
              /\ disk[b].next = IF k = size THEN NoBlock
                                ELSE IF k = offset THEN block ELSE w[k + 1]
          BY <3>1, <4>1 DEF Written
        <4>3. Listed(b)' /\ disk'[b] = disk[b]
          BY <3>2, <4>2
        <4>4. QED
          BY <4>1, <4>2, <4>3
      <3>4. Written(w)'
        BY <2>1, <3>1, <3>3 DEF Written
      <3>5. offset = 0 => ~Listed(list)'
        <4>1. PICK b : b = list
          OBVIOUS
        <4>2. b \in Block \cup {NoBlock} /\ (offset = 0 => ~Listed(b))
          BY <1>0, <2>2, <4>1 DEF Progress, TypeOK
        <4>3. offset = 0 => ~Listed(b)'
          BY <3>2, <4>2
        <4>4. QED
          BY <2>1, <4>1, <4>3 DEF Listed
      <3>6. QED
        BY <1>0, <2>1, <2>2, <3>1, <3>2, <3>4, <3>5 DEF Progress
    <2>3. CASE result # "ok"
      BY <2>1, <2>3 DEF Progress
    <2>4. QED
      BY <2>2, <2>3
  <1>5. CASE EraseEnds
    BY <1>0, <1>5 DEF EraseEnds, Progress
  <1>6. CASE FindRdb \/ NoRdb \/ NoFile \/ OpenFile \/ Erase \/ InstallFails \/ Rerun \/ Crash
    BY <1>0, <1>6 DEF FindRdb, NoRdb, NoFile, OpenFile, Erase, InstallFails, Rerun,
       Crash, Start, memory, Progress
  <1>7. CASE UNCHANGED vars
    BY <1>0, <1>7 DEF vars, Progress, Written, Listed
  <1>8. QED
    BY <1>1, <1>2, <1>3, <1>4, <1>5, <1>6, <1>7 DEF Next, Program

\* The invariant is inductive.
LEMMA Inductive == Spec => []IInv
  <1>1. IInv /\ [Next]_vars => IInv'
    <2>1. Inv /\ [Next]_vars => Inv'
      BY TypeStep, RdbStep, TargetStep DEF Inv
    <2>2. QED
      BY <2>1, FoundStep, LabelsStep, SingleStep, HeadStep, ProgressStep DEF IInv
  <1>2. QED
    BY InitIInv, <1>1, PTL DEF Spec

-----------------------------------------------------------------------------
(* What the firmware reads.                                                *)

\* A set of natural numbers with 0 and every successor has them all.
LEMMA Counting ==
  ASSUME NEW S, 0 \in S, \A n \in Nat : n \in S => n + 1 \in S
  PROVE  Nat \subseteq S
  <1> DEFINE R == OpToRel(<, Nat)
             T == Nat \ S
  <1>1. IsWellFoundedOn(R, Nat)
    BY NatLessThanWellFounded
  <1>2. \A x, y \in Nat : x < y => <<x, y>> \in R
    BY DEF OpToRel
  <1>3. SUFFICES ASSUME T # {} PROVE FALSE
    BY DEF T
  <1>4. T \subseteq Nat
    BY DEF T
  <1> HIDE DEF R, T
  <1>5. PICK x \in T : \A y \in T : ~(<<y, x>> \in R)
    BY <1>1, <1>3, <1>4, WFMin
  <1>6. x \in Nat /\ x # 0 /\ x \notin S
    BY DEF T
  <1>7. x - 1 \in Nat /\ x - 1 < x /\ x - 1 + 1 = x
    BY <1>6
  <1>8. x - 1 \notin T
    BY <1>2, <1>5, <1>6, <1>7
  <1>9. x - 1 \in S
    BY <1>7, <1>8 DEF T
  <1>10. QED
    BY <1>6, <1>7, <1>9

\* The firmware finds the RigidDiskBlock where the installer does.
LEMMA RdbIsFirst == HasRdb /\ TypeOK => FirstRdb(Rdb)
  <1> SUFFICES ASSUME HasRdb, TypeOK PROVE FirstRdb(Rdb)
    OBVIOUS
  <1>1. PICK b \in 0 .. (Limit - 1) : IsRdb(b)
    BY DEF HasRdb
  <1> DEFINE S == {c \in 0 .. (Limit - 1) : IsRdb(c)}
             R == OpToRel(<, Nat)
  <1>2. S \subseteq Nat /\ S # {}
    BY <1>1, SizeAssumption
  <1>3. IsWellFoundedOn(R, Nat)
    BY NatLessThanWellFounded
  <1>4. \A x, y \in Nat : x < y => <<x, y>> \in R
    BY DEF OpToRel
  <1> HIDE DEF R
  <1>5. PICK x \in S : \A y \in S : ~(<<y, x>> \in R)
    BY <1>2, <1>3, WFMin
  <1>6. \A c \in 0 .. (x - 1) : ~IsRdb(c)
    <2> SUFFICES ASSUME NEW c \in 0 .. (x - 1), IsRdb(c) PROVE FALSE
      OBVIOUS
    <2>1. x \in 0 .. (Limit - 1) /\ c \in Nat /\ x \in Nat /\ c < x /\ c \in 0 .. (Limit - 1)
      BY <1>5, SizeAssumption
    <2>2. QED
      BY <1>4, <1>5, <2>1
  <1>7. \E r \in 0 .. (Limit - 1) : IsRdb(r) /\ \A c \in 0 .. (r - 1) : ~IsRdb(c)
    BY <1>5, <1>6
  <1>8. QED
    BY <1>7 DEF Rdb, FirstRdb

\* One turn along the list.
Along(t) ==
  [k \in 1 .. Blocks |->
     LET b == IF k = 1 THEN disk[Rdb].next
              ELSE IF t[k - 1] = NoBlock THEN NoBlock
              ELSE disk[t[k - 1]].next
     IN  IF Listed(b) THEN b ELSE NoBlock]

\* The list is what one turn does not change: there is such a list, as long
\* as the disk, found block by block.
LEMMA ChainIsAlong == HasRdb /\ TypeOK => Chain = Along(Chain)
  <1> SUFFICES ASSUME HasRdb, TypeOK PROVE Chain = Along(Chain)
    OBVIOUS
  <1>1. Chain = CHOOSE c : c = Along(c)
    BY DEF Chain, Along
  <1> DEFINE Found(t, n) ==
               /\ DOMAIN t = 1 .. Blocks
               /\ t = [k \in 1 .. Blocks |-> t[k]]
               /\ \A k \in 1 .. Blocks : k <= n => t[k] = Along(t)[k]
             S == {n \in Nat : \E t : Found(t, n)}
  <1>2. 0 \in S
    <2> DEFINE v == [k \in 1 .. Blocks |-> NoBlock]
    <2>1. PICK t : t = v
      OBVIOUS
    <2>2. Found(t, 0)
      BY <2>1
    <2>3. QED
      BY <2>2
  <1>3. \A n \in Nat : n \in S => n + 1 \in S
    <2> SUFFICES ASSUME NEW n \in Nat, n \in S PROVE n + 1 \in S
      OBVIOUS
    <2>1. PICK t : Found(t, n)
      OBVIOUS
    <2> DEFINE v == [k \in 1 .. Blocks |-> IF k = n + 1 THEN Along(t)[k] ELSE t[k]]
    <2>2. PICK u : u = v
      OBVIOUS
    <2>3. DOMAIN u = 1 .. Blocks /\ u = [k \in 1 .. Blocks |-> u[k]]
      BY <2>2
    <2>4. \A k \in 1 .. Blocks : u[k] = IF k = n + 1 THEN Along(t)[k] ELSE t[k]
      BY <2>2
    <2> HIDE DEF v
    <2>5. ASSUME NEW k \in 1 .. Blocks, k <= n + 1
          PROVE  u[k] = Along(u)[k]
      <3>1. u[k] = Along(t)[k]
        BY <2>1, <2>4, <2>5
      <3>2. k # 1 => u[k - 1] = t[k - 1]
        <4>1. k # 1 => k - 1 \in 1 .. Blocks /\ k - 1 # n + 1
          BY <2>5, SizeAssumption
        <4>2. QED
          BY <2>4, <4>1
      <3>3. Along(u)[k] = Along(t)[k]
        BY <3>2 DEF Along
      <3>4. QED
        BY <3>1, <3>3
    <2>6. Found(u, n + 1)
      BY <2>3, <2>5
    <2> HIDE DEF Found
    <2>7. QED
      BY <2>6
  <1>4. Blocks \in S
    <2> HIDE DEF S
    <2>1. QED
      BY <1>2, <1>3, Counting, SizeAssumption
  <1>5. PICK t : Found(t, Blocks)
    BY <1>4
  <1>6. t = Along(t)
    <2>1. \A k \in 1 .. Blocks : t[k] = Along(t)[k]
      BY <1>5, SizeAssumption
    <2>2. Along(t) = [k \in 1 .. Blocks |-> Along(t)[k]]
      BY DEF Along
    <2>3. t = [k \in 1 .. Blocks |-> t[k]]
      BY <1>5
    <2>4. QED
      BY <2>1, <2>2, <2>3
  <1>7. QED
    BY <1>1, <1>6

\* What the list is, block by block.
LEMMA ChainTurn ==
  ASSUME HasRdb, TypeOK
  PROVE  /\ DOMAIN Chain = 1 .. Blocks
         /\ \A k \in 1 .. Blocks :
              Chain[k] = LET b == IF k = 1 THEN disk[Rdb].next
                                  ELSE IF Chain[k - 1] = NoBlock THEN NoBlock
                                  ELSE disk[Chain[k - 1]].next
                         IN  IF Listed(b) THEN b ELSE NoBlock
  <1>1. Chain = Along(Chain)
    BY ChainIsAlong
  <1>2. PICK c : c = Chain
    OBVIOUS
  <1>3. c = Along(c)
    BY <1>1, <1>2
  <1>4. /\ DOMAIN Along(c) = 1 .. Blocks
        /\ \A k \in 1 .. Blocks :
             Along(c)[k] = LET b == IF k = 1 THEN disk[Rdb].next
                                    ELSE IF c[k - 1] = NoBlock THEN NoBlock
                                    ELSE disk[c[k - 1]].next
                           IN  IF Listed(b) THEN b ELSE NoBlock
    BY DEF Along
  <1>5. /\ DOMAIN c = 1 .. Blocks
        /\ \A k \in 1 .. Blocks :
             c[k] = LET b == IF k = 1 THEN disk[Rdb].next
                             ELSE IF c[k - 1] = NoBlock THEN NoBlock
                             ELSE disk[c[k - 1]].next
                    IN  IF Listed(b) THEN b ELSE NoBlock
    BY <1>3, <1>4
  <1>6. QED
    BY <1>2, <1>5

\* The list is all of run q when every list the disk holds is.
LEMMA ChainOfOneRun ==
  ASSUME HasRdb, TypeOK, NEW q, OneRun(q)
  PROVE  \A k \in 1 .. Blocks : Chain[k] # NoBlock =>
           Chain[k] \in Block /\ Listed(Chain[k]) /\ disk[Chain[k]].run = q
  <1> DEFINE Good(b) == b \in Block /\ Listed(b) /\ disk[b].run = q
             S == {n \in Nat : n \in 1 .. Blocks /\ Chain[n] # NoBlock => Good(Chain[n])}
  <1>1. 0 \in S
    OBVIOUS
  <1>2. \A n \in Nat : n \in S => n + 1 \in S
    <2> SUFFICES ASSUME NEW n \in Nat, n \in S, n + 1 \in 1 .. Blocks,
                        Chain[n + 1] # NoBlock
                 PROVE  Good(Chain[n + 1])
      OBVIOUS
    <2>1. CASE n = 0
      <3>1. /\ Chain[n + 1] = disk[Rdb].next /\ Listed(Chain[n + 1])
        BY <2>1, ChainTurn
      <3>2. FirstRdb(Rdb) /\ Rdb \in Block
        BY RdbIsFirst, LocationsAreBlocks DEF FirstRdb
      <3>3. Chain[n + 1] \in Block
        BY <3>1, <3>2, NextType, ListedType
      <3>4. disk[Chain[n + 1]].run = q
        BY <3>1, <3>2 DEF OneRun
      <3>5. QED
        BY <3>1, <3>3, <3>4
    <2>2. CASE n # 0
      <3>1. n \in 1 .. Blocks /\ n + 1 # 1 /\ n + 1 - 1 = n
        BY <2>2, SizeAssumption
      <3>2. /\ Chain[n] # NoBlock
            /\ Chain[n + 1] = disk[Chain[n]].next /\ Listed(Chain[n + 1])
        <4> DEFINE b == IF Chain[n] = NoBlock THEN NoBlock ELSE disk[Chain[n]].next
        <4>1. Chain[n + 1] = IF Listed(b) THEN b ELSE NoBlock
          BY <3>1, ChainTurn
        <4> HIDE DEF b
        <4>2. Chain[n + 1] = b /\ Listed(b)
          BY <4>1
        <4>3. b # NoBlock
          BY <4>2 DEF Listed
        <4>4. QED
          BY <4>2, <4>3 DEF b
      <3>3. Chain[n] \in Block /\ Listed(Chain[n]) /\ disk[Chain[n]].run = q
        BY <3>1, <3>2
      <3>4. Chain[n + 1] \in Block
        BY <3>2, <3>3, NextType, ListedType
      <3>5. disk[Chain[n + 1]].run = q
        BY <3>2, <3>3 DEF OneRun
      <3>6. QED
        BY <3>2, <3>4, <3>5
    <2>3. QED
      BY <2>1, <2>2
  <1>3. Nat \subseteq S
    <2> HIDE DEF S
    <2>1. QED
      BY <1>1, <1>2, Counting
  <1>4. QED
    BY <1>3, SizeAssumption

\* Wherever a run is killed and however often, on every disk and for every
\* size: what the firmware reads is all of one run, the old one or a new one.
THEOREM OneBootloader == Spec => []NeverMixed
  <1>1. ASSUME IInv PROVE NeverMixed
    <2> SUFFICES ASSUME HasRdb, NEW j \in Read, NEW k \in Read
                 PROVE  disk[Chain[j]].run = disk[Chain[k]].run
      BY DEF NeverMixed
    <2>1. TypeOK
      BY <1>1 DEF IInv, Inv
    <2>2. PICK q \in Nat : OneRun(q)
      BY <1>1 DEF IInv, Single
    <2>3. \A n \in Read : n \in 1 .. Blocks /\ Chain[n] # NoBlock
      BY <2>1, ChainTurn DEF Read
    <2>4. QED
      BY <2>1, <2>2, <2>3, ChainOfOneRun
  <1>2. QED
    BY <1>1, Inductive, PTL

\* After a run that did not complain the list is the blocks it wrote, and
\* nothing behind them.
LEMMA ChainIsWritten ==
  ASSUME IInv, pc = "done", result = "ok",
         NEW w \in [1 .. offset -> Block], Written(w)
  PROVE  /\ HasRdb /\ size \in Nat /\ size <= Blocks /\ offset = size
         /\ \A k \in 1 .. Blocks : Chain[k] = IF k <= size THEN w[k] ELSE NoBlock
  <1>0. /\ TypeOK /\ size \in Nat /\ offset = size /\ FirstRdb(rdb_block)
        /\ disk[rdb_block].next = list /\ (offset = 0 => ~Listed(list))
    BY Numbers DEF IInv, Inv, Progress, FoundFirst
  <1>1. HasRdb /\ Rdb = rdb_block
    <2>1. HasRdb
      BY <1>0 DEF HasRdb, FirstRdb
    <2>2. QED
      BY <1>0, <2>1, RdbIsFirst, OneFirst
  <1>2. \A k \in 1 .. size :
          /\ w[k] \in Block /\ Listed(w[k])
          /\ disk[w[k]].next = IF k = size THEN NoBlock ELSE w[k + 1]
    BY <1>0 DEF Written
  <1>3. size <= Blocks
    <2>1. CASE size = 0
      BY <2>1, SizeAssumption
    <2>2. CASE size # 0
      <3>1. w[size] \in 0 .. (Blocks - 1) /\ w[size] >= size
        BY <1>0, <2>2 DEF Written, Block
      <3>2. QED
        BY <1>0, <3>1, SizeAssumption
    <2>3. QED
      BY <2>1, <2>2
  <1> DEFINE Is(k) == Chain[k] = IF k <= size THEN w[k] ELSE NoBlock
             S == {n \in Nat : n \in 1 .. Blocks => Is(n)}
  <1>4. 0 \in S
    OBVIOUS
  <1>5. \A n \in Nat : n \in S => n + 1 \in S
    <2> SUFFICES ASSUME NEW n \in Nat, n \in S, n + 1 \in 1 .. Blocks
                 PROVE  Is(n + 1)
      OBVIOUS
    <2>1. NoBlock \notin Block /\ ~Listed(NoBlock)
      BY SizeAssumption DEF NoBlock, Block, Listed
    <2>2. CASE n = 0
      <3>1. Chain[n + 1] = IF Listed(list) THEN list ELSE NoBlock
        <4>1. n + 1 = 1 /\ 1 \in 1 .. Blocks /\ disk[Rdb].next = list
          BY <1>0, <1>1, <2>2, SizeAssumption
        <4>2. Chain[1] = IF Listed(disk[Rdb].next) THEN disk[Rdb].next ELSE NoBlock
          BY <1>0, <1>1, <4>1, ChainTurn
        <4>3. QED
          BY <4>1, <4>2
      <3>2. CASE size = 0
        BY <1>0, <2>2, <3>1, <3>2
      <3>3. CASE size # 0
        <4>1. list = w[1] /\ Listed(w[1])
          BY <1>0, <1>2, <3>3 DEF Written
        <4>2. QED
          BY <1>0, <2>2, <3>1, <3>3, <4>1
      <3>4. QED
        BY <3>2, <3>3
    <2>3. CASE n # 0
      <3>1. n \in 1 .. Blocks /\ n + 1 # 1 /\ n + 1 - 1 = n
        BY <2>3, SizeAssumption
      <3>2. Chain[n] = IF n <= size THEN w[n] ELSE NoBlock
        BY <3>1
      <3> DEFINE b == IF Chain[n] = NoBlock THEN NoBlock ELSE disk[Chain[n]].next
      <3>3. Chain[n + 1] = IF Listed(b) THEN b ELSE NoBlock
        BY <1>0, <1>1, <3>1, ChainTurn
      <3>4. b = IF n < size THEN w[n + 1] ELSE NoBlock
        <4>1. CASE n > size
          BY <1>0, <3>2, <4>1
        <4>2. CASE n <= size
          <5>1. n \in 1 .. size
            BY <1>0, <3>1, <4>2
          <5>2. Chain[n] = w[n] /\ w[n] # NoBlock
            BY <1>2, <2>1, <3>2, <4>2, <5>1
          <5>3. b = IF n = size THEN NoBlock ELSE w[n + 1]
            BY <1>2, <5>1, <5>2
          <5>4. QED
            BY <1>0, <4>2, <5>3
        <4>3. QED
          BY <1>0, <4>1, <4>2
      <3> HIDE DEF b
      <3>5. CASE n < size
        <4>1. n + 1 \in 1 .. size
          BY <1>0, <3>5
        <4>2. b = w[n + 1] /\ Listed(w[n + 1])
          BY <1>2, <3>4, <3>5, <4>1
        <4>3. QED
          BY <1>0, <3>3, <3>5, <4>2
      <3>6. CASE ~(n < size)
        <4>1. b = NoBlock /\ ~(n + 1 <= size)
          BY <1>0, <3>4, <3>6
        <4>2. QED
          BY <3>3, <4>1
      <3>7. QED
        BY <3>5, <3>6
    <2>4. QED
      BY <2>2, <2>3
  <1>6. Nat \subseteq S
    <2> HIDE DEF S
    <2>1. QED
      BY <1>4, <1>5, Counting
  <1>7. \A k \in 1 .. Blocks : Is(k)
    BY <1>6, SizeAssumption
  <1>8. QED
    BY <1>0, <1>1, <1>3, <1>7

\* After a run that did not complain the firmware reads the bootloader it
\* installed: every chunk once, in order, and nothing behind the last.
THEOREM WholeBootloader == Spec => []Installed
  <1>1. ASSUME IInv PROVE Installed
    <2> SUFFICES ASSUME pc = "done", result = "ok"
                 PROVE  /\ Read = 1 .. size
                        /\ \A k \in 1 .. size :
                             disk[Chain[k]].run = run /\ disk[Chain[k]].chunk = k
                        /\ size > 0 => disk[Chain[size]].next = NoBlock
      BY DEF Installed
    <2>1. PICK w \in [1 .. offset -> Block] : Written(w)
      BY <1>1 DEF IInv, Progress
    <2>2. /\ HasRdb /\ size \in Nat /\ size <= Blocks /\ offset = size
          /\ \A k \in 1 .. Blocks : Chain[k] = IF k <= size THEN w[k] ELSE NoBlock
      BY <1>1, <2>1, ChainIsWritten
    <2>3. DOMAIN Chain = 1 .. Blocks
      BY <1>1, <2>2, ChainTurn DEF IInv, Inv
    <2>4. \A k \in 1 .. size : k \in 1 .. Blocks /\ Chain[k] = w[k]
      BY <2>2, SizeAssumption
    <2>5. \A k \in 1 .. size : w[k] \in Block /\ w[k] # NoBlock
      BY <2>1, <2>2, SizeAssumption DEF NoBlock, Block
    <2>6. Read = 1 .. size
      <3>1. ASSUME NEW k \in 1 .. Blocks
            PROVE  Chain[k] # NoBlock <=> k \in 1 .. size
        BY <2>2, <2>4, <2>5
      <3>2. 1 .. size \subseteq 1 .. Blocks
        BY <2>4
      <3>3. QED
        BY <2>3, <3>1, <3>2 DEF Read
    <2>7. \A k \in 1 .. size :
            disk[Chain[k]].run = run /\ disk[Chain[k]].chunk = k
      BY <2>1, <2>2, <2>4 DEF Written
    <2>8. size > 0 => disk[Chain[size]].next = NoBlock
      BY <2>1, <2>2, <2>4 DEF Written
    <2>9. QED
      BY <2>6, <2>7, <2>8
  <1>2. QED
    BY <1>1, Inductive, PTL

-----------------------------------------------------------------------------
(* The promise BootArea, step by step.                                     *)

\* What is printed when the RigidDiskBlock has been written, and that it goes
\* on pointing to nothing readable as long as no chunk has been written.
Answering ==
  /\ pc = "write_rdb" => result \in {"ok", "no space"}
  /\ pc \in {"install", "write_rdb"} /\ ~Listed(list) =>
       ~Listed(disk[rdb_block].next)

\* The chunks written are in the list that begins in memory.
LEMMA ListBegins ==
  ASSUME IInv, InstallChunk
  PROVE  Listed(list)'
  <1>1. TypeOK /\ Inv /\ Progress /\ offset \in Nat /\ list' = list
    BY Numbers DEF IInv, Inv, InstallChunk
  <1>2. PICK w \in [1 .. offset -> Block] : Written(w)
    BY <1>1 DEF Progress, InstallChunk
  <1>3. list \in Block \cup {NoBlock} /\ (list = block \/ Listed(list))
    <2>1. CASE offset = 0
      BY <1>1, <1>2, <2>1 DEF Written, TypeOK
    <2>2. CASE offset # 0
      <3>1. 1 \in 1 .. offset
        BY <1>1, <2>2
      <3>2. list = w[1] /\ Listed(w[1])
        BY <1>2, <2>2, <3>1 DEF Written
      <3>3. list \in Block \cup {NoBlock}
        BY <1>1 DEF TypeOK
      <3>4. QED
        BY <3>2, <3>3
    <2>3. QED
      BY <2>1, <2>2
  <1>4. PICK n : n = list
    OBVIOUS
  <1>5. Listed(n)'
    BY <1>1, <1>3, <1>4, ChunkWrites
  <1>6. QED
    BY <1>1, <1>4, <1>5 DEF Listed

LEMMA AnsweringStep == IInv /\ Answering /\ [Next]_vars => Answering'
  <1> SUFFICES ASSUME IInv, Answering, [Next]_vars PROVE Answering'
    OBVIOUS
  <1>1. CASE InstallChunk
    BY <1>1, ListBegins DEF InstallChunk, Answering
  <1>2. CASE InstallFirst
    <2>1. /\ disk' = disk /\ rdb_block' = rdb_block /\ pc = "first" /\ pc' = "install"
          /\ list = disk[rdb_block].next /\ ~Listed(list)
      BY <1>2 DEF InstallFirst, IInv, HeadErased
    <2>2. QED
      BY <2>1 DEF Answering, Listed
  <1>3. CASE InstallFails
    <2>1. /\ disk' = disk /\ rdb_block' = rdb_block /\ list' = list
          /\ pc' = "write_rdb" /\ result' = "no space"
      BY <1>3 DEF InstallFails, memory
    <2>2. ~Listed(list) => ~Listed(disk[rdb_block].next)
      BY <1>3 DEF InstallFails, Answering, IInv, HeadErased
    <2>3. QED
      BY <2>1, <2>2 DEF Answering, Listed
  <1>4. CASE InstallEnds \/ UNCHANGED vars
    BY <1>4 DEF InstallEnds, memory, vars, Answering, Listed
  <1>5. CASE \/ FindRdb \/ NoRdb \/ OpenFile \/ NoFile \/ Erase \/ EraseEnds
             \/ WriteRdb \/ Rerun \/ Crash
    BY <1>5 DEF FindRdb, NoRdb, OpenFile, NoFile, Erase, EraseEnds, WriteRdb,
       Rerun, Crash, Start, Answering
  <1>6. QED
    BY <1>1, <1>2, <1>3, <1>4, <1>5 DEF Next, Program

\* The start that wrote block h, if h is readable.
WriterOf(h) == IF Listed(h) THEN {disk[h].run} ELSE {}

\* Where the firmware finds its list.
Found ==
  /\ \A r : FirstRdb(r) => Writers = WriterOf(disk[r].next)
  /\ (\A r : ~FirstRdb(r)) => Writers = {}

LEMMA FoundAlways == TypeOK => Found
  <1> SUFFICES ASSUME TypeOK PROVE Found
    OBVIOUS
  <1>1. ASSUME NEW r, FirstRdb(r) PROVE Writers = WriterOf(disk[r].next)
    <2>1. HasRdb
      BY <1>1 DEF HasRdb, FirstRdb
    <2>2. Rdb = r
      BY <1>1, <2>1, RdbIsFirst, OneFirst
    <2>3. QED
      BY <2>1, <2>2 DEF Writers, WriterOf
  <1>2. ASSUME \A r : ~FirstRdb(r) PROVE Writers = {}
    BY <1>2, RdbIsFirst DEF Writers
  <1>3. QED
    BY <1>1, <1>2 DEF Found

\* A step of the installer, seen from the boot area: what is readable before
\* and after it, given by the block the RigidDiskBlock points to.
LEMMA SameReaders ==
  ASSUME IInv, Found, Found', [Next]_vars, disk' = disk
  PROVE  Writers' = Writers
  <1>1. \A r : FirstRdb(r)' <=> FirstRdb(r)
    BY SameRdbs DEF IInv
  <1>2. \A h : WriterOf(h)' = WriterOf(h)
    BY DEF WriterOf, Listed
  <1>3. CASE \A r : ~FirstRdb(r)
    BY <1>1, <1>3 DEF Found
  <1>4. ASSUME NEW r, FirstRdb(r) PROVE Writers' = Writers
    <2>1. FirstRdb(r)'
      BY <1>1, <1>4
    <2>2. Writers = WriterOf(disk[r].next)
      BY <1>4 DEF Found
    <2>3. Writers' = WriterOf(disk[r].next)'
      BY <2>1 DEF Found
    <2>4. QED
      BY <2>2, <2>3 DEF WriterOf, Listed
  <1>5. QED
    BY <1>3, <1>4

\* With a RigidDiskBlock found: its list before and after the step.
LEMMA FoundReaders ==
  ASSUME IInv, Found, Found', [Next]_vars,
         pc \in {"open", "erase", "first", "install", "write_rdb"}
  PROVE  /\ FirstRdb(rdb_block) /\ rdb_block \in Block
         /\ disk[rdb_block].next \in Block \cup {NoBlock}
         /\ Writers = WriterOf(disk[rdb_block].next)
         /\ rdb_block' = rdb_block => Writers' = WriterOf(disk[rdb_block].next)'
  <1>1. FirstRdb(rdb_block) /\ TypeOK
    BY DEF IInv, Inv, FoundFirst
  <1>2. rdb_block \in Block
    BY <1>1, LocationsAreBlocks DEF FirstRdb
  <1>3. Writers = WriterOf(disk[rdb_block].next)
    BY <1>1 DEF Found
  <1>4. ASSUME rdb_block' = rdb_block PROVE Writers' = WriterOf(disk[rdb_block].next)'
    <2>1. PICK r : r = rdb_block
      OBVIOUS
    <2>2. FirstRdb(r)'
      BY <1>1, <2>1, SameRdbs DEF IInv
    <2>3. Writers' = WriterOf(disk[r].next)'
      BY <2>2 DEF Found
    <2>4. QED
      BY <1>4, <2>1, <2>3 DEF WriterOf, Listed
  <1>5. QED
    BY <1>1, <1>2, <1>3, <1>4, NextType

LEMMA AreaErase ==
  ASSUME IInv, Found, Found', Erase
  PROVE  Area!OldGone \/ UNCHANGED Area!vars
  <1>1. Inv /\ TypeOK /\ RdbKept /\ [Next]_vars /\ pc = "erase" /\ pc' = "erase"
    BY DEF IInv, Inv, Next, Program, Erase
  <1>2. /\ rdb_block' = rdb_block /\ run' = run /\ size' = size /\ run \in Nat
    BY <1>1, Numbers DEF Erase
  <1>3. PICK h : h = disk[rdb_block].next
    OBVIOUS
  <1>4. /\ rdb_block \in Block /\ h \in Block \cup {NoBlock}
        /\ Writers = WriterOf(h) /\ Writers' = WriterOf(disk[rdb_block].next)'
    BY <1>1, <1>2, <1>3, FoundReaders
  <1>5. disk'[rdb_block].next = h
    BY <1>1, <1>3, <1>4, EraseKeeps
  <1>6. Writers' = WriterOf(h)'
    BY <1>2, <1>4, <1>5 DEF WriterOf, Listed
  <1>7. Listed(h)' <=> h # block /\ Listed(h)
    BY <1>1, <1>4, EraseWrites
  <1>8. CASE Listed(h)'
    <2>1. h \in Block /\ h # block
      BY <1>4, <1>7, <1>8, ListedType
    <2>2. disk'[h] = disk[h]
      BY <1>1, <2>1, EraseWrites
    <2>3. Writers' = Writers
      BY <1>4, <1>6, <1>7, <1>8, <2>2 DEF WriterOf
    <2>4. QED
      BY <1>1, <1>2, <2>3 DEF Area!vars
  <1>9. CASE ~Listed(h)'
    <2>1. Writers' = {}
      BY <1>6, <1>9 DEF WriterOf
    <2>2. run \notin Writers
      <3>1. Listed(h) => h \in Block
        BY <1>4, ListedType
      <3>2. Listed(h) => disk[h].run < run /\ disk[h].run \in Nat
        BY <1>1, <3>1, NextType DEF IInv, Labels
      <3>3. QED
        BY <1>2, <1>4, <3>2 DEF WriterOf
    <2>3. QED
      BY <1>1, <1>2, <2>1, <2>2 DEF Area!OldGone
  <1>10. QED
    BY <1>8, <1>9

LEMMA AreaChunk ==
  ASSUME IInv, Found, Found', InstallChunk
  PROVE  Area!NewSeen \/ UNCHANGED Area!vars
  <1>1. Inv /\ TypeOK /\ RdbKept /\ [Next]_vars /\ pc = "install" /\ pc' = "install"
    BY DEF IInv, Inv, Next, Program, InstallChunk
  <1>2. /\ rdb_block' = rdb_block /\ run' = run /\ size' = size /\ size > 0
        /\ run \in Nat /\ result' = result
    BY <1>1, Numbers DEF InstallChunk, More
  <1>3. PICK h : h = disk[rdb_block].next
    OBVIOUS
  <1>4. /\ rdb_block \in Block /\ h \in Block \cup {NoBlock}
        /\ Writers = WriterOf(h) /\ Writers' = WriterOf(disk[rdb_block].next)'
    BY <1>1, <1>2, <1>3, FoundReaders
  <1>5. disk'[rdb_block].next = h
    <2>1. block # rdb_block
      BY <1>1, ChunkWrites DEF RdbKept, IsFree
    <2>2. QED
      BY <1>1, <1>3, <1>4, <2>1, ChunkWrites
  <1>6. Writers' = WriterOf(h)'
    BY <1>2, <1>4, <1>5 DEF WriterOf, Listed
  <1>7. Listed(h)' <=> h = block \/ Listed(h)
    BY <1>1, <1>4, ChunkWrites
  <1>8. CASE Listed(h)
    <2>1. h \in Block /\ h # block
      BY <1>1, <1>4, <1>8, ListedType, ChunkWrites
    <2>2. disk'[h] = disk[h]
      BY <1>1, <2>1, ChunkWrites
    <2>3. Writers' = Writers
      BY <1>4, <1>6, <1>7, <1>8, <2>2 DEF WriterOf
    <2>4. QED
      BY <1>1, <1>2, <2>3 DEF Area!vars
  <1>9. CASE ~Listed(h) /\ h = block
    <2>1. disk'[h].run = run
      BY <1>1, <1>9, ChunkWrites DEF BootBlock
    <2>2. Writers = {} /\ Writers' = {run}
      BY <1>4, <1>6, <1>7, <1>9, <2>1 DEF WriterOf
    <2>3. QED
      BY <1>1, <1>2, <2>2 DEF Area!NewSeen
  <1>10. CASE ~Listed(h) /\ h # block
    <2>1. Writers = {} /\ Writers' = {}
      BY <1>4, <1>6, <1>7, <1>10 DEF WriterOf
    <2>2. QED
      BY <1>1, <1>2, <2>1 DEF Area!vars
  <1>11. QED
    BY <1>8, <1>9, <1>10

\* The RigidDiskBlock is written: the list in memory is the one on the disk.
LEMMA AreaWrite ==
  ASSUME IInv, Answering, Found, Found', WriteRdb
  PROVE  Area!GiveUp \/ Area!Succeed
  <1>1. /\ Inv /\ TypeOK /\ FoundFirst /\ [Next]_vars
        /\ pc = "write_rdb" /\ pc' = "done"
    BY DEF IInv, Inv, Next, Program, WriteRdb
  <1>2. /\ rdb_block' = rdb_block /\ run' = run /\ size' = size /\ result' = result
        /\ run \in Nat /\ size \in Nat /\ result \in {"ok", "no space"}
    BY <1>1, Numbers DEF WriteRdb, Answering, memory
  <1>3. PICK h, l : h = disk[rdb_block].next /\ l = list
    OBVIOUS
  <1>4. /\ rdb_block \in Block /\ h \in Block \cup {NoBlock} /\ FirstRdb(rdb_block)
        /\ Writers = WriterOf(h) /\ Writers' = WriterOf(disk[rdb_block].next)'
    BY <1>1, <1>2, <1>3, FoundReaders
  <1>5. l \in Block \cup {NoBlock}
    BY <1>1, <1>3 DEF TypeOK
  <1>6. disk'[rdb_block].next = l
    BY <1>1, <1>3, RdbWrites
  <1>7. Writers' = WriterOf(l)'
    BY <1>2, <1>4, <1>6 DEF WriterOf, Listed
  <1>8. Writers' = WriterOf(l)
    <2>1. (Listed(l)' <=> Listed(l)) /\ (Listed(l) => disk'[l] = disk[l])
      BY <1>1, <1>5, RdbWrites
    <2>2. QED
      BY <1>7, <2>1 DEF WriterOf
  <1>9. Writers \in {{}, {run}}
    <2>1. Listed(h) => disk[h].run = run
      BY <1>1, <1>3, <1>4 DEF IInv, Single, OneRun
    <2>2. QED
      BY <1>4, <2>1 DEF WriterOf
  <1>10. Listed(l) => disk[l].run = run
    BY <1>1, <1>3 DEF IInv, HeadErased
  <1>11. ~Listed(l) => ~Listed(h)
    BY <1>1, <1>3 DEF Answering
  <1>12. CASE result = "ok"
    <2>1. offset = size /\ (size = 0 => ~Listed(l))
      BY <1>3, <1>12 DEF IInv, Progress
    <2>2. size # 0 => Listed(l)
      <3>1. PICK w \in [1 .. offset -> Block] : Written(w)
        BY <1>12 DEF IInv, Progress
      <3>2. CASE size # 0
        <4>1. 1 \in 1 .. offset
          <5>1. offset \in Nat /\ offset # 0
            BY <1>2, <2>1, <3>2
          <5>2. QED
            BY ONLY <5>1
        <4>2. list = w[1] /\ Listed(w[1])
          BY <2>1, <3>1, <3>2, <4>1 DEF Written
        <4>3. QED
          BY <1>3, <4>2
      <3>3. QED
        BY <3>2
    <2>3. Writers' = IF size = 0 THEN {} ELSE {run}
      BY <1>8, <1>10, <2>1, <2>2 DEF WriterOf
    <2>4. QED
      BY <1>1, <1>2, <1>9, <1>12, <2>3 DEF Area!Succeed
  <1>13. CASE result = "no space"
    <2>1. Writers' \in {Writers, {run}}
      BY <1>4, <1>8, <1>10, <1>11 DEF WriterOf
    <2>2. QED
      BY <1>1, <1>2, <1>9, <1>13, <2>1 DEF Area!GiveUp
  <1>14. QED
    BY <1>2, <1>12, <1>13

LEMMA AreaStep ==
  ASSUME IInv, Answering, Found, Found', [Next]_vars
  PROVE  [Area!Next]_(Area!vars)
  <1>1. TypeOK /\ run \in Nat
    BY Numbers DEF IInv, Inv
  <1>2. CASE Erase \/ InstallChunk \/ WriteRdb
    BY <1>2, AreaErase, AreaChunk, AreaWrite DEF Area!Next
  <1>3. CASE \/ FindRdb \/ OpenFile \/ EraseEnds \/ InstallFirst \/ InstallFails
             \/ InstallEnds \/ UNCHANGED vars
    <2>1. /\ disk' = disk /\ run' = run /\ size' = size
          /\ \/ pc # "done" /\ pc' # "done"
             \/ pc' = pc /\ result' = result
      BY <1>3 DEF FindRdb, OpenFile, EraseEnds, InstallFirst, InstallFails,
         InstallEnds, memory, vars
    <2>2. Writers' = Writers
      BY <2>1, SameReaders
    <2>3. QED
      BY <2>1, <2>2 DEF Area!vars
  <1>4. CASE NoRdb
    <2>1. Writers = {} /\ disk' = disk
      BY <1>4 DEF NoRdb, Writers, HasRdb
    <2>2. Writers' = {}
      BY <2>1, SameReaders
    <2>3. Area!Refuse
      BY <1>4, <2>1, <2>2 DEF NoRdb, Area!Refuse
    <2>4. QED
      BY <2>3 DEF Area!Next
  <1>5. CASE NoFile
    <2>1. disk' = disk /\ pc = "open"
      BY <1>5 DEF NoFile
    <2>2. Writers' = Writers
      BY <2>1, SameReaders
    <2>3. run \notin Writers
      <3>1. PICK h : h = disk[rdb_block].next
        OBVIOUS
      <3>2. h \in Block \cup {NoBlock} /\ Writers = WriterOf(h)
        BY <2>1, <3>1, FoundReaders
      <3>3. Listed(h) => disk[h].run < run /\ disk[h].run \in Nat
        BY <1>1, <2>1, <3>2, ListedType, NextType DEF IInv, Labels
      <3>4. QED
        BY <1>1, <3>2, <3>3 DEF WriterOf
    <2>4. Area!Refuse
      BY <1>5, <2>2, <2>3 DEF NoFile, Area!Refuse
    <2>5. QED
      BY <2>4 DEF Area!Next
  <1>6. CASE Rerun \/ Crash
    <2>1. /\ disk' = disk /\ run' = run + 1 /\ size' \in Nat /\ pc' = "find"
      BY <1>6, SizeAssumption DEF Rerun, Crash, Start
    <2>2. Writers' = Writers
      BY <2>1, SameReaders
    <2>3. Area!Start
      BY <2>1, <2>2 DEF Area!Start
    <2>4. QED
      BY <2>3 DEF Area!Next
  <1>7. QED
    BY <1>2, <1>3, <1>4, <1>5, <1>6 DEF Next, Program

LEMMA AreaInit == Init => Area!Init
  <1> SUFFICES ASSUME Init PROVE Area!Init
    OBVIOUS
  <1>1. TypeOK /\ Found /\ size \in Nat
    BY InitInv, FoundAlways, Numbers DEF Inv
  <1>2. \A b \in Block : disk[b].run = 0
    BY OldAssumption DEF Init
  <1>3. Writers \in {{}, {0}}
    <2>1. CASE \A r : ~FirstRdb(r)
      BY <1>1, <2>1 DEF Found
    <2>2. ASSUME NEW r, FirstRdb(r) PROVE Writers \in {{}, {0}}
      <3>1. PICK h : h = disk[r].next
        OBVIOUS
      <3>2. r \in Block /\ Writers = WriterOf(h)
        BY <1>1, <2>2, <3>1, LocationsAreBlocks DEF Found, FirstRdb
      <3>3. Listed(h) => disk[h].run = 0
        BY <1>1, <1>2, <3>1, <3>2, NextType, ListedType
      <3>4. QED
        BY <3>2, <3>3 DEF WriterOf
    <2>3. QED
      BY <2>1, <2>2
  <1>4. QED
    BY <1>1, <1>3 DEF Init, Area!Init

\* The installer keeps its promise, on every disk and wherever a start of it
\* is killed: old bootloaders do not come back, the old and the new one are
\* never there together, and "ok" means that the new one is.
THEOREM InstallsInOrder == Spec => AreaSpec
  <1>1. Init => Answering
    BY DEF Init, Answering
  <1>2. IInv /\ Answering /\ [Next]_vars => Answering'
    BY AnsweringStep
  <1>3. IInv => Found
    BY FoundAlways DEF IInv, Inv
  <1>4. IInv /\ Answering /\ Found /\ Found' /\ [Next]_vars => [Area!Next]_(Area!vars)
    BY AreaStep
  <1>5. QED
    BY Inductive, AreaInit, <1>1, <1>2, <1>3, <1>4, PTL DEF Spec, AreaSpec, Area!Spec

\* What the promise speaks of is the whole list: every chunk the firmware reads
\* is of the start that wrote the first.
THEOREM ReadsOneWriter ==
  Spec => [](HasRdb => Writers = {disk[Chain[k]].run : k \in Read})
  <1>1. ASSUME IInv, HasRdb PROVE Writers = {disk[Chain[k]].run : k \in Read}
    <2>1. TypeOK /\ FirstRdb(Rdb) /\ Rdb \in Block
      BY <1>1, RdbIsFirst, LocationsAreBlocks DEF IInv, Inv, FirstRdb
    <2>2. PICK h : h = disk[Rdb].next
      OBVIOUS
    <2>3. Writers = WriterOf(h)
      BY <1>1, <2>2 DEF Writers, WriterOf
    <2>4. PICK q \in Nat : OneRun(q)
      BY <1>1 DEF IInv, Single
    <2>5. \A k \in Read : k \in 1 .. Blocks /\ Chain[k] # NoBlock /\ disk[Chain[k]].run = q
      BY <1>1, <2>1, <2>4, ChainTurn, ChainOfOneRun DEF Read
    <2>6. 1 \in 1 .. Blocks /\ DOMAIN Chain = 1 .. Blocks
      BY <1>1, <2>1, ChainTurn, SizeAssumption
    <2>7. Chain[1] = IF Listed(h) THEN h ELSE NoBlock
      BY <1>1, <2>1, <2>2, <2>6, ChainTurn
    <2>8. CASE Listed(h)
      <3>1. Chain[1] = h /\ h # NoBlock
        BY <2>7, <2>8 DEF Listed
      <3>2. 1 \in Read /\ disk[h].run = q
        <4>1. 1 \in Read
          BY <2>6, <3>1 DEF Read
        <4>2. QED
          BY <2>5, <3>1, <4>1
      <3>3. QED
        BY <2>3, <2>5, <2>8, <3>2 DEF WriterOf
    <2>9. CASE ~Listed(h)
      <3>1. \A k \in 1 .. Blocks : Chain[k] = NoBlock
        <4> DEFINE S == {n \in Nat : n \in 1 .. Blocks => Chain[n] = NoBlock}
        <4>1. 0 \in S
          OBVIOUS
        <4>2. \A n \in Nat : n \in S => n + 1 \in S
          <5> SUFFICES ASSUME NEW n \in Nat, n \in S, n + 1 \in 1 .. Blocks
                       PROVE  Chain[n + 1] = NoBlock
            OBVIOUS
          <5>1. CASE n = 0
            BY <2>7, <2>9, <5>1
          <5>2. CASE n # 0
            <6>1. n \in 1 .. Blocks /\ n + 1 # 1 /\ n + 1 - 1 = n
              BY <5>2, SizeAssumption
            <6>2. Chain[n] = NoBlock
              BY <6>1
            <6>3. QED
              BY <1>1, <2>1, <6>1, <6>2, ChainTurn DEF Listed
          <5>3. QED
            BY <5>1, <5>2
        <4> HIDE DEF S
        <4>3. Nat \subseteq S
          BY <4>1, <4>2, Counting
        <4>4. \A n \in 1 .. Blocks : n \in Nat
          OBVIOUS
        <4>5. QED
          BY <4>3, <4>4 DEF S
      <3>2. Read = {}
        BY <2>6, <3>1 DEF Read
      <3>3. QED
        BY <2>3, <2>9, <3>2 DEF WriterOf
    <2>10. QED
      BY <2>8, <2>9
  <1>2. QED
    BY <1>1, Inductive, PTL

-----------------------------------------------------------------------------
(* How many steps a start takes at most.                                   *)

Boots == {b \in Block : Listed(b)}

\* What is left to do: every block that is erased is one boot block less on
\* the disk, wherever the list leads.
Left ==
  CASE pc = "find"      -> Blocks + size + 6
    [] pc = "open"      -> Blocks + size + 5
    [] pc = "erase"     -> Cardinality(Boots) + size + 4
    [] pc = "first"     -> size + 3
    [] pc = "install"   -> (size - offset) + 2
    [] pc = "write_rdb" -> 1
    [] pc = "done"      -> 0

LEMMA BootsFinite ==
  /\ IsFiniteSet(Boots) /\ Cardinality(Boots) \in Nat /\ Cardinality(Boots) <= Blocks
  <1>1. IsFiniteSet(Block) /\ Cardinality(Block) = Blocks
    BY SizeAssumption, FS_Interval DEF Block
  <1>2. Boots \subseteq Block
    BY DEF Boots
  <1>3. QED
    BY <1>1, <1>2, FS_Subset, FS_CardinalityType

\* The blocks listed lie on the disk, so erasing one leaves one less.
LEMMA EraseLess ==
  ASSUME Inv, Erase
  PROVE  Cardinality(Boots') = Cardinality(Boots) - 1
  <1>1. /\ block \in Block /\ Listed(block)
        /\ \A b \in Block : Listed(b)' <=> b # block /\ Listed(b)
    BY EraseWrites
  <1>2. Boots' = Boots \ {block} /\ block \in Boots
    BY <1>1 DEF Boots
  <1>3. QED
    BY <1>2, BootsFinite, FS_RemoveElement

LEMMA LeftType == TypeOK => Left \in Nat
  <1> SUFFICES ASSUME TypeOK PROVE Left \in Nat
    OBVIOUS
  <1>1. /\ size \in Nat /\ size - offset \in Nat /\ Blocks \in Nat
        /\ Cardinality(Boots) \in Nat
    BY Numbers, SizeAssumption, BootsFinite
  <1>2. pc \in {"find", "open", "erase", "first", "install", "write_rdb", "done"}
    BY DEF TypeOK
  <1>3. QED
    BY <1>1, <1>2 DEF Left

\* A start takes at most Blocks + size + 6 steps, on every disk: where the list
\* of boot blocks runs in a circle, meets itself or leads anywhere, too.
THEOREM StartsAreShort ==
  Spec => [](Left \in Nat) /\ [][Program => Left' < Left]_vars
  <1>1. ASSUME Inv, Program PROVE Left' < Left
    <2>1. /\ size \in Nat /\ offset \in Nat /\ offset \in 0 .. size /\ Blocks \in Nat
          /\ Cardinality(Boots) \in Nat /\ Cardinality(Boots) <= Blocks
      BY <1>1, Numbers, SizeAssumption, BootsFinite DEF Inv
    <2>2. CASE Erase
      <3>1. Cardinality(Boots') = Cardinality(Boots) - 1
        BY <1>1, <2>2, EraseLess
      <3>2. pc = "erase" /\ pc' = "erase" /\ size' = size
        BY <2>2 DEF Erase
      <3>3. Left = Cardinality(Boots) + size + 4 /\ Left' = Cardinality(Boots') + size + 4
        BY <3>2 DEF Left
      <3>4. QED
        BY ONLY <2>1, <3>1, <3>3
    <2>3. CASE OpenFile
      <3>1. pc = "open" /\ pc' = "erase" /\ size' = size /\ disk' = disk
        BY <2>3 DEF OpenFile
      <3>2. Boots' = Boots
        BY <3>1 DEF Boots, Listed
      <3>3. Left = Blocks + size + 5 /\ Left' = Cardinality(Boots) + size + 4
        BY <3>1, <3>2 DEF Left
      <3>4. QED
        BY ONLY <2>1, <3>3
    <2>4. CASE InstallChunk
      <3>1. /\ pc = "install" /\ pc' = "install" /\ size' = size
            /\ offset' = offset + 1
        BY <2>4 DEF InstallChunk
      <3>2. Left = (size - offset) + 2 /\ Left' = (size - (offset + 1)) + 2
        BY <3>1 DEF Left
      <3>3. QED
        BY ONLY <2>1, <3>2
    <2>5. CASE \/ FindRdb \/ NoRdb \/ NoFile \/ EraseEnds \/ InstallFirst
               \/ InstallFails \/ InstallEnds \/ WriteRdb
      <3>1. /\ size' = size
            /\ \/ pc = "find" /\ pc' \in {"open", "done"}
               \/ pc = "open" /\ pc' = "done"
               \/ pc = "erase" /\ pc' = "first"
               \/ pc = "first" /\ pc' = "install" /\ offset' = offset
               \/ pc \in {"first", "install"} /\ pc' = "write_rdb"
               \/ pc = "write_rdb" /\ pc' = "done"
        BY <2>5 DEF FindRdb, NoRdb, NoFile, EraseEnds, InstallFirst,
           InstallFails, InstallEnds, WriteRdb, memory
      <3>2. /\ pc = "find" => Left = Blocks + size + 6
            /\ pc = "open" => Left = Blocks + size + 5
            /\ pc = "erase" => Left = Cardinality(Boots) + size + 4
            /\ pc = "first" => Left = size + 3
            /\ pc = "install" => Left = (size - offset) + 2
            /\ pc = "write_rdb" => Left = 1
        BY DEF Left
      <3>3. /\ pc' = "open" => Left' = Blocks + size' + 5
            /\ pc' = "first" => Left' = size' + 3
            /\ pc' = "install" => Left' = (size' - offset') + 2
            /\ pc' = "write_rdb" => Left' = 1
            /\ pc' = "done" => Left' = 0
        BY DEF Left
      <3>4. QED
        BY ONLY <2>1, <3>1, <3>2, <3>3
    <2>6. QED
      BY <1>1, <2>2, <2>3, <2>4, <2>5 DEF Program
  <1>2. Inv => Left \in Nat
    BY LeftType DEF Inv
  <1>3. Inv /\ [Next]_vars => [Program => Left' < Left]_vars
    BY <1>1
  <1>4. QED
    BY <1>2, <1>3, Invariant, PTL DEF Spec

-----------------------------------------------------------------------------
(* How far from the reserved range an installer writes and looks.          *)

\* A uint32_t.
LEMMA RangeType == nblocks \in Nat /\ nblocks < Word
  <1>1. PICK d \in Int : d = Hi - Lo
    BY SizeAssumption
  <1>2. PICK w \in Nat : w = Word /\ w > 0
    BY SizeAssumption
  <1>3. d % w \in 0 .. (w - 1)
    BY ONLY <1>2
  <1>4. QED
    BY <1>1, <1>2, <1>3 DEF nblocks

\* next_free_block() does not look behind it, but for the block right behind
\* the pointer.
Bound == IF nblocks > 1 THEN nblocks ELSE 1

\* Each chunk takes the pointer at most one block further than that.
PointerNear ==
  /\ pc = "first" => free_block_pointer = 0 /\ offset = 0
  /\ pc = "install" => block = free_block_pointer /\ free_block_pointer <= Bound + offset

\* The block right behind the pointer, or one up to the bound.
LEMMA ExaminedNear ==
  ASSUME NEW b \in Nat, free_block_pointer \in Nat, Examined(b),
         NEW n \in Nat, free_block_pointer < Bound + n
  PROVE  b <= Bound + n
  <1>1. nblocks \in Int
    BY RangeType
  <1>2. /\ b > free_block_pointer
        /\ \A c \in (free_block_pointer + 1) .. (b - 1) : c < nblocks
    BY DEF Examined
  <1>3. CASE b = free_block_pointer + 1
    BY <1>1, <1>3 DEF Bound
  <1>4. CASE b # free_block_pointer + 1
    <2>1. b - 1 \in (free_block_pointer + 1) .. (b - 1)
      BY <1>2, <1>4
    <2>2. b - 1 < nblocks
      BY <1>2, <2>1
    <2>3. QED
      BY <1>1, <2>2 DEF Bound
  <1>5. QED
    BY <1>3, <1>4

LEMMA PointerStep == Inv /\ PointerNear /\ [Next]_vars => PointerNear'
  <1> SUFFICES ASSUME Inv, PointerNear, [Next]_vars PROVE PointerNear'
    OBVIOUS
  <1>1. /\ offset \in Nat /\ free_block_pointer \in Nat /\ Bound \in Nat \ {0}
        /\ \A b \in Block : b \in Nat
    <2>1. offset \in Nat /\ free_block_pointer \in Block
      BY Numbers DEF Inv, TypeOK
    <2>2. nblocks \in Int
      BY RangeType
    <2>3. QED
      BY <2>1, <2>2 DEF Bound, Block
  <1>2. Bound' = Bound
    BY DEF Bound, nblocks
  <1>3. CASE EraseEnds
    BY <1>3 DEF EraseEnds, PointerNear
  <1>4. CASE InstallFirst
    <2>1. free_block_pointer = 0 /\ offset = 0
      BY <1>4 DEF InstallFirst, PointerNear
    <2>2. PICK b \in Block : Examined(b) /\ block' = b /\ free_block_pointer' = b
      BY <1>4 DEF InstallFirst, NextFree
    <2>3. b <= Bound + 0
      BY <1>1, <2>1, <2>2, ExaminedNear
    <2>4. pc' = "install" /\ offset' = offset
      BY <1>4 DEF InstallFirst
    <2>5. QED
      BY <1>2, <2>1, <2>2, <2>3, <2>4 DEF PointerNear
  <1>5. CASE InstallChunk
    <2>1. free_block_pointer <= Bound + offset /\ pc' = "install" /\ offset' = offset + 1
      BY <1>5 DEF InstallChunk, PointerNear
    <2>2. PICK b \in Block : Examined(b) /\ block' = b /\ free_block_pointer' = b
      BY <1>5 DEF InstallChunk, NextFree
    <2>3. PICK n \in Nat : n = offset + 1
      BY <1>1
    <2>4. free_block_pointer < Bound + n
      BY ONLY <1>1, <2>1, <2>3
    <2>5. b <= Bound + n
      BY <1>1, <2>2, <2>4, ExaminedNear
    <2>6. QED
      BY <1>2, <2>1, <2>2, <2>3, <2>5 DEF PointerNear
  <1>6. CASE \/ FindRdb \/ NoRdb \/ OpenFile \/ NoFile \/ Erase \/ InstallFails
             \/ InstallEnds \/ WriteRdb \/ Start
    <2>1. pc' \notin {"first", "install"}
      BY <1>6 DEF FindRdb, NoRdb, OpenFile, NoFile, Erase, InstallFails,
         InstallEnds, WriteRdb, Start
    <2>2. QED
      BY <2>1 DEF PointerNear
  <1>7. CASE UNCHANGED vars
    BY <1>2, <1>7 DEF PointerNear, vars
  <1>8. QED
    BY <1>3, <1>4, <1>5, <1>6, <1>7 DEF Next, Program, Rerun, Crash

LEMMA StaysNear == Spec => []PointerNear
  <1>1. Init => PointerNear
    BY DEF Init, PointerNear
  <1>2. QED
    BY <1>1, PointerStep, Invariant, PTL DEF Spec

\* Beside the RigidDiskBlock and the old boot blocks no block is written that
\* lies further than the number of reserved blocks and the length of the
\* bootloader from the beginning of the disk, whatever lies on it: no further than
\* that does install_slb() leave the reserved range (StaysInReservedRange).
THEOREM WritesStayNear ==
  Spec => [][\A b \in Block : disk'[b] # disk[b] =>
               b = rdb_block \/ disk[b].id = "BOOT" \/ b < Bound + size]_vars
  <1> DEFINE Near == \A b \in Block : disk'[b] # disk[b] =>
                       b = rdb_block \/ disk[b].id = "BOOT" \/ b < Bound + size
  <1>1. ASSUME Inv, PointerNear, Next PROVE Near
    <2> SUFFICES ASSUME NEW b \in Block, disk'[b] # disk[b], b # rdb_block
                 PROVE  disk[b].id = "BOOT" \/ b < Bound + size
      OBVIOUS
    <2>1. disk \in [Block -> Contents] /\ offset \in Nat /\ size \in Nat
      BY <1>1, Numbers DEF Inv, TypeOK
    <2>2. CASE Erase
      BY <2>1, <2>2 DEF Erase, Listed
    <2>3. CASE InstallChunk
      <3>1. b = block
        BY <2>1, <2>3 DEF InstallChunk
      <3>2. block <= Bound + offset /\ offset < size
        BY <1>1, <2>3 DEF InstallChunk, PointerNear, More
      <3>3. b \in Int /\ Bound \in Int
        BY SizeAssumption, RangeType DEF Block, Bound
      <3>4. QED
        BY ONLY <2>1, <3>1, <3>2, <3>3
    <2>4. CASE WriteRdb
      BY <2>1, <2>4 DEF WriteRdb
    <2>5. CASE \/ FindRdb \/ NoRdb \/ OpenFile \/ NoFile \/ EraseEnds
               \/ InstallFirst \/ InstallFails \/ InstallEnds \/ Start
      BY <2>5 DEF FindRdb, NoRdb, OpenFile, NoFile, EraseEnds, InstallFirst,
         InstallFails, InstallEnds, Start
    <2>6. QED
      BY <1>1, <2>2, <2>3, <2>4, <2>5 DEF Next, Program, Rerun, Crash
  <1>2. Inv /\ PointerNear /\ [Next]_vars => [Near]_vars
    BY <1>1
  <1>3. QED
    BY <1>2, Invariant, StaysNear, PTL DEF Spec

\* Any set of blocks that is not empty has a first one.
LEMMA FirstOf ==
  ASSUME NEW S \in SUBSET Block, NEW x \in S
  PROVE  \E b \in S : \A c \in S : b <= c
  <1> DEFINE R == OpToRel(<, Nat)
  <1>1. IsWellFoundedOn(R, Nat)
    BY NatLessThanWellFounded
  <1>2. \A m, n \in Nat : m < n => <<m, n>> \in R
    BY DEF OpToRel
  <1>3. S \subseteq Nat
    BY DEF Block
  <1> HIDE DEF R
  <1>4. PICK b \in S : \A c \in S : ~(<<c, b>> \in R)
    BY <1>1, <1>3, WFMin
  <1>5. \A c \in S : b \in Nat /\ c \in Nat /\ ~(c < b)
    BY <1>2, <1>3, <1>4
  <1>6. QED
    BY <1>5

\* The search for a free block always comes to its end on the blocks of the
\* model: what next_free_block() answers, the model answers, for a reserved range
\* of whatever length, and for one that ends before it begins.
THEOREM SearchesEnd ==
  Spec =>
    [](pc = "first" \/ (pc = "install" /\ More) => \E b \in Block : Examined(b))
  <1>1. ASSUME Inv, PointerNear,
               pc = "first" \/ (pc = "install" /\ More)
        PROVE  \E b \in Block : Examined(b)
    <2>1. /\ size \in Sizes /\ size \in Nat /\ offset \in Nat /\ offset \in 0 .. size
          /\ free_block_pointer \in Block
      BY <1>1, Numbers DEF Inv, TypeOK
    <2>2. PICK n \in Nat : n = nblocks
      BY RangeType
    <2>3. n + size + 2 < Blocks /\ Blocks \in Nat
      BY <2>1, <2>2, RoomAssumption, SizeAssumption
    <2>4. PICK p \in Nat : p = free_block_pointer
      BY <2>1 DEF Block
    <2>5. p <= n + size
      <3>1. CASE pc = "first"
        <4>1. p = 0
          BY <1>1, <2>4, <3>1 DEF PointerNear
        <4>2. QED
          BY ONLY <2>1, <4>1
      <3>2. CASE pc = "install" /\ More
        <4>1. p <= Bound + offset /\ offset < size
          BY <1>1, <2>4, <3>2 DEF PointerNear, More
        <4>2. Bound \in Nat /\ Bound <= n + 1
          BY <2>2 DEF Bound
        <4>3. QED
          BY ONLY <2>1, <4>1, <4>2
      <3>3. QED
        BY <1>1, <3>1, <3>2
    <2> DEFINE S == {b \in Block : b > p /\ (IsFree(disk[b]) \/ b >= n)}
    <2>6. n + size + 1 \in S
      BY <2>1, <2>3, <2>5 DEF Block
    <2>7. PICK b \in S : \A c \in S : b <= c
      BY <2>6, FirstOf
    <2>8. b \in Block /\ b > p /\ (IsFree(disk[b]) \/ b >= n)
      BY <2>7
    <2>9. ASSUME NEW c \in (p + 1) .. (b - 1)
          PROVE  ~IsFree(disk[c]) /\ c < n
      <3>0. b \in 0 .. (Blocks - 1)
        BY <2>8 DEF Block
      <3>1. c \in Block /\ c > p /\ ~(b <= c) /\ c \in Int
        BY ONLY <2>3, <2>4, <2>9, <3>0 DEF Block
      <3>2. c \notin S
        BY <2>7, <3>1
      <3>3. ~IsFree(disk[c]) /\ ~(c >= n)
        BY <3>1, <3>2
      <3>4. QED
        BY <3>1, <3>3
    <2>10. Examined(b)
      BY <2>2, <2>4, <2>8, <2>9 DEF Examined
    <2>11. QED
      BY <2>8, <2>10
  <1>2. Inv /\ PointerNear =>
          (pc = "first" \/ (pc = "install" /\ More) => \E b \in Block : Examined(b))
    BY <1>1
  <1>3. QED
    BY <1>2, Invariant, StaysNear, PTL
=============================================================================
