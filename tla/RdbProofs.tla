------------------------------ MODULE RdbProofs ------------------------------
(***************************************************************************)
(* Theorems about Rdb, for every disk of any size, every limit and any     *)
(* reads that fail.                                                        *)
(***************************************************************************)
EXTENDS Rdb, FiniteSetTheorems, WellFoundedInduction, TLAPS

\* Where r's list leads behind its first k partitions.
Lead(r, k) == IF k = 0 THEN disk[r].next ELSE disk[Listed(r)[k - 1]].next

DiskOK == DOMAIN disk \subseteq Block /\ \A k \in DOMAIN disk : disk[k] \in Contents

\* get_rdb() takes a good RigidDiskBlock, the first one while all is read;
\* without one the table is left empty, with one every slot is looked at.
Found ==
  /\ pc = "find" => /\ slot = 0 /\ rdb = NoBlock /\ p = NoBlock
                    /\ fails = 0 => \A c \in 0 .. (b - 1) : ~IsRdb(c)
  /\ rdb # NoBlock => /\ IsRdb(rdb) /\ rdb \in 0 .. (Limit - 1)
                      /\ fails = 0 => \A c \in 0 .. (rdb - 1) : ~IsRdb(c)
  /\ (pc = "done" /\ rdb = NoBlock) =>
       slot = 0 /\ (fails = 0 => \A c \in 0 .. (Limit - 1) : ~IsRdb(c))
  /\ (pc = "done" /\ rdb # NoBlock) => slot = Limit

\* The slots filled that are not what the list says.
Lost == {k \in Slots : k < slot /\ table[k].at # Listed(rdb)[k]}

\* Nothing is in the slots not reached; the others are the list, but for one
\* of them at most for each read that failed.
Copied ==
  /\ \A k \in Slots : k >= slot => table[k].at = NoBlock
  /\ rdb # NoBlock => /\ \A k \in Slots : k < slot => Meant(k)
                      /\ Cardinality(Lost) <= fails

\* The walk has passed slot - part partitions of the list.
Walking == pc = "walk" =>
  /\ rdb \in DOMAIN disk /\ slot < Limit /\ part <= slot
  /\ block = Lead(rdb, slot - part)
  /\ slot - part > 0 => Listed(rdb)[(slot - part) - 1] # NoBlock
  /\ p # NoBlock => p = block /\ IsPartition(p) /\ ~disk[p].good

IInv == TypeOK /\ DiskOK /\ Found /\ Copied /\ Walking

\* A block on the disk is a block.
LEMMA OnDisk == ASSUME DiskOK, NEW k \in DOMAIN disk PROVE k \in Nat /\ k # NoBlock
  BY LimitAssumption DEF DiskOK, Block, NoBlock

\* A set of natural numbers has a least one.
LEMMA LeastExists ==
  ASSUME NEW S \in SUBSET Nat, S # {}
  PROVE  \E x \in S : \A y \in S : x <= y
  <1> DEFINE R == OpToRel(<, Nat)
  <1>1. IsWellFoundedOn(R, Nat)
    BY NatLessThanWellFounded
  <1>2. \A x, y \in Nat : x < y => <<x, y>> \in R
    BY DEF OpToRel
  <1>3. S \subseteq Nat
    OBVIOUS
  <1> HIDE DEF R
  <1>4. PICK x \in S : \A y \in S : ~(<<y, x>> \in R)
    BY <1>1, <1>3, WFMin
  <1>5. \A y \in S : x \in Nat /\ y \in Nat /\ ~(y < x)
    BY <1>2, <1>3, <1>4
  <1>6. \A y \in S : x <= y
    BY <1>5
  <1>7. QED
    BY <1>6

\* A set of natural numbers with 0 and every successor has them all.
LEMMA Counting ==
  ASSUME NEW S, 0 \in S, \A n \in Nat : n \in S => n + 1 \in S
  PROVE  Nat \subseteq S
  <1> DEFINE T == Nat \ S
  <1>1. SUFFICES ASSUME T # {} PROVE FALSE
    OBVIOUS
  <1>2. T \in SUBSET Nat
    OBVIOUS
  <1>3. PICK x \in T : \A y \in T : x <= y
    BY <1>1, <1>2, LeastExists
  <1>4. x \in Nat /\ x # 0 /\ x \notin S
    OBVIOUS
  <1>5. x - 1 \in Nat /\ ~(x <= x - 1) /\ x - 1 + 1 = x
    BY <1>4
  <1>6. x - 1 \in S
    BY <1>3, <1>5
  <1>7. QED
    BY <1>4, <1>5, <1>6

-----------------------------------------------------------------------------
(* The list on the disk.                                                   *)

\* One turn along r's list: what Listed is defined to be a fixed point of.
Along(r, t) ==
  [k \in Slots |->
     LET at == IF k = 0 THEN disk[r].next
               ELSE IF t[k - 1] = NoBlock THEN NoBlock
               ELSE disk[t[k - 1]].next
     IN  IF IsPartition(at) THEN at ELSE NoBlock]

\* There is such a list, found partition by partition.
LEMMA ListedIsAlong == ASSUME NEW r PROVE Listed(r) = Along(r, Listed(r))
  <1>1. Listed(r) = CHOOSE l : l = Along(r, l)
    BY DEF Listed, Along
  <1> DEFINE Right(t, n) ==
               /\ t = [k \in Slots |-> t[k]]
               /\ \A k \in Slots : k < n => t[k] = Along(r, t)[k]
             S == {n \in Nat : \E t : Right(t, n)}
  <1>2. 0 \in S
    <2>1. PICK t : t = [k \in Slots |-> NoBlock]
      OBVIOUS
    <2>2. \A k \in Slots : ~(k < 0)
      BY DEF Slots
    <2>3. Right(t, 0)
      BY <2>1, <2>2
    <2>4. QED
      BY <2>3
  <1>3. \A n \in Nat : n \in S => n + 1 \in S
    <2> SUFFICES ASSUME NEW n \in Nat, n \in S PROVE n + 1 \in S
      OBVIOUS
    <2>1. PICK t : Right(t, n)
      OBVIOUS
    <2>2. PICK u : u = [k \in Slots |-> IF k = n THEN Along(r, t)[k] ELSE t[k]]
      OBVIOUS
    <2>3. u = [k \in Slots |-> u[k]]
      BY <2>2
    <2>4. \A k \in Slots : u[k] = IF k = n THEN Along(r, t)[k] ELSE t[k]
      BY <2>2
    <2>5. ASSUME NEW k \in Slots, k < n + 1 PROVE u[k] = Along(r, u)[k]
      <3>1. k \in Nat /\ (k = n \/ k < n)
        BY <2>5 DEF Slots
      <3>2. u[k] = Along(r, t)[k]
        BY <2>1, <2>4, <3>1
      <3>3. k # 0 => u[k - 1] = t[k - 1]
        <4>1. k # 0 => k - 1 \in Slots /\ k - 1 # n
          BY <3>1, LimitAssumption DEF Slots
        <4>2. QED
          BY <2>4, <4>1
      <3>4. Along(r, u)[k] = Along(r, t)[k]
        BY <3>3 DEF Along
      <3>5. QED
        BY <3>2, <3>4
    <2>6. Right(u, n + 1)
      BY <2>3, <2>5
    <2> HIDE DEF Right
    <2>7. QED
      BY <2>6
  <1>4. Limit \in S
    <2> HIDE DEF S
    <2>1. QED
      BY <1>2, <1>3, Counting, LimitAssumption
  <1>5. PICK t : Right(t, Limit)
    BY <1>4
  <1>6. t = Along(r, t)
    <2>1. \A k \in Slots : t[k] = Along(r, t)[k]
      BY <1>5, LimitAssumption DEF Slots
    <2>2. Along(r, t) = [k \in Slots |-> Along(r, t)[k]]
      BY DEF Along
    <2>3. t = [k \in Slots |-> t[k]]
      BY <1>5
    <2>4. QED
      BY <2>1, <2>2, <2>3
  <1>7. QED
    BY <1>1, <1>6

\* A partition of the list is where the ones before it lead; the list ends
\* where they lead to none.
LEMMA ListTurn ==
  ASSUME DiskOK, NEW r, NEW k \in Slots
  PROVE  /\ Listed(r)[k] # NoBlock => /\ IsPartition(Listed(r)[k])
                                      /\ k > 0 => Listed(r)[k - 1] # NoBlock
         /\ (k > 0 => Listed(r)[k - 1] # NoBlock) =>
              Listed(r)[k] = IF IsPartition(Lead(r, k)) THEN Lead(r, k) ELSE NoBlock
  <1>1. PICK l : l = Listed(r)
    OBVIOUS
  <1>2. l = Along(r, l)
    BY <1>1, ListedIsAlong
  <1>3. Along(r, l)[k] =
          LET at == IF k = 0 THEN disk[r].next
                    ELSE IF l[k - 1] = NoBlock THEN NoBlock
                    ELSE disk[l[k - 1]].next
          IN  IF IsPartition(at) THEN at ELSE NoBlock
    BY DEF Along
  <1>4. ~IsPartition(NoBlock)
    BY OnDisk DEF IsPartition
  <1>5. k \in Nat
    BY DEF Slots
  <1>6. l[k] # NoBlock => IsPartition(l[k]) /\ (k > 0 => l[k - 1] # NoBlock)
    <2>1. CASE k = 0
      BY <1>2, <1>3, <1>5, <2>1
    <2>2. CASE k # 0
      BY <1>2, <1>3, <1>4, <1>5, <2>2
    <2>3. QED
      BY <2>1, <2>2
  <1>7. ASSUME k > 0 => l[k - 1] # NoBlock
        PROVE  l[k] = IF IsPartition(Lead(r, k)) THEN Lead(r, k) ELSE NoBlock
    <2>1. CASE k = 0
      BY <1>2, <1>3, <2>1 DEF Lead
    <2>2. CASE k # 0
      <3>1. l[k - 1] # NoBlock /\ Lead(r, k) = disk[l[k - 1]].next
        BY <1>1, <1>5, <1>7, <2>2 DEF Lead
      <3>2. QED
        BY <1>2, <1>3, <2>2, <3>1
    <2>3. QED
      BY <2>1, <2>2
  <1>8. QED
    BY <1>1, <1>6, <1>7

\* Nothing is behind the end of the list.
LEMMA ListEnds ==
  ASSUME DiskOK, NEW r, NEW m \in Slots, Listed(r)[m] = NoBlock,
         NEW k \in Slots, m <= k
  PROVE  Listed(r)[k] = NoBlock
  <1> DEFINE D == {j \in Slots : m <= j /\ Listed(r)[j] # NoBlock}
  <1>1. SUFFICES ASSUME D # {} PROVE FALSE
    OBVIOUS
  <1>2. D \in SUBSET Nat
    BY DEF Slots
  <1>3. PICK j \in D : \A i \in D : j <= i
    BY <1>1, <1>2, LeastExists
  <1>4. j \in Slots /\ j \in Nat /\ m \in Nat /\ m <= j /\ j # m
    BY <1>2 DEF Slots
  <1>5. j > 0 /\ j - 1 \in Slots /\ m <= j - 1 /\ ~(j <= j - 1)
    BY <1>4, LimitAssumption DEF Slots
  <1>6. Listed(r)[j - 1] # NoBlock
    BY <1>4, <1>5, ListTurn
  <1>7. QED
    BY <1>3, <1>5, <1>6

-----------------------------------------------------------------------------
(* The invariant.                                                          *)

\* The disk get_dev() finds is one of the units, or there is none.
LEMMA FirstDiskType ==
  ASSUME NEW units \in UnitLists
  PROVE  \/ FirstDisk(units) = NoDisk
         \/ \E S \in SUBSET Block : FirstDisk(units) \in [S -> Contents]
  <1> DEFINE found == {u \in DOMAIN units : units[u] # NoDisk}
  <1>1. CASE found = {}
    BY <1>1 DEF FirstDisk
  <1>2. CASE found # {}
    <2>1. found \in SUBSET Nat
      BY UnitAssumption
    <2>2. \E u \in found : \A v \in found : u <= v
      BY <1>2, <2>1, LeastExists
    <2> DEFINE u == CHOOSE u \in found : \A v \in found : u <= v
    <2>3. u \in found
      BY <2>2
    <2>4. FirstDisk(units) = units[u]
      BY <1>2 DEF FirstDisk
    <2> HIDE DEF u
    <2>5. QED
      BY <2>3, <2>4, UnitAssumption
  <1>3. QED
    BY <1>1, <1>2

LEMMA InitOK == Init => IInv
  <1> SUFFICES ASSUME Init PROVE IInv
    OBVIOUS
  <1>1. PICK units \in UnitLists : disk = FirstDisk(units)
    BY DEF Init
  <1>2. disk = NoDisk => DOMAIN disk = {}
    <2>1. NoDisk \in Seq({}) /\ Len(NoDisk) = 0
      BY DEF NoDisk
    <2>2. QED
      BY <2>1
  <1>3. DiskOK
    <2>1. CASE disk = NoDisk
      BY <1>2, <2>1 DEF DiskOK
    <2>2. CASE \E S \in SUBSET Block : disk \in [S -> Contents]
      BY <2>2 DEF DiskOK
    <2>3. QED
      BY <1>1, <2>1, <2>2, FirstDiskType
  <1>4. TypeOK
    BY LimitAssumption, FailAssumption DEF Init, TypeOK, Slots, NoPartition
  <1>5. pc # "walk" /\ rdb = NoBlock /\ slot = 0 /\ b = 0 /\ p = NoBlock
    BY DEF Init
  <1>6. Found
    <2>1. CASE disk = NoDisk
      BY <1>2, <1>5, <2>1 DEF Found, IsRdb
    <2>2. CASE disk # NoDisk
      <3>1. pc = "find"
        BY <2>2 DEF Init
      <3>2. QED
        BY <1>5, <3>1 DEF Found
    <2>3. QED
      BY <2>1, <2>2
  <1>7. Copied
    BY <1>5 DEF Init, Copied, Slots, NoPartition
  <1>8. QED
    BY <1>3, <1>4, <1>5, <1>6, <1>7 DEF IInv, Walking

\* A block's list field leads to a block or nowhere.
LEMMA NextType ==
  ASSUME DiskOK, NEW k \in DOMAIN disk
  PROVE  disk[k].next \in Block \cup {NoBlock}
  BY DEF DiskOK, Contents

\* The list stays what it is.
LEMMA ListStays == ASSUME UNCHANGED <<disk, rdb>> PROVE Listed(rdb)' = Listed(rdb)
  <1>1. disk' = disk /\ rdb' = rdb
    OBVIOUS
  <1>2. QED
    BY ONLY <1>1 DEF Listed, IsPartition, Slots

\* The walk for the next slot begins at the head of the list, with one more
\* slot filled as it may be; whatever is not the list in it is a read that failed.
LEMMA NextSlotOK ==
  ASSUME IInv, pc = "walk", NextSlot, UNCHANGED <<disk, b, rdb>>,
         fails' \in fails .. MaxFails, DOMAIN table' = Slots,
         \A k \in Slots : k # slot => table'[k] = table[k],
         table'[slot].at \in DOMAIN disk \cup {NoBlock},
         \/ table'[slot].at \in {NoBlock, Listed(rdb)[slot]}
         \/ /\ ~disk[table'[slot].at].good
            /\ \E j \in 0 .. slot : table'[slot].at = Listed(rdb)[j],
         table'[slot].at = Listed(rdb)[slot] \/ fails' = fails + 1
  PROVE  IInv'
  <1>1. /\ slot < Limit /\ slot \in Nat /\ Limit \in Nat /\ slot \in Slots
        /\ rdb \in DOMAIN disk /\ rdb # NoBlock
        /\ slot' = slot + 1 /\ part' = slot + 1 /\ p' = NoBlock /\ fails \in Nat
        /\ pc' = IF slot + 1 < Limit THEN "walk" ELSE "done"
    BY LimitAssumption, FailAssumption, OnDisk DEF IInv, Walking, TypeOK, NextSlot, Slots
  <1>2. block' \in Block \cup {NoBlock}
    BY <1>1, NextType DEF NextSlot, IInv
  <1>3. fails' \in 0 .. MaxFails /\ (fails' = 0 => fails = 0)
    BY <1>1, FailAssumption
  <1>4. TypeOK'
    <2>1. pc' \in {"find", "walk", "done"} /\ slot' \in 0 .. Limit /\ part' \in 0 .. Limit
      BY <1>1
    <2>2. \A k \in Slots : table'[k].at \in DOMAIN disk \cup {NoBlock}
      BY DEF IInv, TypeOK
    <2>3. b \in 0 .. Limit /\ rdb \in {NoBlock} \cup DOMAIN disk
      BY DEF IInv, TypeOK
    <2>4. QED
      BY <1>1, <1>2, <1>3, <2>1, <2>2, <2>3 DEF TypeOK, Slots
  <1>5. Found'
    BY <1>1, <1>3 DEF IInv, Found, IsRdb
  <1>6. Walking'
    <2>1. ASSUME pc' = "walk" PROVE slot' < Limit /\ slot' - part' = 0 /\ part' <= slot'
      BY <1>1, <2>1
    <2>2. Lead(rdb, 0)' = disk'[rdb'].next
      BY DEF Lead
    <2>3. block' = Lead(rdb, 0)'
      BY <2>2 DEF NextSlot
    <2>4. QED
      BY <1>1, <2>1, <2>3 DEF Walking
  <1>7. Listed(rdb)' = Listed(rdb)
    BY ListStays
  <1>8. \A k \in Slots : k < slot' => Meant(k)'
    <2> SUFFICES ASSUME NEW k \in Slots, k < slot' PROVE Meant(k)'
      OBVIOUS
    <2>1. CASE k = slot
      BY <1>7, <2>1 DEF Meant
    <2>2. CASE k # slot
      <3>1. k < slot /\ table'[k] = table[k]
        BY <1>1, <2>2 DEF Slots
      <3>2. Meant(k)
        BY <1>1, <3>1 DEF IInv, Copied
      <3>3. QED
        BY <1>7, <3>1, <3>2 DEF Meant
    <2>3. QED
      BY <2>1, <2>2
  <1>9. \A k \in Slots : k >= slot' => table'[k].at = NoBlock
    <2> SUFFICES ASSUME NEW k \in Slots, k >= slot' PROVE table'[k].at = NoBlock
      OBVIOUS
    <2>1. k # slot /\ k >= slot
      BY <1>1 DEF Slots
    <2>2. QED
      BY <2>1 DEF IInv, Copied
  <1>10. Cardinality(Lost') <= fails'
    <2>1. Lost' = {k \in Slots : k < slot' /\ table'[k].at # Listed(rdb)[k]}
      BY <1>7 DEF Lost, Slots
    <2>2. \A k \in Slots : k < slot' <=> k < slot \/ k = slot
      BY <1>1 DEF Slots
    <2>3. IsFiniteSet(Lost) /\ Cardinality(Lost) \in Nat /\ Cardinality(Lost) <= fails
      <3>1. IsFiniteSet(Slots)
        BY <1>1, FS_Interval DEF Slots
      <3>2. Lost \subseteq Slots
        BY DEF Lost
      <3>3. QED
        BY <1>1, <3>1, <3>2, FS_Subset, FS_CardinalityType DEF IInv, Copied
    <2>4. slot \notin Lost
      BY <1>1 DEF Lost
    <2>5. CASE table'[slot].at = Listed(rdb)[slot]
      <3>1. Lost' = Lost
        <4>1. \A k \in Slots : (k < slot' /\ table'[k].at # Listed(rdb)[k])
                               <=> (k < slot /\ table[k].at # Listed(rdb)[k])
          <5> SUFFICES ASSUME NEW k \in Slots
                       PROVE  (k < slot' /\ table'[k].at # Listed(rdb)[k])
                               <=> (k < slot /\ table[k].at # Listed(rdb)[k])
            OBVIOUS
          <5>1. CASE k = slot
            BY <1>1, <2>5, <5>1
          <5>2. CASE k # slot
            BY <2>2, <5>2
          <5>3. QED
            BY <5>1, <5>2
        <4>2. QED
          BY <2>1, <4>1 DEF Lost
      <3>2. fails <= fails' /\ fails' \in Nat
        BY <1>1, FailAssumption
      <3>3. QED
        BY <1>1, <2>3, <3>1, <3>2
    <2>6. CASE fails' = fails + 1
      <3>1. Lost' \subseteq Lost \cup {slot}
        BY <2>1, <2>2 DEF Lost
      <3>2. IsFiniteSet(Lost \cup {slot}) /\ Cardinality(Lost \cup {slot}) = Cardinality(Lost) + 1
        BY <2>3, <2>4, FS_AddElement
      <3>3. Cardinality(Lost') <= Cardinality(Lost) + 1 /\ Cardinality(Lost') \in Nat
        BY <3>1, <3>2, FS_Subset, FS_CardinalityType
      <3>4. QED
        BY <1>1, <2>3, <2>6, <3>3
    <2>7. QED
      BY <2>5, <2>6
  <1>11. Copied'
    BY <1>8, <1>9, <1>10 DEF Copied, Slots
  <1>12. QED
    BY <1>4, <1>5, <1>6, <1>11 DEF IInv, DiskOK

\* What the walk reads for a slot: the partition its part says, or the end.
LEMMA WalkReads ==
  ASSUME IInv, pc = "walk"
  PROVE  /\ slot \in Slots /\ slot \in Nat /\ part \in Nat /\ Limit \in Nat
         /\ slot - part \in Slots /\ slot - part \in 0 .. slot
         /\ IsPartition(block) => Listed(rdb)[slot - part] = block
         /\ ~IsPartition(block) => Listed(rdb)[slot] = NoBlock
         /\ table[slot].at = NoBlock /\ rdb # NoBlock
  <1>1. /\ slot \in Slots /\ slot \in Nat /\ part \in Nat /\ Limit \in Nat
        /\ slot - part \in Slots /\ slot - part \in 0 .. slot
    BY LimitAssumption DEF IInv, Walking, TypeOK, Slots
  <1>2. PICK m \in Slots : m = slot - part
    BY <1>1
  <1>3. block = Lead(rdb, m) /\ (m > 0 => Listed(rdb)[m - 1] # NoBlock)
    BY <1>2 DEF IInv, Walking
  <1>4. Listed(rdb)[m] = IF IsPartition(block) THEN block ELSE NoBlock
    BY <1>3, ListTurn DEF IInv
  <1>5. ~IsPartition(block) => Listed(rdb)[slot] = NoBlock
    <2>1. m <= slot
      BY <1>1, <1>2
    <2>2. QED
      BY <1>1, <1>4, <2>1, ListEnds DEF IInv
  <1>6. table[slot].at = NoBlock
    BY <1>1 DEF IInv, Copied
  <1>7. rdb # NoBlock
    BY OnDisk DEF IInv, Walking
  <1>8. QED
    BY <1>1, <1>2, <1>4, <1>5, <1>6, <1>7

LEMMA WalkAstrayOK == ASSUME IInv, WalkAstray PROVE IInv'
  <1>1. pc = "walk" /\ ~IsPartition(block) /\ NextSlot /\ UNCHANGED <<disk, b, rdb>>
    BY DEF WalkAstray
  <1>2. table' = table /\ fails' \in fails .. MaxFails /\ DOMAIN table = Slots
    BY FailAssumption DEF WalkAstray, IInv, TypeOK
  <1>3. table[slot].at = NoBlock /\ Listed(rdb)[slot] = NoBlock
    BY <1>1, WalkReads
  <1>4. QED
    BY <1>1, <1>2, <1>3, NextSlotOK

LEMMA WalkEndOK == ASSUME IInv, WalkEnd PROVE IInv'
  <1>1. pc = "walk" /\ NextSlot /\ UNCHANGED <<disk, b, rdb>>
    BY DEF WalkEnd
  <1>2. /\ slot \in Slots /\ slot \in Nat /\ slot - part \in 0 .. slot
        /\ IsPartition(block) => Listed(rdb)[slot - part] = block
        /\ ~IsPartition(block) => Listed(rdb)[slot] = NoBlock
        /\ table[slot].at = NoBlock
    BY <1>1, WalkReads
  <1>3. /\ DOMAIN table = Slots /\ fails \in 0 .. MaxFails
        /\ p # NoBlock => p = block /\ IsPartition(p) /\ ~disk[p].good /\ p \in DOMAIN disk
    BY <1>1 DEF IInv, TypeOK, Walking, IsPartition
  <1>4. \/ block \notin DOMAIN disk /\ fails' = fails
        \/ fails < MaxFails /\ fails' = fails + 1
    BY DEF WalkEnd, ReadFails
  <1>5. fails' \in fails .. MaxFails
    BY <1>3, <1>4, FailAssumption
  <1>6. CASE p = NoBlock
    <2>1. table' = table
      BY <1>6 DEF WalkEnd
    <2>2. table'[slot].at = Listed(rdb)[slot] \/ fails' = fails + 1
      BY <1>2, <1>4, <2>1 DEF IsPartition
    <2>3. QED
      BY <1>1, <1>2, <1>3, <1>5, <2>1, <2>2, NextSlotOK
  <1>7. CASE p # NoBlock
    <2>1. table' = [table EXCEPT ![slot] = Info(p)]
      BY <1>7 DEF WalkEnd
    <2>2. table'[slot].at = block /\ DOMAIN table' = Slots
      BY <1>2, <1>3, <1>7, <2>1 DEF Info
    <2>3. \A k \in Slots : k # slot => table'[k] = table[k]
      BY <1>3, <2>1
    <2>4. fails' = fails + 1
      BY <1>3, <1>4, <1>7
    <2>5. /\ ~disk[table'[slot].at].good
          /\ \E j \in 0 .. slot : table'[slot].at = Listed(rdb)[j]
      BY <1>2, <1>3, <1>7, <2>2
    <2>6. QED
      BY <1>1, <1>3, <1>5, <1>7, <2>2, <2>3, <2>4, <2>5, NextSlotOK
  <1>8. QED
    BY <1>6, <1>7

LEMMA WalkTakeOK == ASSUME IInv, WalkTake PROVE IInv'
  <1>1. /\ pc = "walk" /\ NextSlot /\ UNCHANGED <<disk, b, rdb>>
        /\ IsPartition(block) /\ block \in DOMAIN disk /\ ~Passed
    BY DEF WalkTake, IsPartition
  <1>2. /\ slot \in Slots /\ slot \in Nat /\ part \in Nat
        /\ Listed(rdb)[slot - part] = block
    BY <1>1, WalkReads
  <1>3. slot - part = slot
    BY <1>1, <1>2 DEF Passed
  <1>4. DOMAIN table = Slots /\ fails' \in fails .. MaxFails
    BY FailAssumption DEF WalkTake, IInv, TypeOK
  <1>5. table' = [table EXCEPT ![slot] = Info(block)]
    BY DEF WalkTake
  <1>6. table'[slot].at = block /\ DOMAIN table' = Slots
    BY <1>2, <1>4, <1>5 DEF Info
  <1>7. \A k \in Slots : k # slot => table'[k] = table[k]
    BY <1>4, <1>5
  <1>8. table'[slot].at = Listed(rdb)[slot]
    BY <1>2, <1>3, <1>6
  <1>9. QED
    BY <1>1, <1>4, <1>6, <1>7, <1>8, NextSlotOK

\* What of the invariant a step within one slot leaves alone.
LEMMA SameSlot ==
  ASSUME IInv, pc = "walk", UNCHANGED <<disk, pc, b, rdb, slot, table, fails>>
  PROVE  DiskOK' /\ Found' /\ Copied' /\ Listed(rdb)' = Listed(rdb)
  <1>1. Listed(rdb)' = Listed(rdb)
    BY ListStays
  <1>2. Lost' = Lost
    BY <1>1 DEF Lost, Slots
  <1>3. \A k \in Slots : Meant(k)' <=> Meant(k)
    BY <1>1 DEF Meant
  <1>4. Copied'
    BY <1>2, <1>3 DEF IInv, Copied, Slots
  <1>5. Found'
    BY DEF IInv, Found, IsRdb
  <1>6. QED
    BY <1>1, <1>4, <1>5 DEF IInv, DiskOK

LEMMA WalkPassOK == ASSUME IInv, WalkPass PROVE IInv'
  <1>1. /\ pc = "walk" /\ UNCHANGED <<disk, pc, b, rdb, slot, table, fails>>
        /\ IsPartition(block) /\ block \in DOMAIN disk /\ Passed
        /\ part' = part - 1 /\ block' = disk[block].next /\ p' = NoBlock
    BY DEF WalkPass, IsPartition
  <1>2. /\ slot \in Slots /\ slot \in Nat /\ part \in Nat /\ Limit \in Nat
        /\ slot - part \in Slots /\ Listed(rdb)[slot - part] = block
    BY <1>1, WalkReads
  <1>3. DiskOK' /\ Found' /\ Copied' /\ Listed(rdb)' = Listed(rdb)
    BY <1>1, SameSlot
  <1>4. block' \in Block \cup {NoBlock} /\ block # NoBlock
    BY <1>1, NextType, OnDisk DEF IInv
  <1>5. part \in 1 .. Limit /\ part <= slot /\ slot < Limit
    BY <1>1, <1>2 DEF IInv, TypeOK, Walking, Passed
  <1>6. TypeOK'
    <2>1. part' \in 0 .. Limit
      BY <1>1, <1>2, <1>5
    <2>2. QED
      BY <1>1, <1>4, <2>1 DEF IInv, TypeOK, Slots
  <1>7. Walking'
    <2>1. slot' - part' = (slot - part) + 1 /\ slot' - part' # 0 /\ part' <= slot'
          /\ (slot' - part') - 1 = slot - part
      BY <1>1, <1>2, <1>5
    <2>2. Lead(rdb, slot - part)' = disk[Listed(rdb)[slot - part]].next
      BY <1>1, <1>3, <2>1 DEF Lead
    <2>3. block' = Lead(rdb, slot - part)'
      BY <1>1, <1>2, <2>2
    <2>4. Listed(rdb)'[(slot' - part') - 1] # NoBlock
      BY <1>2, <1>3, <1>4, <2>1
    <2>5. QED
      BY <1>1, <1>5, <2>1, <2>3, <2>4 DEF Walking, IInv
  <1>8. QED
    BY <1>3, <1>6, <1>7 DEF IInv

LEMMA WalkAgainOK == ASSUME IInv, WalkAgain PROVE IInv'
  <1>1. /\ pc = "walk" /\ UNCHANGED <<disk, pc, b, rdb, slot, part, block, table, fails>>
        /\ IsPartition(block) /\ block \in DOMAIN disk /\ ~disk[block].good
        /\ p' = block
    BY DEF WalkAgain, IsPartition
  <1>2. DiskOK' /\ Found' /\ Copied' /\ Listed(rdb)' = Listed(rdb)
    BY <1>1, SameSlot
  <1>3. TypeOK'
    BY <1>1 DEF IInv, TypeOK, Slots
  <1>4. Lead(rdb, slot - part)' = Lead(rdb, slot - part)
    BY <1>1, <1>2 DEF Lead
  <1>5. Walking'
    BY <1>1, <1>2, <1>4 DEF IInv, Walking, IsPartition
  <1>6. QED
    BY <1>2, <1>3, <1>5 DEF IInv

LEMMA FindPassOK == ASSUME IInv, FindPass PROVE IInv'
  <1>1. /\ pc = "find" /\ pc' = "find" /\ slot' = slot /\ rdb' = NoBlock /\ rdb = NoBlock
        /\ b \in Nat /\ b < Limit /\ b' = b + 1 /\ slot = 0 /\ p' = NoBlock
    BY LimitAssumption DEF FindPass, IInv, TypeOK, Found
  <1>2. /\ fails' \in 0 .. MaxFails
        /\ fails' = 0 => fails = 0 /\ ~IsRdb(b)
    BY FailAssumption DEF FindPass, ReadFails, IInv, TypeOK
  <1>3. b' \in 0 .. Limit
    BY <1>1, LimitAssumption
  <1>4. TypeOK'
    BY <1>2, <1>3 DEF FindPass, IInv, TypeOK, Slots
  <1>5. Found'
    <2>1. \A c \in 0 .. (b' - 1) : c \in 0 .. (b - 1) \/ c = b
      BY <1>1
    <2>2. \A c : IsRdb(c)' <=> IsRdb(c)
      BY DEF FindPass, IsRdb
    <2>3. fails' = 0 => \A c \in 0 .. (b' - 1) : ~IsRdb(c)'
      BY <1>1, <1>2, <2>1, <2>2 DEF IInv, Found
    <2>4. QED
      BY <1>1, <2>3 DEF Found, IsRdb
  <1>6. Copied' /\ Walking' /\ DiskOK'
    BY <1>1 DEF FindPass, IInv, Copied, Walking, DiskOK, Slots
  <1>7. QED
    BY <1>4, <1>5, <1>6 DEF IInv

LEMMA FindTakeOK == ASSUME IInv, FindTake PROVE IInv'
  <1>1. /\ pc = "find" /\ pc' = "walk" /\ slot = 0 /\ slot' = 0 /\ part' = 0
        /\ IsRdb(b) /\ b \in DOMAIN disk /\ rdb' = b /\ block' = disk[b].next
        /\ p' = p /\ p = NoBlock /\ UNCHANGED <<disk, b, table, fails>>
        /\ b \in 0 .. (Limit - 1) /\ Limit \in Nat /\ 0 < Limit
    BY LimitAssumption DEF FindTake, IInv, Found, IsRdb, TypeOK
  <1>2. b # NoBlock /\ b \in Nat
    BY <1>1, OnDisk DEF IInv
  <1>3. block' \in Block \cup {NoBlock}
    BY <1>1, NextType DEF IInv
  <1>4. TypeOK'
    BY <1>1, <1>3 DEF IInv, TypeOK, Slots
  <1>5. Found'
    BY <1>1, <1>2 DEF IInv, Found, IsRdb
  <1>6. \A k \in Slots : ~(k < 0) /\ k >= 0
    BY DEF Slots
  <1>7. Copied'
    <2>1. Lost' = {}
      BY <1>1, <1>6 DEF Lost, Slots
    <2>2. Cardinality(Lost') <= fails'
      BY <1>1, <2>1, FS_EmptySet, FailAssumption DEF IInv, TypeOK
    <2>3. QED
      BY <1>1, <1>6, <2>2 DEF IInv, Copied, Slots
  <1>8. Walking'
    <2>1. slot' - part' = 0 /\ ~(slot' - part' > 0) /\ slot' < Limit /\ part' <= slot'
      BY <1>1
    <2>2. Lead(rdb, 0)' = disk'[rdb'].next
      BY DEF Lead
    <2>3. QED
      BY <1>1, <2>1, <2>2 DEF Walking
  <1>9. QED
    BY <1>1, <1>4, <1>5, <1>7, <1>8 DEF IInv, DiskOK

LEMMA StepOK == IInv /\ [Next]_vars => IInv'
  <1> SUFFICES ASSUME IInv, [Next]_vars PROVE IInv'
    OBVIOUS
  <1>1. CASE FindNone
    <2>1. /\ UNCHANGED <<disk, b, rdb, slot, part, block, p, table, fails>>
          /\ pc = "find" /\ pc' = "done" /\ b = Limit /\ rdb = NoBlock /\ slot = 0
      BY <1>1 DEF FindNone, IInv, Found
    <2>2. TypeOK'
      BY <2>1 DEF IInv, TypeOK, Slots
    <2>3. Found' /\ Copied' /\ Walking' /\ DiskOK'
      BY <2>1 DEF IInv, Found, Copied, Walking, DiskOK, Slots, IsRdb
    <2>4. QED
      BY <2>2, <2>3 DEF IInv
  <1>2. CASE UNCHANGED vars
    <2>1. UNCHANGED <<disk, pc, b, rdb, slot, part, block, p, table, fails>>
      BY <1>2 DEF vars
    <2>2. TypeOK' /\ DiskOK' /\ Found'
      BY <2>1 DEF IInv, TypeOK, DiskOK, Found, Slots, IsRdb
    <2>3. Listed(rdb)' = Listed(rdb)
      BY <2>1, ListStays
    <2>4. Lost' = Lost /\ \A k \in Slots : Meant(k)' <=> Meant(k)
      BY <2>1, <2>3 DEF Lost, Meant, Slots
    <2>5. Copied'
      BY <2>1, <2>4 DEF IInv, Copied, Slots
    <2>6. Lead(rdb, slot - part)' = Lead(rdb, slot - part)
      BY <2>1, <2>3 DEF Lead
    <2>7. Walking'
      BY <2>1, <2>3, <2>6 DEF IInv, Walking, IsPartition
    <2>8. QED
      BY <2>2, <2>5, <2>7 DEF IInv
  <1>3. QED
    BY <1>1, <1>2, FindPassOK, FindTakeOK, WalkAstrayOK, WalkEndOK, WalkAgainOK,
       WalkPassOK, WalkTakeOK DEF Next

THEOREM Inductive == Spec => []IInv
  BY InitOK, StepOK, PTL DEF Spec

-----------------------------------------------------------------------------
(* What the table is.                                                      *)

\* Filling the table keeps its places and numbers in range, for every disk.
THEOREM TypeCorrect == Spec => []TypeOK
  <1>1. IInv => TypeOK
    BY DEF IInv
  <1>2. QED
    BY <1>1, Inductive, PTL

\* While no read has failed the slots filled are the list itself.
LEMMA NoneLost ==
  ASSUME IInv, rdb # NoBlock, fails = 0
  PROVE  \A k \in Slots : k < slot => table[k].at = Listed(rdb)[k]
  <1>1. IsFiniteSet(Lost) /\ Cardinality(Lost) \in Nat
    <2>1. IsFiniteSet(Slots)
      BY LimitAssumption, FS_Interval DEF Slots
    <2>2. Lost \subseteq Slots
      BY DEF Lost
    <2>3. QED
      BY <2>1, <2>2, FS_Subset, FS_CardinalityType
  <1>2. Cardinality(Lost) = 0
    BY <1>1 DEF IInv, Copied
  <1>3. Lost = {}
    BY <1>1, <1>2, FS_EmptySet
  <1>4. QED
    BY <1>3 DEF Lost

\* While all is read RdbPartitionTable_init() leaves no hole in the table,
\* whatever the list is, one in a circle or longer than the table included.
THEOREM TableHasNoHoles == Spec => []NoHoles
  <1>1. IInv => NoHoles
    <2> SUFFICES ASSUME IInv, fails = 0, NEW k \in Slots \ {0}, table[k].at # NoBlock
                 PROVE  table[k - 1].at # NoBlock
      BY DEF NoHoles
    <2>1. k - 1 \in Slots /\ k \in Slots /\ k \in Nat /\ slot \in Nat
      BY LimitAssumption DEF Slots, IInv, TypeOK
    <2>2. k < slot
      BY <2>1 DEF IInv, Copied
    <2>3. rdb # NoBlock
      <3>1. pc \in {"find", "walk", "done"}
        BY DEF IInv, TypeOK
      <3>2. ASSUME pc = "walk" PROVE rdb # NoBlock
        BY <3>2, OnDisk DEF IInv, Walking
      <3>3. QED
        BY <2>1, <2>2, <3>1, <3>2 DEF IInv, Found
    <2>4. Listed(rdb)[k] # NoBlock
      BY <2>1, <2>2, <2>3, NoneLost
    <2>5. Listed(rdb)[k - 1] # NoBlock
      BY <2>1, <2>4, ListTurn DEF IInv
    <2>6. table[k - 1].at = Listed(rdb)[k - 1]
      BY <2>1, <2>2, <2>3, NoneLost
    <2>7. QED
      BY <2>5, <2>6
  <1>2. QED
    BY <1>1, Inductive, PTL

\* When RdbPartitionTable_init() is done, slot k holds the k-th partition of
\* the list of a good RigidDiskBlock, and the slots behind its end are empty,
\* whatever the list is, but for one slot at most for each read that failed:
\* such a slot is empty or holds a partition with a bad checksum.
THEOREM TableHoldsList == Spec => []TableIsList
  <1>1. ASSUME IInv PROVE TableIsList
    <2> SUFFICES ASSUME pc = "done"
                 PROVE  IF rdb = NoBlock
                        THEN /\ fails = 0 => Rdbs = {}
                             /\ \A k \in Slots : table[k].at = NoBlock
                        ELSE /\ rdb \in Rdbs /\ (fails = 0 => \A r \in Rdbs : rdb <= r)
                             /\ \A k \in Slots : Meant(k)
                             /\ Cardinality({k \in Slots : table[k].at # Listed(rdb)[k]})
                                  <= fails
      BY DEF TableIsList
    <2>1. CASE rdb = NoBlock
      <3>1. slot = 0 /\ (fails = 0 => \A c \in 0 .. (Limit - 1) : ~IsRdb(c))
        BY <1>1, <2>1 DEF IInv, Found
      <3>2. fails = 0 => Rdbs = {}
        BY <3>1 DEF Rdbs, IsRdb
      <3>3. \A k \in Slots : table[k].at = NoBlock
        BY <1>1, <3>1 DEF IInv, Copied, Slots
      <3>4. QED
        BY <2>1, <3>2, <3>3
    <2>2. CASE rdb # NoBlock
      <3>1. slot = Limit /\ IsRdb(rdb) /\ rdb \in 0 .. (Limit - 1)
            /\ (fails = 0 => \A c \in 0 .. (rdb - 1) : ~IsRdb(c))
        BY <1>1, <2>2 DEF IInv, Found
      <3>2. rdb \in Rdbs
        BY <3>1 DEF Rdbs, IsRdb
      <3>3. fails = 0 => \A r \in Rdbs : rdb <= r
        BY <3>1, LimitAssumption DEF Rdbs, IsRdb
      <3>4. \A k \in Slots : k < slot
        BY <3>1, LimitAssumption DEF Slots
      <3>5. Lost = {k \in Slots : table[k].at # Listed(rdb)[k]}
        BY <3>4 DEF Lost
      <3>6. (\A k \in Slots : Meant(k)) /\ Cardinality(Lost) <= fails
        BY <1>1, <2>2, <3>4 DEF IInv, Copied
      <3>7. QED
        BY <2>2, <3>2, <3>3, <3>5, <3>6
    <2>3. QED
      BY <2>1, <2>2
  <1>2. QED
    BY <1>1, Inductive, PTL

-----------------------------------------------------------------------------
(* How many steps filling the table takes at most.                         *)

\* A partition with a bad checksum is only taken down in p once.
Fresh == IF p = NoBlock THEN 1 ELSE 0

\* Every block that is looked at for a slot is one partition less to be passed,
\* wherever the list leads; and the next slot has one more to pass.
Left ==
  CASE pc = "find" -> (Limit - b) + Limit * (Limit + 2) + 2
    [] pc = "walk" -> (Limit - slot) * (Limit + 2) + part + Fresh
    [] pc = "done" -> 0

LEMMA OneTurn ==
  ASSUME NEW a \in Nat, NEW c \in Nat
  PROVE  a * c \in Nat /\ (a + 1) * c = a * c + c
  OBVIOUS

\* Filling the table takes at most (Limit + 1) * (Limit + 2) steps, for
\* every list on every disk and whatever cannot be read, and no step but
\* reading a partition with a bad checksum again leaves everything as it was.
THEOREM TableIsSoonFull == Spec => [](Left \in Nat) /\ [][Left' < Left]_vars
  <1>1. ASSUME IInv PROVE Left \in Nat
    <2>1. /\ b \in 0 .. Limit /\ slot \in 0 .. Limit /\ part \in 0 .. Limit
          /\ Limit \in Nat /\ pc \in {"find", "walk", "done"}
      BY <1>1, LimitAssumption DEF IInv, TypeOK
    <2>2. /\ Limit - slot \in Nat /\ Limit + 2 \in Nat /\ Limit - b \in Nat
          /\ part \in Nat /\ Fresh \in Nat
      BY <2>1 DEF Fresh
    <2>3. (Limit - slot) * (Limit + 2) \in Nat /\ Limit * (Limit + 2) \in Nat
      BY <2>1, <2>2, OneTurn
    <2>4. /\ (Limit - b) + Limit * (Limit + 2) + 2 \in Nat
          /\ (Limit - slot) * (Limit + 2) + part + Fresh \in Nat
      BY ONLY <2>2, <2>3
    <2>5. QED
      BY <2>1, <2>4 DEF Left
  <1>2. ASSUME IInv, Next PROVE Left' < Left \/ UNCHANGED vars
    <2>1. /\ b \in Nat /\ b <= Limit /\ slot \in Nat /\ slot <= Limit /\ part \in Nat
          /\ Limit \in Nat /\ Limit * (Limit + 2) \in Nat
      <3>1. b \in 0 .. Limit /\ slot \in 0 .. Limit /\ part \in 0 .. Limit /\ Limit \in Nat
        BY <1>2, LimitAssumption DEF IInv, TypeOK
      <3>2. Limit + 2 \in Nat
        BY <3>1
      <3>3. Limit * (Limit + 2) \in Nat
        BY <3>1, <3>2, OneTurn
      <3>4. QED
        BY <3>1, <3>3
    <2>1a. PICK f \in Nat, g \in Nat : f = Fresh /\ g = Fresh' /\ f <= 1 /\ g <= 1
      BY DEF Fresh
    <2>1b. f <= 1 /\ g <= 1
      BY <2>1a
    <2>2. CASE FindPass
      <3>1. pc = "find" /\ pc' = "find" /\ b' = b + 1
        BY <2>2 DEF FindPass
      <3>2. /\ Left = (Limit - b) + Limit * (Limit + 2) + 2
            /\ Left' = (Limit - (b + 1)) + Limit * (Limit + 2) + 2
        BY <3>1 DEF Left
      <3>3. QED
        BY ONLY <2>1, <3>2
    <2>3. CASE FindTake
      <3>1. pc = "find" /\ pc' = "walk" /\ slot' = 0 /\ part' = 0
        BY <1>2, <2>3 DEF FindTake, IInv, Found
      <3>2. /\ Left = (Limit - b) + Limit * (Limit + 2) + 2
            /\ Left' = (Limit - 0) * (Limit + 2) + 0 + g
        BY <2>1a, <3>1 DEF Left
      <3>3. Limit - 0 = Limit
        BY <2>1
      <3>4. PICK q \in Nat : q = Limit * (Limit + 2)
        BY <2>1
      <3>5. Left = (Limit - b) + q + 2 /\ Left' = q + g
        BY <2>1a, <3>2, <3>3, <3>4
      <3>6. Left' < Left
        BY ONLY <2>1, <2>1b, <3>5
      <3>7. QED
        BY <3>6
    <2>4. CASE FindNone
      <3>1. pc = "find" /\ pc' = "done"
        BY <2>4 DEF FindNone
      <3>2. Left = (Limit - b) + Limit * (Limit + 2) + 2 /\ Left' = 0
        BY <3>1 DEF Left
      <3>3. QED
        BY ONLY <2>1, <3>2
    <2>5. ASSUME NEW s \in Nat, s <= Limit
          PROVE  (Limit - s) * (Limit + 2) \in Nat
      <3>1. Limit - s \in Nat /\ Limit + 2 \in Nat
        BY <2>1, <2>5
      <3>2. QED
        BY ONLY <3>1, OneTurn
    <2>6. CASE WalkPass
      <3>1. pc = "walk" /\ pc' = "walk" /\ slot' = slot /\ part' = part - 1
        BY <2>6 DEF WalkPass
      \* A partition with a good checksum is none p was left behind at.
      <3>2. f = 1
        BY <1>2, <2>1a, <2>6 DEF WalkPass, IInv, Walking, Fresh
      <3>3. /\ Left = (Limit - slot) * (Limit + 2) + part + f
            /\ Left' = (Limit - slot) * (Limit + 2) + (part - 1) + g
        BY <2>1a, <3>1 DEF Left
      <3>4. PICK q \in Nat : q = (Limit - slot) * (Limit + 2)
        BY <2>1, <2>5
      <3>5. Left = q + part + f /\ Left' = q + (part - 1) + g
        BY <3>3, <3>4
      <3>6. Left' < Left
        BY ONLY <2>1, <2>1b, <3>2, <3>5
      <3>7. QED
        BY <3>6
    <2>7. CASE WalkAgain
      <3>1. pc = "walk" /\ pc' = "walk" /\ slot' = slot /\ part' = part /\ p' = block
        BY <2>7 DEF WalkAgain
      <3>2. CASE p = NoBlock
        <4>1. block # NoBlock
          BY <1>2, <2>7, OnDisk DEF WalkAgain, IInv, IsPartition
        <4>2. f = 1 /\ g = 0
          BY <2>1a, <3>1, <3>2, <4>1 DEF Fresh
        <4>3. /\ Left = (Limit - slot) * (Limit + 2) + part + f
              /\ Left' = (Limit - slot) * (Limit + 2) + part + g
          BY <2>1a, <3>1 DEF Left
        <4>4. PICK q \in Nat : q = (Limit - slot) * (Limit + 2)
          BY <2>1, <2>5
        <4>5. Left = q + part + f /\ Left' = q + part + g
          BY <4>3, <4>4
        <4>6. Left' < Left
          BY ONLY <2>1, <4>2, <4>5
        <4>7. QED
          BY <4>6
      <3>3. CASE p # NoBlock
        <4>1. p = block
          BY <1>2, <3>1, <3>3 DEF IInv, Walking
        <4>2. UNCHANGED vars
          BY <2>7, <4>1 DEF WalkAgain, vars
        <4>3. QED
          BY <4>2
      <3>4. QED
        BY <3>2, <3>3
    <2>8. CASE WalkAstray \/ WalkEnd \/ WalkTake
      <3>1. /\ pc = "walk" /\ slot < Limit
            /\ slot' = slot + 1 /\ part' = slot + 1 /\ pc' \in {"walk", "done"}
        BY <1>2, <2>8 DEF WalkAstray, WalkEnd, WalkTake, NextSlot, IInv, Walking
      <3>2. PICK a \in Nat, c \in Nat : a = Limit - slot - 1 /\ c = Limit + 2
        BY <2>1, <3>1
      <3>3. /\ Left = (Limit - slot) * c + part + f
            /\ pc' = "walk" => Left' = (Limit - (slot + 1)) * c + (slot + 1) + g
            /\ pc' = "done" => Left' = 0
        BY <2>1a, <3>1, <3>2 DEF Left
      <3>4. Limit - slot = a + 1 /\ Limit - (slot + 1) = a
        BY <2>1, <3>2
      <3>5. /\ Left = (a + 1) * c + part + f
            /\ Left' \in {a * c + (slot + 1) + g, 0}
        BY <3>1, <3>3, <3>4
      <3>6. PICK m \in Nat : m = a * c /\ (a + 1) * c = m + c
        BY OneTurn
      <3>7. Left = m + c + part + f /\ (Left' = m + (slot + 1) + g \/ Left' = 0)
        BY <3>5, <3>6
      <3>8. Left' < Left
        BY ONLY <2>1, <2>1b, <3>1, <3>2, <3>6, <3>7
      <3>9. QED
        BY <3>8
    <2>9. QED
      BY <1>2, <2>2, <2>3, <2>4, <2>6, <2>7, <2>8 DEF Next
  <1>3. IInv /\ [Next]_vars => [Left' < Left]_vars
    BY <1>2
  <1>4. QED
    BY <1>1, <1>3, Inductive, PTL DEF Spec
=============================================================================
