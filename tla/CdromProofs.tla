---------------------------- MODULE CdromProofs ----------------------------
(***************************************************************************)
(* Theorems about Cdrom, for every set of discs and paths and every number *)
(* of loads and of reads that fail.                                        *)
(***************************************************************************)
EXTENDS Cdrom, FiniteSetTheorems, WellFoundedInduction, TLAPS

\* Before a file's first sector is read the buffer is empty, then it holds the
\* whole sectors, and at the end no more than the file: as much, if no read
\* failed.
Filling ==
  /\ pc \in {"volume", "root", "rr", "failed", "dirent", "nm", "iso", "whole"}
       => image = <<>>
  /\ pc \in {"volume", "root", "rr"} => result = 0
  /\ pc = "rest" => Len(image) = Whole * Cells /\ Rest > 0
  /\ pc = "end" => Len(image) <= size /\ (fault \/ Len(image) = size)
  /\ pc = "ready" => Len(image) <= size /\ (fault \/ Len(image) = result)

IInv == TypeOK /\ Filling /\ CacheCoherent

-----------------------------------------------------------------------------
(* Where the walk through areas and directories is.                        *)

\* Of the areas that follow `first', those not ahead of `a' have no such entry.
Scanning(d, first, a, sig) ==
  /\ a \in Areas(d, first)
  /\ \A b \in Areas(d, first) :
       b \in Areas(d, a) \/ \A x \in DOMAIN b : b[x].sig # sig

\* Records before place x of directory f end there at the latest and are not
\* what element n of the path asks for.
Looking(d, p, n, f, x) ==
  /\ f \in Meant(d, p)[n - 1]
  /\ \A y \in 0 .. (f.size - 1) :
       y < x /\ At(d, f, y).len > 0 =>
         /\ y + At(d, f, y).len <= x
         /\ ~Suits(d, p, n, At(d, f, y))

History ==
  /\ sound = {p \in Paths : Sound(disc, p)}
  /\ wanted = [p \in Paths |-> Content(disc, p)]
  /\ pc \in {"volume", "root", "rr", "failed"} => path = <<>> /\ rr = FALSE

\* What cdrom_create() finds out, unless it read something else.
Made ==
  ~suspect /\ sound # {} /\ pc \notin {"volume", "failed"} =>
    /\ voldesc = Root(disc)
    /\ pc = "rr" => /\ RootArea(disc) # <<>> /\ RootArea(disc)[1].sig = "SP"
                    /\ Scanning(disc, RootArea(disc), area, "RR")
    /\ pc \notin {"root", "rr"} => rr = RockRidge(disc)

Found == [block |-> block, size |-> size]

Walking ==
  /\ pc = "dirent" => \/ Looking(disc, path, k, Found, offset)
                      \/ offset >= size /\ wanted[path] = {}
  /\ pc \in {"nm", "iso"} =>
       /\ Looking(disc, path, k, Found, offset) /\ offset < size
       /\ dirent = At(disc, Found, offset) /\ dirent.len > 0
  /\ pc = "nm" => rr /\ Scanning(disc, dirent.sua, area, "NM")
  /\ pc = "iso" => Named(disc, dirent) = dirent.iso
  /\ pc \in {"whole", "rest", "end"} => Found \in Meant(disc, path)[Len(path)]
  /\ pc = "rest" => image = CellsOf(block, Whole * Cells)
  /\ pc = "end" => image = CellsOf(block, size)

LoadInv == IInv /\ History /\ Made /\ (Trusted => Walking)

-----------------------------------------------------------------------------
(* Places and sectors.                                                     *)

\* A number of cells is some whole sectors and less than one more.
LEMMA Division ==
  ASSUME NEW x \in Nat
  PROVE  /\ x \div Cells \in Nat /\ x % Cells \in 0 .. (Cells - 1)
         /\ x = (x \div Cells) * Cells + (x % Cells)
         /\ (x \div Cells) * Cells \in Nat
  BY BoundAssumption, SMT

\* The cells read from a sector on are as many as asked for.
LEMMA CellsType ==
  ASSUME NEW s \in Nat, NEW n \in Nat
  PROVE  CellsOf(s, n) \in Seq(Cell) /\ Len(CellsOf(s, n)) = n
  <1>1. \A x \in 1 .. n : <<s + ((x - 1) \div Cells), (x - 1) % Cells>> \in Cell
    <2>1. TAKE x \in 1 .. n
    <2>2. x - 1 \in Nat
      OBVIOUS
    <2>3. (x - 1) \div Cells \in Nat /\ (x - 1) % Cells \in 0 .. (Cells - 1)
      BY <2>2, Division
    <2>4. s + ((x - 1) \div Cells) \in Nat
      BY <2>3
    <2>5. QED
      BY <2>3, <2>4 DEF Cell
  <1>2. QED
    BY <1>1 DEF CellsOf

LEMMA PaddingType == Padding \in Record
  <1>1. (CHOOSE n \in Names : TRUE) \in Names
    BY BoundAssumption
  <1>2. Zeros \in Entry
    BY DEF Zeros, Entry
  <1>3. <<Zeros>> \in Seq(Entry)
    BY <1>2
  <1>4. QED
    BY <1>1, <1>3 DEF Padding, Record

\* Whatever a sector is, its bytes read as a record and as an area.
LEMMA RecordType ==
  ASSUME NEW d \in Discs, NEW s, NEW c \in 0 .. (Cells - 1)
  PROVE  RecordAt(d, s, c) \in Record
  <1>1. CASE Is(d, s, "dir")
    <2>1. d[s] \in Sector /\ d[s].kind = "dir"
      BY <1>1, DiscAssumption DEF Is
    <2>2. d[s] \in [kind : {"dir"}, cells : [0 .. (Cells - 1) -> Record]]
      BY <2>1 DEF Sector
    <2>3. d[s].cells[c] \in Record
      BY <2>2
    <2>4. QED
      BY <1>1, <2>3 DEF RecordAt
  <1>2. CASE ~Is(d, s, "dir")
    BY <1>2, PaddingType DEF RecordAt
  <1>3. QED
    BY <1>1, <1>2

LEMMA AreaType ==
  ASSUME NEW d \in Discs, NEW s
  PROVE  AreaAt(d, s) \in Seq(Entry)
  <1>1. CASE Is(d, s, "susp")
    <2>1. d[s] \in Sector /\ d[s].kind = "susp"
      BY <1>1, DiscAssumption DEF Is
    <2>2. d[s] \in [kind : {"susp"}, sua : Seq(Entry)]
      BY <2>1 DEF Sector
    <2>3. QED
      BY <1>1, <2>2 DEF AreaAt
  <1>2. CASE ~Is(d, s, "susp")
    <2>1. Zeros \in Entry
      BY DEF Zeros, Entry
    <2>2. <<Zeros>> \in Seq(Entry)
      BY <2>1
    <2>3. QED
      BY <1>2, <2>2 DEF AreaAt
  <1>3. QED
    BY <1>1, <1>2

LEMMA VolumeType ==
  ASSUME NEW d \in Discs, NEW s, Is(d, s, "volume")
  PROVE  d[s].block \in Nat /\ d[s].size \in Nat
  <1>1. d[s] \in Sector /\ d[s].kind = "volume"
    BY DiscAssumption DEF Is
  <1>2. d[s] \in [kind : {"volume"}, block : Nat, size : Nat]
    BY <1>1 DEF Sector
  <1>3. QED
    BY <1>2

-----------------------------------------------------------------------------
(* The cache.                                                              *)

CacheType ==
  /\ sector_in_buf \in Nat \cup {NoSector} /\ tmpbuf \in DOMAIN disc
  /\ fails \in 0 .. MaxFails /\ fault \in BOOLEAN

\* A read that ends well: bytes of another sector are noted as a fault.
LEMMA ReadKeeps ==
  ASSUME TypeOK, NEW s, Read(s), disc' = disc
  PROVE  /\ CacheType' /\ fails' = fails /\ (fault => fault')
         /\ sector_in_buf = tmpbuf => sector_in_buf' = tmpbuf'
         /\ fault' \/ sector_in_buf' = tmpbuf'
  <1>1. \A x \in DOMAIN disc : x \in Nat
    BY DiscAssumption DEF TypeOK
  <1>2. CASE Hit(s) /\ fault' = (fault \/ tmpbuf # s)
               /\ UNCHANGED <<sector_in_buf, tmpbuf, fails>>
    BY <1>2 DEF Hit, TypeOK, CacheType
  <1>3. CASE ~Hit(s) /\ s \in DOMAIN disc /\ Filled(s)
               /\ UNCHANGED <<fails, fault>>
    BY <1>1, <1>3 DEF Filled, TypeOK, CacheType
  <1>4. QED
    BY <1>2, <1>3 DEF Read

\* A read that fails: a sector that is not there leaves the cache alone.
LEMMA UnreadKeeps ==
  ASSUME TypeOK, NEW s, Unread(s)
  PROVE  /\ fails' \in 0 .. MaxFails /\ fault' = TRUE
         /\ fails' = 0 => fails = 0 /\ s \notin DOMAIN disc
  <1>1. CASE s \notin DOMAIN disc /\ UNCHANGED fails
    BY <1>1 DEF Unread, TypeOK
  <1>2. CASE s \in DOMAIN disc /\ fails < MaxFails /\ fails' = fails + 1
    BY <1>2, BoundAssumption DEF Unread, TypeOK
  <1>3. QED
    BY <1>1, <1>2 DEF Unread

LEMMA ReadFailsKeeps ==
  ASSUME TypeOK, NEW s, ReadFails(s), disc' = disc
  PROVE  /\ CacheType' /\ fault' = TRUE /\ UNCHANGED sector_in_buf
         /\ fails' = 0 => fails = 0 /\ UNCHANGED tmpbuf
  <1>1. /\ fails' \in 0 .. MaxFails /\ fault' = TRUE
        /\ fails' = 0 => fails = 0 /\ s \notin DOMAIN disc
    BY UnreadKeeps DEF ReadFails
  <1>2. tmpbuf' \in {tmpbuf} \cup ({s} \cap DOMAIN disc) /\ UNCHANGED sector_in_buf
    BY DEF ReadFails
  <1>3. QED
    BY <1>1, <1>2 DEF TypeOK, CacheType

-----------------------------------------------------------------------------
(* Every step keeps the types.                                             *)

\* A place in a directory is in a sector.
LEMMA PlaceType ==
  ASSUME TypeOK
  PROVE  /\ offset % Cells \in 0 .. (Cells - 1)
         /\ Here \in Nat /\ Skip \in Nat
  <1>1. offset \in Nat /\ block \in Nat
    BY DEF TypeOK
  <1>2. offset \div Cells \in Nat /\ offset % Cells \in 0 .. (Cells - 1)
    BY <1>1, Division
  <1>3. (offset \div Cells + 1) * Cells \in Nat
    BY <1>2, BoundAssumption
  <1>4. QED
    BY <1>1, <1>2, <1>3 DEF Here, Skip

\* A read over a sector's end that finds padding: without a fault it began in
\* the sector asked for.
LEMMA HeldType ==
  ASSUME TypeOK, AtSectorsEnd
  PROVE  Held \in DOMAIN disc /\ Here \in Nat /\ Here + 1 \in Nat
  <1>1. Here \in Nat
    BY PlaceType
  <1>2. CASE Hit(Here)
    BY <1>1, <1>2 DEF Held, TypeOK
  <1>3. CASE ~Hit(Here)
    BY <1>1, <1>3 DEF Held, AtSectorsEnd
  <1>4. QED
    BY <1>2, <1>3

LEMMA SkippedReads ==
  ASSUME TypeOK, Skipped
  PROVE  /\ CacheType' /\ fails' = fails /\ (fault => fault')
         /\ sector_in_buf = tmpbuf => sector_in_buf' = tmpbuf'
         /\ ~fault' => RecordAt(disc, Here, offset % Cells).len = 0
  <1>1. disc' = disc
    BY DEF Skipped, handle
  <1>2. CASE Read(Here) /\ RecordAt(disc, tmpbuf', offset % Cells).len = 0
    <2>1. fault' \/ tmpbuf' = Here
      <3>1. CASE Hit(Here) /\ fault' = (fault \/ tmpbuf # Here) /\ tmpbuf' = tmpbuf
        BY <3>1 DEF TypeOK
      <3>2. CASE Filled(Here)
        BY <3>2 DEF Filled
      <3>3. QED
        BY <1>2, <3>1, <3>2 DEF Read
    <2>2. QED
      BY <1>1, <1>2, <2>1, ReadKeeps
  <1>3. CASE ReadOn
    <2>1. /\ AtSectorsEnd /\ Here + 1 \in DOMAIN disc /\ Filled(Here + 1)
          /\ fault' = (fault \/ Held # Here) /\ UNCHANGED fails
      BY <1>3 DEF ReadOn
    <2>2. Held \in DOMAIN disc /\ Here \in Nat /\ Here + 1 \in Nat
      BY <2>1, HeldType
    <2>3. sector_in_buf' = Here + 1 /\ tmpbuf' = Here + 1
      BY <2>1 DEF Filled
    <2>4. fault' \in BOOLEAN /\ (fault => fault') /\ (~fault' => Held = Here)
      BY <2>1 DEF TypeOK
    <2>5. CacheType'
      BY <1>1, <2>1, <2>2, <2>3, <2>4 DEF CacheType, TypeOK
    <2>6. QED
      BY <2>1, <2>3, <2>4, <2>5 DEF AtSectorsEnd
  <1>4. QED
    BY <1>2, <1>3 DEF Skipped

LEMMA ReadOnFailsKeeps ==
  ASSUME TypeOK, ReadOnFails, disc' = disc
  PROVE  /\ CacheType' /\ (fault => fault')
         /\ fails' = 0 => /\ fails = 0
                          /\ sector_in_buf = tmpbuf => sector_in_buf' = tmpbuf'
         /\ ~fault' => /\ RecordAt(disc, Here, offset % Cells).len = 0
                       /\ offset % Cells = Cells - 1 /\ Here + 1 \notin DOMAIN disc
  <1>1. /\ Held \in DOMAIN disc /\ Here \in Nat /\ Here + 1 \in Nat
        /\ sector_in_buf' = Here /\ offset % Cells = Cells - 1
        /\ RecordAt(disc, Held, offset % Cells).len = 0
    BY HeldType DEF ReadOnFails, AtSectorsEnd
  <1>2. sector_in_buf = tmpbuf => Held = Here
    BY DEF Held, Hit
  <1>3. CASE /\ Here + 1 \notin DOMAIN disc /\ tmpbuf' = Held
             /\ fault' = (fault \/ Held # Here) /\ UNCHANGED fails
    <2>1. fault' \in BOOLEAN /\ (fault => fault') /\ (~fault' => Held = Here)
      BY <1>3 DEF TypeOK
    <2>2. CacheType'
      BY <1>1, <1>3, <2>1 DEF CacheType, TypeOK
    <2>3. QED
      BY <1>1, <1>2, <1>3, <2>1, <2>2
  <1>4. CASE /\ Here + 1 \in DOMAIN disc /\ Unread(Here + 1)
             /\ tmpbuf' \in {Held, Here + 1}
    <2>1. /\ fails' \in 0 .. MaxFails /\ fault' = TRUE /\ fails' # 0
      BY <1>4, UnreadKeeps
    <2>2. CacheType'
      BY <1>1, <1>4, <2>1 DEF CacheType, TypeOK
    <2>3. QED
      BY <2>1, <2>2
  <1>5. QED
    BY <1>3, <1>4 DEF ReadOnFails

LEMMA PathType ==
  ASSUME TypeOK, pc \in {"dirent", "nm", "iso"}
  PROVE  /\ path \in Paths /\ path \in Seq(Names) /\ Len(path) \in Nat
         /\ k \in 1 .. Len(path) /\ k - 1 \in 0 .. Len(path) /\ k - 1 < Len(path)
  <1>1. k \in DOMAIN path
    BY DEF TypeOK
  <1>2. path # <<>>
    BY <1>1
  <1>3. path \in Paths /\ path \in Seq(Names)
    BY <1>2, PathAssumption DEF TypeOK
  <1>4. QED
    BY <1>1, <1>3

LEMMA CompareType ==
  ASSUME TypeOK, pc \in {"nm", "iso"}, NEW name, Compare(name)
  PROVE  /\ {k', block', size', offset'} \subseteq Nat
         /\ pc' \in {"dirent", "whole"}
         /\ pc' = "dirent" => k' \in DOMAIN path
         /\ UNCHANGED <<handle, asked, dirent, image, result>>
  <1>1. /\ dirent.block \in Nat /\ dirent.size \in Nat /\ dirent.len \in Nat
        /\ k \in Nat /\ block \in Nat /\ size \in Nat /\ offset \in Nat
    BY DEF TypeOK, Record
  <1>2. /\ k \in 1 .. Len(path) /\ Len(path) \in Nat
        /\ DOMAIN path = 1 .. Len(path) /\ k \in DOMAIN path
    BY PathType DEF TypeOK
  <1>3. UNCHANGED <<handle, asked, dirent, image, result>>
    BY DEF Compare
  <1>4. CASE Fits(name)
    <2>1. /\ block' = dirent.block /\ size' = dirent.size /\ offset' = 0
          /\ \/ k = Len(path) /\ pc' = "whole" /\ k' = k
             \/ k # Len(path) /\ pc' = "dirent" /\ k' = k + 1
      BY <1>4 DEF Compare, AtLast
    <2>2. k # Len(path) => k + 1 \in DOMAIN path
      BY <1>2
    <2>3. k + 1 \in Nat /\ k' \in {k, k + 1}
      BY <1>1, <2>1
    <2>4. {k', block', size', offset'} \subseteq Nat
      BY <1>1, <2>1, <2>3
    <2>5. QED
      BY <1>3, <2>1, <2>2, <2>4
  <1>5. CASE ~Fits(name)
    <2>1. /\ offset' = offset + dirent.len /\ pc' = "dirent"
          /\ block' = block /\ size' = size /\ k' = k
      BY <1>5 DEF Compare
    <2>2. offset + dirent.len \in Nat
      BY <1>1
    <2>3. {k', block', size', offset'} \subseteq Nat
      BY <1>1, <2>1, <2>2
    <2>4. QED
      BY <1>2, <1>3, <2>1, <2>3
  <1>6. QED
    BY <1>4, <1>5

LEMMA TypeStep == TypeOK /\ [Next]_vars => TypeOK'
  <1> SUFFICES ASSUME TypeOK, [Next]_vars
               PROVE  TypeOK'
    OBVIOUS
  <1> USE DEF handle, cache, asked, walk
  <1>1. ASSUME CreateFails PROVE TypeOK'
    <2>1. disc' = disc
      BY <1>1 DEF CreateFails
    <2>2. CacheType'
      BY <1>1, <2>1, ReadKeeps, ReadFailsKeeps DEF CreateFails
    <2>3. QED
      BY <1>1, <2>2 DEF CreateFails, TypeOK, CacheType
  <1>2. ASSUME ReadVolume PROVE TypeOK'
    <2>1. CacheType'
      BY <1>2, ReadKeeps DEF ReadVolume
    <2>2. disc[tmpbuf'].block \in Nat /\ disc[tmpbuf'].size \in Nat
      BY <1>2, VolumeType DEF ReadVolume, TypeOK
    <2>3. QED
      BY <1>2, <2>1, <2>2 DEF ReadVolume, TypeOK, CacheType
  <1>3. ASSUME ReadRoot PROVE TypeOK'
    <2>1. CacheType'
      BY <1>3, ReadKeeps DEF ReadRoot
    <2>2. RecordAt(disc, tmpbuf', 0) \in Record
      BY RecordType, BoundAssumption DEF TypeOK
    <2>3. area' \in Seq(Entry)
      BY <1>3, <2>2 DEF ReadRoot, Record
    <2>4. QED
      BY <1>3, <2>1, <2>3 DEF ReadRoot, TypeOK, CacheType
  <1>4. ASSUME RockRidgeContinues PROVE TypeOK'
    <2>1. CacheType'
      BY <1>4, ReadKeeps DEF RockRidgeContinues, Continue
    <2>2. area' \in Seq(Entry)
      BY <1>4, AreaType DEF RockRidgeContinues, Continue, TypeOK
    <2>3. QED
      BY <1>4, <2>1, <2>2 DEF RockRidgeContinues, TypeOK, CacheType
  <1>5. ASSUME RockRidgeFound PROVE TypeOK'
    BY <1>5 DEF RockRidgeFound, TypeOK
  <1>6. ASSUME NoRockRidge PROVE TypeOK'
    <2>1. CacheType'
      BY <1>6, ReadFailsKeeps DEF NoRockRidge, ScanBreaks, TypeOK, CacheType
    <2>2. QED
      BY <1>6, <2>1 DEF NoRockRidge, TypeOK, CacheType
  <1>7. ASSUME Load PROVE TypeOK'
    <2>1. path' \in Seq(Names) \ {<<>>}
      BY <1>7, PathAssumption DEF Load
    <2>2. k' \in DOMAIN path'
      BY <1>7, <2>1 DEF Load
    <2>3. loads' \in 0 .. MaxLoads
      BY <1>7, BoundAssumption DEF Load, TypeOK
    <2>4. {k', block', size', offset', result'} \subseteq Nat
      BY <1>7 DEF Load, TypeOK
    <2>5. image' \in Seq(Cell)
      BY <1>7 DEF Load
    <2>6. {rr', fault', suspect'} \subseteq BOOLEAN
      BY <1>7, Zenon DEF Load, TypeOK
    <2>7. QED
      BY <1>7, <2>2, <2>3, <2>4, <2>5, <2>6 DEF Load, TypeOK
  <1>8. ASSUME Skipped PROVE TypeOK'
    <2>1. CacheType'
      BY <1>8, SkippedReads
    <2>2. QED
      BY <1>8, <2>1, PlaceType DEF Skipped, TypeOK, CacheType
  <1>9. ASSUME ReadDirent PROVE TypeOK'
    <2>1. CacheType'
      BY <1>9, ReadKeeps DEF ReadDirent
    <2>2. dirent' \in Record
      BY <1>9, RecordType, PlaceType DEF ReadDirent, TypeOK
    <2>3. area' \in Seq(Entry)
      BY <1>9, <2>2 DEF ReadDirent, Record
    <2>4. QED
      BY <1>9, <2>1, <2>2, <2>3 DEF ReadDirent, TypeOK, CacheType
  <1>10. ASSUME NextElement PROVE TypeOK'
    <2>1. path \in Seq(Names) /\ k \in 1 .. Len(path) /\ k # Len(path)
      <3>1. pc = "dirent" /\ k # Len(path)
        BY <1>10 DEF NextElement, AtLast
      <3>2. QED
        BY <3>1, PathType
    <2>2. k + 1 \in DOMAIN path
      BY <2>1
    <2>3. QED
      BY <1>10, <2>2 DEF NextElement, TypeOK
  <1>11. ASSUME Missing PROVE TypeOK'
    <2>1. CacheType'
      BY <1>11, ReadFailsKeeps, ReadOnFailsKeeps DEF Missing, TypeOK, CacheType
    <2>2. QED
      BY <1>11, <2>1 DEF Missing, Answer, NoFile, TypeOK, CacheType
  <1>12. ASSUME NmContinues PROVE TypeOK'
    <2>1. CacheType'
      BY <1>12, ReadKeeps DEF NmContinues, Continue
    <2>2. area' \in Seq(Entry)
      BY <1>12, AreaType DEF NmContinues, Continue, TypeOK
    <2>3. QED
      BY <1>12, <2>1, <2>2 DEF NmContinues, TypeOK, CacheType
  <1>13. ASSUME NmFound PROVE TypeOK'
    BY <1>13, CompareType DEF NmFound, TypeOK
  <1>14. ASSUME NoNm PROVE TypeOK'
    <2>1. CacheType'
      BY <1>14, ReadFailsKeeps DEF NoNm, ScanBreaks, TypeOK, CacheType
    <2>2. QED
      BY <1>14, <2>1 DEF NoNm, TypeOK, CacheType
  <1>15. ASSUME IsoName PROVE TypeOK'
    <2>1. /\ {k', block', size', offset'} \subseteq Nat
          /\ pc' \in {"dirent", "whole"}
          /\ pc' = "dirent" => k' \in DOMAIN path
          /\ UNCHANGED <<handle, asked, dirent, image, result>>
      BY <1>15, CompareType DEF IsoName
    <2>2. CacheType'
      BY <1>15, <2>1, ReadKeeps DEF IsoName
    <2>3. QED
      BY <1>15, <2>1, <2>2 DEF IsoName, TypeOK, CacheType
  <1>16. ASSUME ReadWhole PROVE TypeOK'
    <2>1. image' \in Seq(Cell)
      BY <1>16, Division, CellsType DEF ReadWhole, Whole, TypeOK
    <2>2. QED
      BY <1>16, <2>1 DEF ReadWhole, TypeOK
  <1>17. ASSUME ReadRest PROVE TypeOK'
    <2>1. CacheType'
      BY <1>17, ReadKeeps DEF ReadRest
    <2>2. tmpbuf' \in Nat
      BY <1>17, <2>1, DiscAssumption DEF ReadRest, CacheType, TypeOK
    <2>3. RestRead \in Nat
      BY Division DEF RestRead, Rest, TypeOK
    <2>4. image' \in Seq(Cell)
      BY <1>17, <2>2, <2>3, CellsType DEF ReadRest, TypeOK
    <2>5. QED
      BY <1>17, <2>1, <2>4 DEF ReadRest, TypeOK, CacheType
  <1>18. ASSUME LoadBreaks PROVE TypeOK'
    <2>1. CacheType'
      BY <1>18, UnreadKeeps, ReadFailsKeeps DEF LoadBreaks, TypeOK, CacheType
    <2>2. QED
      BY <1>18, <2>1 DEF LoadBreaks, TypeOK, CacheType
  <1>19. ASSUME LoadEnds PROVE TypeOK'
    BY <1>19 DEF LoadEnds, Answer, TypeOK
  <1>20. ASSUME Stuck \/ UNCHANGED vars PROVE TypeOK'
    <2>1. UNCHANGED vars
      BY <1>20 DEF Stuck, ScanStuck
    <2>2. QED
      BY <2>1 DEF vars, TypeOK
  <1>21. QED
    BY <1>1, <1>2, <1>3, <1>4, <1>5, <1>6, <1>7, <1>8, <1>9, <1>10, <1>11,
       <1>12, <1>13, <1>14, <1>15, <1>16, <1>17, <1>18, <1>19, <1>20 DEF Next

-----------------------------------------------------------------------------
(* Every step keeps the buffer within the file.                            *)

\* The size of a file is its whole sectors and the rest.
LEMMA SizeSplit ==
  ASSUME TypeOK
  PROVE  /\ size = Whole * Cells + Rest /\ Whole \in Nat /\ Rest \in Nat
         /\ Whole * Cells \in Nat
  <1>1. size \in Nat
    BY DEF TypeOK
  <1>2. QED
    BY <1>1, Division DEF Whole, Rest

LEMMA FillStep == TypeOK /\ Filling /\ [Next]_vars => Filling'
  <1> SUFFICES ASSUME TypeOK, Filling, [Next]_vars
               PROVE  Filling'
    OBVIOUS
  <1> USE DEF handle, cache, asked, walk
  <1>0. Len(<<>>) = 0 /\ size \in Nat /\ result \in Nat
    BY DEF TypeOK
  <1>1. ASSUME CreateFails \/ ReadVolume PROVE Filling'
    BY <1>1 DEF CreateFails, ReadVolume, Filling
  <1>2. ASSUME ReadRoot \/ RockRidgeContinues \/ RockRidgeFound \/ NoRockRidge
        PROVE  Filling'
    BY <1>0, <1>2 DEF ReadRoot, RockRidgeContinues, RockRidgeFound, NoRockRidge, Filling
  <1>3. ASSUME Load PROVE Filling'
    BY <1>3 DEF Load, Filling
  <1>4. ASSUME Skipped \/ ReadDirent \/ NextElement \/ NmContinues \/ NoNm
        PROVE  Filling'
    BY <1>4 DEF Skipped, ReadDirent, NextElement, NmContinues, NoNm, Filling
  <1>5. ASSUME Missing PROVE Filling'
    BY <1>0, <1>5 DEF Missing, Answer, NoFile, Filling
  <1>6. ASSUME NmFound \/ IsoName PROVE Filling'
    <2>1. pc \in {"nm", "iso"} /\ \E name : Compare(name)
      BY <1>6 DEF NmFound, IsoName
    <2>2. pc' \in {"dirent", "whole"} /\ image' = image
      BY <2>1, CompareType
    <2>3. QED
      BY <2>1, <2>2 DEF Filling
  <1>7. ASSUME ReadWhole PROVE Filling'
    <2>1. Len(image') = Whole * Cells
      BY <1>7, SizeSplit, CellsType DEF ReadWhole, TypeOK
    <2>2. size' = size /\ Whole' = Whole /\ Rest' = Rest
      BY <1>7 DEF ReadWhole, Whole, Rest
    <2>3. CASE Rest > 0
      BY <1>7, <2>1, <2>2, <2>3 DEF ReadWhole, Filling
    <2>4. CASE Rest = 0
      <3>1. Len(image') = size'
        BY <2>1, <2>2, <2>4, SizeSplit
      <3>2. pc' = "end"
        BY <1>7, <2>4 DEF ReadWhole
      <3>3. QED
        BY <1>0, <2>2, <3>1, <3>2 DEF Filling
    <2>5. QED
      BY <2>3, <2>4, SizeSplit
  <1>8. ASSUME ReadRest PROVE Filling'
    <2>1. tmpbuf' \in Nat
      BY <1>8, ReadKeeps, DiscAssumption DEF ReadRest, CacheType, TypeOK
    <2>2. CellsOf(tmpbuf', Rest) \in Seq(Cell) /\ Len(CellsOf(tmpbuf', Rest)) = Rest
      BY <2>1, SizeSplit, CellsType
    <2>3. Len(image') = Len(image) + Rest
      <3>1. image' = image \o CellsOf(tmpbuf', Rest)
        BY <1>8 DEF ReadRest, RestRead
      <3>2. image \in Seq(Cell)
        BY DEF TypeOK
      <3>3. QED
        BY <2>2, <3>1, <3>2
    <2>4. Len(image) = Whole * Cells
      BY <1>8 DEF ReadRest, Filling
    <2>5. Len(image') = size
      BY <2>3, <2>4, SizeSplit
    <2>6. QED
      BY <1>0, <1>8, <2>5 DEF ReadRest, Filling
  <1>9. ASSUME LoadBreaks PROVE Filling'
    <2>1. fault' = TRUE
      BY <1>9, UnreadKeeps, ReadFailsKeeps DEF LoadBreaks
    <2>2. Len(image) <= size
      <3>1. CASE pc = "whole"
        BY <1>0, <3>1 DEF Filling
      <3>2. CASE pc = "rest"
        <4>1. Len(image) = Whole * Cells
          BY <3>2 DEF Filling
        <4>2. QED
          BY <4>1, SizeSplit
      <3>3. QED
        BY <1>9, <3>1, <3>2 DEF LoadBreaks
    <2>3. QED
      BY <1>9, <2>1, <2>2 DEF LoadBreaks, Filling
  <1>10. ASSUME LoadEnds PROVE Filling'
    BY <1>10 DEF LoadEnds, Answer, Filling
  <1>11. ASSUME Stuck \/ UNCHANGED vars PROVE Filling'
    <2>1. UNCHANGED vars
      BY <1>11 DEF Stuck, ScanStuck
    <2>2. QED
      BY <2>1 DEF vars, Filling, Whole, Rest
  <1>12. QED
    BY <1>1, <1>2, <1>3, <1>4, <1>5, <1>6, <1>7, <1>8, <1>9, <1>10, <1>11 DEF Next

-----------------------------------------------------------------------------
(* Every step keeps the cache and its number together.                     *)

LEMMA CacheStep == TypeOK /\ CacheCoherent /\ [Next]_vars => CacheCoherent'
  <1> SUFFICES ASSUME TypeOK, CacheCoherent, [Next]_vars
               PROVE  CacheCoherent'
    OBVIOUS
  <1> USE DEF handle, cache, asked, walk
  <1>1. ASSUME CreateFails PROVE CacheCoherent'
    BY <1>1 DEF CreateFails, CacheCoherent
  <1>2. ASSUME ReadVolume PROVE CacheCoherent'
    <2>1. fault' \/ sector_in_buf' = tmpbuf'
      BY <1>2, ReadKeeps DEF ReadVolume
    <2>2. suspect' = fault'
      BY <1>2 DEF ReadVolume
    <2>3. QED
      BY <2>1, <2>2 DEF CacheCoherent
  <1>3. ASSUME NEW s, Read(s), disc' = disc,
               pc \notin {"volume", "failed"}, suspect => suspect'
        PROVE  CacheCoherent'
    <2>1. fails' = fails /\ (sector_in_buf = tmpbuf => sector_in_buf' = tmpbuf')
      BY <1>3, ReadKeeps
    <2>2. QED
      BY <1>3, <2>1 DEF CacheCoherent
  <1>4. ASSUME NEW s, ReadFails(s), disc' = disc,
               pc \notin {"volume", "failed"}, suspect => suspect'
        PROVE  CacheCoherent'
    <2>1. /\ UNCHANGED sector_in_buf
          /\ fails' = 0 => fails = 0 /\ UNCHANGED tmpbuf
      BY <1>4, ReadFailsKeeps
    <2>2. QED
      BY <1>4, <2>1 DEF CacheCoherent
  <1>5. ASSUME UNCHANGED <<sector_in_buf, tmpbuf, fails>>,
               pc \notin {"volume", "failed"}, suspect => suspect'
        PROVE  CacheCoherent'
    BY <1>5 DEF CacheCoherent
  <1>6. ASSUME ReadRoot \/ RockRidgeContinues PROVE CacheCoherent'
    BY <1>3, <1>6 DEF ReadRoot, RockRidgeContinues, Continue
  <1>7. ASSUME RockRidgeFound PROVE CacheCoherent'
    BY <1>5, <1>7 DEF RockRidgeFound
  <1>8. ASSUME NoRockRidge PROVE CacheCoherent'
    <2>1. CASE ScanEnds("RR") /\ UNCHANGED cache
      BY <1>5, <1>8, <2>1 DEF NoRockRidge
    <2>2. CASE ScanBreaks("RR")
      BY <1>4, <1>8, <2>2 DEF NoRockRidge, ScanBreaks
    <2>3. QED
      BY <1>8, <2>1, <2>2 DEF NoRockRidge
  <1>9. ASSUME Load \/ NextElement \/ ReadWhole \/ LoadEnds PROVE CacheCoherent'
    BY <1>5, <1>9 DEF Load, NextElement, ReadWhole, LoadEnds
  <1>10. ASSUME ReadDirent \/ NmContinues \/ ReadRest
         PROVE  CacheCoherent'
    BY <1>3, <1>10 DEF ReadDirent, NmContinues, Continue, ReadRest
  <1>10a. ASSUME Skipped PROVE CacheCoherent'
    <2>1. fails' = fails /\ (sector_in_buf = tmpbuf => sector_in_buf' = tmpbuf')
      BY <1>10a, SkippedReads
    <2>2. pc = "dirent" /\ suspect' = suspect
      BY <1>10a DEF Skipped
    <2>3. QED
      BY <2>1, <2>2 DEF CacheCoherent
  <1>11. ASSUME NmFound PROVE CacheCoherent'
    BY <1>5, <1>11, CompareType DEF NmFound
  <1>12. ASSUME IsoName PROVE CacheCoherent'
    <2>1. UNCHANGED <<handle, asked, dirent, image, result>>
      BY <1>12, CompareType DEF IsoName
    <2>2. QED
      BY <1>3, <1>12, <2>1 DEF IsoName
  <1>13. ASSUME Missing PROVE CacheCoherent'
    <2>1. CASE UNCHANGED cache
      BY <1>5, <1>13, <2>1 DEF Missing
    <2>2. CASE ReadFails(Here)
      BY <1>4, <1>13, <2>2 DEF Missing
    <2>3. CASE ReadOnFails
      <3>1. pc \in {"dirent", "iso"} /\ disc' = disc /\ suspect' = suspect
        BY <1>13 DEF Missing
      <3>2. fails' = 0 => /\ fails = 0
                          /\ sector_in_buf = tmpbuf => sector_in_buf' = tmpbuf'
        BY <2>3, <3>1, ReadOnFailsKeeps
      <3>3. QED
        BY <3>1, <3>2 DEF CacheCoherent
    <2>4. QED
      BY <1>13, <2>1, <2>2, <2>3 DEF Missing
  <1>14. ASSUME NoNm PROVE CacheCoherent'
    <2>1. CASE UNCHANGED cache
      BY <1>5, <1>14, <2>1 DEF NoNm
    <2>2. CASE ScanBreaks("NM")
      BY <1>4, <1>14, <2>2 DEF NoNm, ScanBreaks
    <2>3. QED
      BY <1>14, <2>1, <2>2 DEF NoNm
  <1>15. ASSUME LoadBreaks PROVE CacheCoherent'
    <2>1. CASE pc = "rest" /\ ReadFails(block + Whole)
      BY <1>4, <1>15, <2>1 DEF LoadBreaks
    <2>2. CASE \E s : Unread(s) /\ UNCHANGED <<sector_in_buf, tmpbuf>>
      <3>1. fails' = 0 => fails = 0
        BY <2>2, UnreadKeeps
      <3>2. QED
        BY <1>15, <2>2, <3>1 DEF LoadBreaks, CacheCoherent
    <2>3. QED
      BY <1>15, <2>1, <2>2 DEF LoadBreaks
  <1>16. ASSUME Stuck \/ UNCHANGED vars PROVE CacheCoherent'
    <2>1. UNCHANGED vars
      BY <1>16 DEF Stuck, ScanStuck
    <2>2. QED
      BY <2>1 DEF vars, CacheCoherent
  <1>17. QED
    BY <1>1, <1>2, <1>6, <1>7, <1>8, <1>9, <1>10, <1>10a, <1>11, <1>12, <1>13, <1>14,
       <1>15, <1>16 DEF Next

-----------------------------------------------------------------------------
(* The theorems.                                                           *)

LEMMA Initially == Init => IInv
  <1> SUFFICES ASSUME Init
               PROVE  IInv
    OBVIOUS
  <1>1. TypeOK
    <2>1. {rr, fault, suspect} \subseteq BOOLEAN
      BY Zenon DEF Init
    <2>2. /\ dirent \in Record /\ area \in Seq(Entry) /\ image \in Seq(Cell)
          /\ {k, block, size, offset, result} \subseteq Nat
      BY PaddingType DEF Init
    <2>3. /\ loads \in 0 .. MaxLoads /\ fails \in 0 .. MaxFails
          /\ sector_in_buf \in Nat \cup {NoSector} /\ tmpbuf \in DOMAIN disc
          /\ voldesc \in [block : Nat, size : Nat]
      BY BoundAssumption DEF Init, VolumeSector
    <2>4. QED
      BY <2>1, <2>2, <2>3 DEF Init, TypeOK
  <1>2. Filling
    BY DEF Init, Filling
  <1>3. CacheCoherent
    BY DEF Init, CacheCoherent
  <1>4. QED
    BY <1>1, <1>2, <1>3 DEF IInv

\* The three parts hold together in every state.
LEMMA Invariance == Spec => []IInv
  <1>1. IInv /\ [Next]_vars => IInv'
    BY TypeStep, FillStep, CacheStep DEF IInv
  <1>2. QED
    BY <1>1, Initially, PTL DEF Spec

\* Type correctness for every set of discs and paths: the walk never looks for
\* an element behind the last one of the path.
THEOREM TypeCorrect == Spec => []TypeOK
  <1>1. IInv => TypeOK
    BY DEF IInv
  <1>2. QED
    BY <1>1, Invariance, PTL

\* cdrom_read(): the sector in the buffer is the one sector_in_buf names, for
\* every sequence of loads and of sectors that are not there.
THEOREM CacheIsCoherent == Spec => []CacheCoherent
  <1>1. IInv => CacheCoherent
    BY DEF IInv
  <1>2. QED
    BY <1>1, Invariance, PTL

\* fs_cdrom_load_file(): never more in the caller's buffer than the file's
\* size, and as much as is answered unless a read failed.
THEOREM BufferIsBounded == Spec => []NeverBeyond
  <1>1. IInv => NeverBeyond
    <2> SUFFICES ASSUME IInv
                 PROVE  NeverBeyond
      OBVIOUS
    <2>1. TypeOK /\ Filling /\ Len(<<>>) = 0 /\ size \in Nat
      BY DEF IInv, TypeOK
    <2>2. Len(image) <= size
      <3>1. CASE pc = "rest"
        <4>1. Len(image) = Whole * Cells
          BY <2>1, <3>1 DEF Filling
        <4>2. QED
          BY <2>1, <4>1, SizeSplit
      <3>2. CASE pc \in {"end", "ready"}
        BY <2>1, <3>2 DEF Filling
      <3>3. CASE pc \notin {"rest", "end", "ready"}
        BY <2>1, <3>3 DEF Filling, TypeOK
      <3>4. QED
        BY <3>1, <3>2, <3>3
    <2>3. QED
      BY <2>1, <2>2 DEF Filling, NeverBeyond
  <1>2. QED
    BY <1>1, Invariance, PTL

-----------------------------------------------------------------------------
(* Numbers.                                                                *)

\* A set of natural numbers has a least one.
LEMMA LeastExists ==
  ASSUME NEW S \in SUBSET Nat, S # {}
  PROVE  Least(S) \in S /\ \A y \in S : Least(S) <= y
  <1> DEFINE R == OpToRel(<, Nat)
  <1>1. IsWellFoundedOn(R, Nat)
    BY NatLessThanWellFounded
  <1>2. \A x, y \in Nat : x < y => <<x, y>> \in R
    BY DEF OpToRel
  <1>3. S \subseteq Nat
    OBVIOUS
  <1> HIDE DEF R
  <1>4. PICK x \in S : \A y \in S : ~(<<y, x>> \in R)
    BY <1>1, <1>3, WFMin
  <1>5. \A y \in S : x \in Nat /\ y \in Nat /\ ~(y < x)
    BY <1>2, <1>3, <1>4
  <1>6. \A y \in S : x <= y
    BY <1>5
  <1>7. QED
    BY <1>6 DEF Least

\* From 0 on, one after the other, every natural number is reached.
LEMMA Counting ==
  ASSUME NEW S, 0 \in S, \A n \in Nat : n \in S => n + 1 \in S
  PROVE  Nat \subseteq S
  <1> DEFINE T == Nat \ S
  <1>1. SUFFICES ASSUME T # {} PROVE FALSE
    OBVIOUS
  <1>2. T \in SUBSET Nat
    OBVIOUS
  <1>3. Least(T) \in T /\ \A y \in T : Least(T) <= y
    BY <1>1, <1>2, LeastExists
  <1>4. PICK x : x = Least(T)
    OBVIOUS
  <1>5. x \in Nat /\ x \notin S /\ x # 0 /\ \A y \in T : x <= y
    BY <1>3, <1>4
  <1>6. x - 1 \in Nat /\ x - 1 \in T /\ x - 1 + 1 = x
    BY <1>5
  <1>7. QED
    BY <1>5, <1>6

-----------------------------------------------------------------------------
(* Areas and what they are continued in.                                   *)

\* All that some area of the disc, or this one, is continued in.
Linked(d, a) == To(a) \cup UNION {To(AreaAt(d, s)) : s \in DOMAIN d}

\* A sector that is not there, or holds no area, continues nothing.
LEMMA LinksOfSectors ==
  ASSUME NEW d, NEW s, NEW a
  PROVE  To(AreaAt(d, s)) \subseteq Linked(d, a)
  <1>1. CASE s \in DOMAIN d
    BY <1>1 DEF Linked
  <1>2. CASE s \notin DOMAIN d
    <2>1. AreaAt(d, s) = <<Zeros>>
      BY <1>2 DEF AreaAt, Is
    <2>2. ToSet(<<Zeros>>) = {Zeros} /\ Zeros.sig # "CE"
      BY DEF ToSet, Zeros
    <2>3. To(AreaAt(d, s)) = {}
      BY <2>1, <2>2 DEF To
    <2>4. QED
      BY <2>3
  <1>3. QED
    BY <1>1, <1>2

\* The continuations of an area are closed under links.
LEMMA ContinuedClosed ==
  ASSUME NEW d, NEW a
  PROVE  To(a) \subseteq Continued(d, a) /\ Closed(d, Continued(d, a))
  <1> DEFINE All == Linked(d, a)
  <1>1. Continued(d, a) =
          {s \in All : \A C \in SUBSET All :
                         To(a) \subseteq C /\ Closed(d, C) => s \in C}
    BY DEF Continued, Linked
  <1>2. To(a) \subseteq All
    BY DEF Linked
  <1>3. ASSUME NEW s \in Continued(d, a), NEW t \in To(AreaAt(d, s))
        PROVE  t \in Continued(d, a)
    <2>1. t \in All
      BY <1>3, LinksOfSectors
    <2>2. ASSUME NEW C \in SUBSET All, To(a) \subseteq C, Closed(d, C)
          PROVE  t \in C
      BY <1>1, <1>3, <2>2 DEF Closed
    <2> HIDE DEF All
    <2>3. QED
      BY <1>1, <2>1, <2>2
  <1> HIDE DEF All
  <1>4. To(a) \subseteq Continued(d, a)
    BY <1>1, <1>2
  <1>5. QED
    BY <1>3, <1>4 DEF Closed

\* They are the least set that is.
LEMMA ContinuedLeast ==
  ASSUME NEW d, NEW a, NEW C, To(a) \subseteq C, Closed(d, C)
  PROVE  Continued(d, a) \subseteq C
  <1> DEFINE All == Linked(d, a)
  <1>1. Continued(d, a) =
          {s \in All : \A D \in SUBSET All :
                         To(a) \subseteq D /\ Closed(d, D) => s \in D}
    BY DEF Continued, Linked
  <1>2. To(a) \subseteq C \cap All
    BY DEF Linked
  <1>3. Closed(d, C \cap All)
    BY LinksOfSectors DEF Closed
  <1> HIDE DEF All
  <1>4. QED
    BY <1>1, <1>2, <1>3

\* An area with one continuation, and one with none.
LEMMA AreasTurn ==
  ASSUME NEW d, NEW a
  PROVE  /\ To(a) = {} => Areas(d, a) = {a}
         /\ \A t : To(a) = {t} =>
              Areas(d, a) \subseteq {a} \cup Areas(d, AreaAt(d, t))
         /\ \A first : a \in Areas(d, first) =>
              \A t \in To(a) : AreaAt(d, t) \in Areas(d, first)
  <1>1. ASSUME To(a) = {} PROVE Areas(d, a) = {a}
    <2>1. Closed(d, {})
      BY DEF Closed
    <2>2. Continued(d, a) = {}
      BY <1>1, <2>1, ContinuedLeast
    <2>3. QED
      BY <2>2 DEF Areas
  <1>2. ASSUME NEW t, To(a) = {t}
        PROVE  Areas(d, a) \subseteq {a} \cup Areas(d, AreaAt(d, t))
    <2> DEFINE C == {t} \cup Continued(d, AreaAt(d, t))
    <2>1. To(AreaAt(d, t)) \subseteq Continued(d, AreaAt(d, t))
          /\ Closed(d, Continued(d, AreaAt(d, t)))
      BY ContinuedClosed
    <2>2. Closed(d, C) /\ To(a) \subseteq C
      BY <1>2, <2>1 DEF Closed
    <2>3. Continued(d, a) \subseteq C
      BY <2>2, ContinuedLeast
    <2>4. QED
      BY <2>3 DEF Areas
  <1>3. ASSUME NEW first, a \in Areas(d, first), NEW t \in To(a)
        PROVE  AreaAt(d, t) \in Areas(d, first)
    <2>1. To(first) \subseteq Continued(d, first) /\ Closed(d, Continued(d, first))
      BY ContinuedClosed
    <2>2. t \in Continued(d, first)
      BY <1>3, <2>1 DEF Areas, Closed
    <2>3. QED
      BY <2>2 DEF Areas
  <1>4. QED
    BY <1>1, <1>2, <1>3

\* The entry a loop over an area stops at is the first of those it stops for.
LEMMA StopIs ==
  ASSUME TypeOK, NEW sigs
  PROVE  /\ Stop(sigs) = 0 => \A x \in DOMAIN area : area[x].sig \notin sigs
         /\ Stop(sigs) # 0 =>
              /\ Stop(sigs) \in DOMAIN area /\ area[Stop(sigs)].sig \in sigs
              /\ \A x \in DOMAIN area :
                   area[x].sig \in sigs => Stop(sigs) <= x
  <1> DEFINE X == {y \in DOMAIN area : area[y].sig \in sigs}
  <1>1. DOMAIN area = 1 .. Len(area) /\ Len(area) \in Nat
    BY DEF TypeOK
  <1>2. X \in SUBSET Nat /\ \A x \in X : x # 0
    BY <1>1
  <1>3. Stop(sigs) = IF X = {} THEN 0 ELSE Least(X)
    BY DEF Stop
  <1>4. CASE X = {}
    BY <1>3, <1>4
  <1>5. CASE X # {}
    <2>1. Least(X) \in X /\ \A y \in X : Least(X) <= y
      BY <1>2, <1>5, LeastExists
    <2>2. Stop(sigs) \in X /\ \A y \in X : Stop(sigs) <= y
      BY <1>3, <1>5, <2>1
    <2>3. QED
      BY <1>2, <2>2
  <1>6. QED
    BY <1>4, <1>5

\* At a continuation or an end the area at hand has no such entry, and of an
\* area that is sound it was the last one.
LEMMA ScanPasses ==
  ASSUME TypeOK, NEW sig, sig \notin {"CE", "ST", "zero"}, NEW first,
         AreaSound(disc, first), area \in Areas(disc, first),
         ~StopsAt(sig, sig)
  PROVE  /\ \A x \in DOMAIN area : area[x].sig # sig
         /\ StopsAt(sig, "CE") => To(area) = {area[StopFor(sig)].to}
         /\ ~StopsAt(sig, "CE") => To(area) = {}
  <1> DEFINE z == StopFor(sig)
             sigs == {sig, "CE", "ST", "zero"}
  <1>1. /\ \A x \in DOMAIN area : area[x].sig # "zero"
        /\ \A x \in DOMAIN area : area[x].sig \in {"CE", "ST"} => x = Len(area)
    BY DEF AreaSound
  <1>2. /\ z = 0 => \A x \in DOMAIN area : area[x].sig \notin sigs
        /\ z # 0 => /\ z \in DOMAIN area /\ area[z].sig \in sigs
                    /\ \A x \in DOMAIN area : area[x].sig \in sigs => z <= x
    BY StopIs DEF StopFor
  <1>3. DOMAIN area = 1 .. Len(area) /\ Len(area) \in Nat
    BY DEF TypeOK
  <1>4. StopsAt(sig, "CE") <=> z # 0 /\ area[z].sig = "CE"
    BY DEF StopsAt
  <1>5. z # 0 => area[z].sig # sig
    BY DEF StopsAt
  <1> HIDE DEF z
  <1>6. \A x \in DOMAIN area : area[x].sig \in sigs => z # 0 /\ x = z
    <2>1. TAKE x \in DOMAIN area
    <2>2. HAVE area[x].sig \in sigs
    <2>3. z # 0 /\ z \in DOMAIN area /\ area[z].sig \in {"CE", "ST"} /\ z <= x
      BY <1>1, <1>2, <1>5, <2>2
    <2>4. z = Len(area)
      BY <1>1, <2>3
    <2>5. QED
      BY <1>3, <2>3, <2>4
  <1>7. \A x \in DOMAIN area : area[x].sig # sig
    BY <1>5, <1>6
  <1>8. To(area) = {area[x].to : x \in {y \in DOMAIN area : area[y].sig = "CE"}}
    BY DEF To, ToSet
  <1>9. CASE StopsAt(sig, "CE")
    <2>1. {y \in DOMAIN area : area[y].sig = "CE"} = {z}
      BY <1>2, <1>4, <1>6, <1>9
    <2>2. To(area) = {area[z].to}
      BY <1>8, <2>1
    <2>3. QED
      BY <1>7, <1>9, <2>2 DEF z
  <1>10. CASE ~StopsAt(sig, "CE")
    <2>1. \A x \in DOMAIN area : area[x].sig # "CE"
      BY <1>4, <1>6, <1>10
    <2>2. To(area) = {}
      BY <1>8, <2>1
    <2>3. QED
      BY <1>7, <1>10, <2>2
  <1>11. QED
    BY <1>9, <1>10

\* The walk goes on in the next area.
LEMMA ScanGoesOn ==
  ASSUME TypeOK, NEW sig, sig \notin {"CE", "ST", "zero"}, NEW first,
         AreaSound(disc, first), Scanning(disc, first, area, sig),
         StopsAt(sig, "CE")
  PROVE  Scanning(disc, first, AreaAt(disc, area[StopFor(sig)].to), sig)
  <1> DEFINE t == area[StopFor(sig)].to
  <1>1. area \in Areas(disc, first) /\ ~StopsAt(sig, sig)
    BY DEF Scanning, StopsAt
  <1>2. To(area) = {t} /\ \A x \in DOMAIN area : area[x].sig # sig
    BY <1>1, ScanPasses
  <1> HIDE DEF t
  <1>3. Areas(disc, area) \subseteq {area} \cup Areas(disc, AreaAt(disc, t))
    BY <1>2, AreasTurn
  <1>4. AreaAt(disc, t) \in Areas(disc, first)
    BY <1>1, <1>2, AreasTurn
  <1>5. Scanning(disc, first, AreaAt(disc, t), sig)
    BY <1>2, <1>3, <1>4 DEF Scanning
  <1>6. QED
    BY <1>5 DEF t

\* When it ends there is no such entry in any of the areas.
LEMMA ScanIsOver ==
  ASSUME TypeOK, NEW sig, sig \notin {"CE", "ST", "zero"}, NEW first,
         AreaSound(disc, first), Scanning(disc, first, area, sig), ScanEnds(sig)
  PROVE  \A e \in Entries(disc, first) : e.sig # sig
  <1>1. area \in Areas(disc, first) /\ ~StopsAt(sig, sig) /\ ~StopsAt(sig, "CE")
    BY DEF Scanning, ScanEnds, StopsAt
  <1>2. To(area) = {} /\ \A x \in DOMAIN area : area[x].sig # sig
    BY <1>1, ScanPasses
  <1>3. Areas(disc, area) = {area}
    BY <1>2, AreasTurn
  <1>4. \A a \in Areas(disc, first) : \A x \in DOMAIN a : a[x].sig # sig
    BY <1>2, <1>3 DEF Scanning
  <1>5. QED
    BY <1>4 DEF Entries, ToSet

\* The entry it finds is one of theirs.
LEMMA ScanHasFound ==
  ASSUME TypeOK, NEW sig, NEW first, Scanning(disc, first, area, sig), ScanFinds(sig)
  PROVE  /\ area[StopFor(sig)] \in Entries(disc, first)
         /\ area[StopFor(sig)].sig = sig
  <1>1. StopFor(sig) \in DOMAIN area /\ area[StopFor(sig)].sig = sig
    BY StopIs DEF StopFor, ScanFinds, StopsAt
  <1>2. area \in Areas(disc, first)
    BY DEF Scanning
  <1>3. area[StopFor(sig)] \in ToSet(area)
    BY <1>1 DEF ToSet
  <1>4. QED
    BY <1>1, <1>2, <1>3 DEF Entries

LEMMA ScanBegins ==
  ASSUME NEW d, NEW first, NEW sig
  PROVE  Scanning(d, first, first, sig)
  BY DEF Scanning, Areas

-----------------------------------------------------------------------------
(* Directories.                                                            *)

\* What an element stands for, by the directories F of the one before.
Turn(d, p, n, F) == UNION {Inside(d, p, n, f) : f \in F}

MeantTo(d, p, m, f) ==
  f = [n \in 0 .. m |-> IF n = 0 THEN {Root(d)} ELSE Turn(d, p, n, f[n - 1])]

LEMMA MeantExists ==
  ASSUME NEW d, NEW p, NEW m \in Nat
  PROVE  \E f : MeantTo(d, p, m, f)
  <1> DEFINE T == {n \in Nat : \E f : MeantTo(d, p, n, f)}
  <1>1. 0 \in T
    <2> DEFINE f == [n \in 0 .. 0 |-> {Root(d)}]
    <2>1. f = [n \in 0 .. 0 |-> IF n = 0 THEN {Root(d)} ELSE Turn(d, p, n, f[n - 1])]
      OBVIOUS
    <2>2. QED
      BY <2>1 DEF MeantTo
  <1>2. ASSUME NEW n \in Nat, n \in T PROVE n + 1 \in T
    <2>1. PICK f : MeantTo(d, p, n, f)
      BY <1>2
    <2> DEFINE q == [j \in 0 .. (n + 1) |-> IF j <= n THEN f[j] ELSE Turn(d, p, j, f[n])]
    <2>2. ASSUME NEW j \in 0 .. (n + 1)
          PROVE  q[j] = IF j = 0 THEN {Root(d)} ELSE Turn(d, p, j, q[j - 1])
      <3>1. CASE j = 0
        BY <2>1, <3>1 DEF MeantTo
      <3>2. CASE j # 0 /\ j <= n
        <4>1. j - 1 \in 0 .. n /\ j \in 0 .. n /\ j - 1 \in 0 .. (n + 1) /\ j - 1 <= n
          BY <3>2
        <4>2. f[j] = Turn(d, p, j, f[j - 1])
          BY <2>1, <3>2, <4>1 DEF MeantTo
        <4>3. q[j] = f[j] /\ q[j - 1] = f[j - 1]
          BY <3>2, <4>1
        <4> HIDE DEF q
        <4>4. QED
          BY <3>2, <4>2, <4>3
      <3>3. CASE j = n + 1
        <4>1. j - 1 = n /\ n \in 0 .. (n + 1) /\ n <= n /\ ~(j <= n) /\ j # 0
          BY <3>3
        <4>2. q[n] = f[n] /\ q[j] = Turn(d, p, j, f[n])
          BY <4>1
        <4> HIDE DEF q
        <4>3. QED
          BY <4>1, <4>2
      <3>4. QED
        BY <3>1, <3>2, <3>3
    <2>3. q = [j \in 0 .. (n + 1) |-> q[j]]
      OBVIOUS
    <2> HIDE DEF q
    <2>4. MeantTo(d, p, n + 1, q)
      BY <2>2, <2>3 DEF MeantTo
    <2>5. QED
      BY <2>4
  <1> HIDE DEF T
  <1>3. m \in T
    BY <1>1, <1>2, Counting
  <1>4. QED
    BY <1>3 DEF T

\* Each element of the path, by the directories the one before stands for.
LEMMA MeantTurn ==
  ASSUME NEW d, NEW p, Len(p) \in Nat
  PROVE  /\ Meant(d, p)[0] = {Root(d)}
         /\ \A n \in 1 .. Len(p) : Meant(d, p)[n] = Turn(d, p, n, Meant(d, p)[n - 1])
  <1>1. PICK q : MeantTo(d, p, Len(p), q)
    BY MeantExists
  <1>2. Meant(d, p) = CHOOSE f : MeantTo(d, p, Len(p), f)
    BY DEF Meant, MeantTo, Turn
  <1>3. MeantTo(d, p, Len(p), Meant(d, p))
    BY <1>1, <1>2
  <1>4. PICK f : f = Meant(d, p)
    OBVIOUS
  <1>5. \A n \in 0 .. Len(p) :
          f[n] = IF n = 0 THEN {Root(d)} ELSE Turn(d, p, n, f[n - 1])
    BY <1>3, <1>4 DEF MeantTo
  <1>6. f[0] = {Root(d)}
    <2>1. 0 \in 0 .. Len(p)
      OBVIOUS
    <2>2. QED
      BY <1>5, <2>1
  <1>7. ASSUME NEW n \in 1 .. Len(p)
        PROVE  f[n] = Turn(d, p, n, f[n - 1])
    <2>1. n \in 0 .. Len(p) /\ n # 0
      OBVIOUS
    <2>2. QED
      BY <1>5, <2>1
  <1>8. QED
    BY <1>4, <1>6, <1>7

\* Past an element that stands for nothing the others do too.
LEMMA NothingMeant ==
  ASSUME NEW d, NEW p, Len(p) \in Nat, NEW n \in 0 .. Len(p), Meant(d, p)[n] = {}
  PROVE  Meant(d, p)[Len(p)] = {}
  <1> DEFINE T == {j \in Nat : n + j <= Len(p) => Meant(d, p)[n + j] = {}}
  <1>1. 0 \in T
    OBVIOUS
  <1>2. ASSUME NEW j \in Nat, j \in T PROVE j + 1 \in T
    <2>1. SUFFICES ASSUME n + (j + 1) <= Len(p)
                   PROVE  Meant(d, p)[n + (j + 1)] = {}
      OBVIOUS
    <2>2. Meant(d, p)[n + j] = {}
      BY <1>2, <2>1
    <2>3. PICK y \in 1 .. Len(p) : y = n + (j + 1) /\ y - 1 = n + j
      BY <2>1
    <2>4. Meant(d, p)[y] = Turn(d, p, y, Meant(d, p)[y - 1])
      BY MeantTurn
    <2>5. QED
      BY <2>2, <2>3, <2>4 DEF Turn
  <1> HIDE DEF T
  <1>3. Len(p) - n \in T
    BY <1>1, <1>2, Counting
  <1>4. n + (Len(p) - n) = Len(p)
    OBVIOUS
  <1>5. QED
    BY <1>3, <1>4 DEF T

\* What is read at any place is a record.
LEMMA AtType ==
  ASSUME TypeOK, NEW f, NEW x \in Nat
  PROVE  At(disc, f, x) \in Record /\ At(disc, f, x).len \in Nat
  <1>1. x % Cells \in 0 .. (Cells - 1)
    BY Division
  <1>2. At(disc, f, x) \in Record
    BY <1>1, RecordType DEF At, TypeOK
  <1>3. QED
    BY <1>2 DEF Record

\* Between the end of a sector's records and the next sector there is none.
LEMMA SkipsNone ==
  ASSUME TypeOK, DirectorySound(disc, Found), offset < size,
         Looking(disc, path, k, Found, offset), At(disc, Found, offset).len = 0
  PROVE  Looking(disc, path, k, Found, Skip)
  <1>1. offset \in Nat /\ size \in Nat /\ Found.size = size /\ Cells \in Nat \ {0}
    BY BoundAssumption DEF TypeOK, Found
  <1> DEFINE q == offset \div Cells
             len(x) == At(disc, Found, x).len
             S == {y \in 0 .. (size - 1) : offset <= y /\ y < Skip /\ len(y) > 0}
  <1>2. q \in Nat /\ offset >= q * Cells /\ Skip = (q + 1) * Cells
        /\ Skip \in Nat /\ Skip = q * Cells + Cells /\ q * Cells \in Nat
        /\ offset <= Skip
    <2>1. /\ q \in Nat /\ q * Cells \in Nat /\ offset % Cells \in 0 .. (Cells - 1)
          /\ offset = q * Cells + (offset % Cells)
      BY <1>1, Division
    <2>2. (q + 1) * Cells = q * Cells + Cells
      BY <1>1, <2>1
    <2>3. Skip = (q + 1) * Cells
      BY DEF Skip
    <2> HIDE DEF q
    <2>4. QED
      BY <1>1, <2>1, <2>2, <2>3
  <1> HIDE DEF q
  <1>3. \A y \in Nat : len(y) \in Nat
    BY AtType
  <1>4. S = {}
    <2>1. SUFFICES ASSUME S # {} PROVE FALSE
      OBVIOUS
    <2>2. S \in SUBSET Nat
      BY <1>1
    <2>3. PICK m : m = Least(S)
      OBVIOUS
    <2>4. m \in S /\ \A y \in S : m <= y
      BY <2>1, <2>2, <2>3, LeastExists
    <2>5. /\ m \in 0 .. (size - 1) /\ m \in Nat /\ offset < m /\ m < Skip /\ len(m) > 0
      <3>1. m # offset
        BY <2>4
      <3>2. QED
        BY <1>1, <2>4, <3>1
    <2>6. m % Cells > 0
      <3>1. SUFFICES ASSUME m % Cells = 0 PROVE FALSE
        <4>1. m % Cells \in 0 .. (Cells - 1)
          BY <2>5, Division
        <4>2. QED
          BY <1>1, <4>1
      <3>2. m = (m \div Cells) * Cells /\ m \div Cells \in Nat
        BY <1>1, <2>5, <3>1, Division
      <3>3. PICK j \in Nat : j = m \div Cells
        BY <3>2
      <3>4. j * Cells > q * Cells /\ j * Cells < (q + 1) * Cells
        BY <1>1, <1>2, <2>5, <3>2, <3>3
      <3>5. j > q /\ j < q + 1
        BY <1>1, <1>2, <3>4
      <3>6. QED
        BY <1>2, <3>5
    <2>7. PICK y \in 0 .. (m - 1) : len(y) > 0 /\ y + len(y) = m
      BY <1>1, <2>5, <2>6 DEF DirectorySound
    <2>8. y \in Nat /\ y < m /\ y \in 0 .. (size - 1)
      BY <1>1, <2>5
    <2>9. CASE y < offset
      BY <1>1, <1>3, <2>5, <2>7, <2>8, <2>9 DEF Looking
    <2>10. CASE y >= offset
      BY <1>1, <1>2, <2>4, <2>5, <2>7, <2>8, <2>10
    <2>11. QED
      BY <1>1, <2>8, <2>9, <2>10
  <1>5. ASSUME NEW y \in 0 .. (Found.size - 1), y < Skip, len(y) > 0
        PROVE  y + len(y) <= Skip /\ ~Suits(disc, path, k, At(disc, Found, y))
    <2>1. y < offset
      BY <1>1, <1>4, <1>5
    <2>2. /\ y + len(y) <= offset
          /\ ~Suits(disc, path, k, At(disc, Found, y))
      BY <1>5, <2>1 DEF Looking
    <2>3. y \in Nat /\ len(y) \in Nat
      BY <1>1, <1>3
    <2>4. QED
      BY <1>1, <1>2, <2>2, <2>3
  <1>6. QED
    BY <1>5 DEF Looking

\* From a record that does not suit to the place behind it.
LEMMA PassesOne ==
  ASSUME TypeOK, DirectorySound(disc, Found), offset < size,
         Looking(disc, path, k, Found, offset), At(disc, Found, offset).len > 0,
         ~Suits(disc, path, k, At(disc, Found, offset))
  PROVE  Looking(disc, path, k, Found, offset + At(disc, Found, offset).len)
  <1>1. offset \in Nat /\ size \in Nat /\ Found.size = size
    BY DEF TypeOK, Found
  <1> DEFINE len(x) == At(disc, Found, x).len
             z == offset + len(offset)
  <1>2. \A y \in Nat : len(y) \in Nat
    BY AtType
  <1>3. \A y \in (offset + 1) .. (offset + len(offset) - 1) : len(y) = 0
    <2>1. offset \in 0 .. (Found.size - 1)
      BY <1>1
    <2>2. QED
      BY <2>1 DEF DirectorySound
  <1>4. ASSUME NEW y \in 0 .. (Found.size - 1), y < z, len(y) > 0
        PROVE  y + len(y) <= z /\ ~Suits(disc, path, k, At(disc, Found, y))
    <2>1. y \in Nat /\ len(y) \in Nat /\ len(offset) \in Nat
      BY <1>1, <1>2
    <2>2. CASE y < offset
      <3>1. /\ y + len(y) <= offset
            /\ ~Suits(disc, path, k, At(disc, Found, y))
        BY <1>4, <2>2 DEF Looking
      <3>2. QED
        BY <1>1, <2>1, <3>1
    <2>3. CASE y = offset
      BY <1>1, <2>1, <2>3
    <2>4. CASE y > offset
      <3>1. y \in (offset + 1) .. (offset + len(offset) - 1)
        BY <1>1, <1>4, <2>1, <2>4
      <3>2. QED
        BY <1>3, <1>4, <3>1
    <2>5. QED
      BY <1>1, <2>1, <2>2, <2>3, <2>4
  <1>5. QED
    BY <1>4 DEF Looking

\* At the end of a directory without it the element stands for nothing.
LEMMA NoneThere ==
  ASSUME TypeOK, pc = "dirent", NEW place \in Nat, place >= size,
         AtMostOne(Meant(disc, path)[k - 1]), Looking(disc, path, k, Found, place)
  PROVE  Meant(disc, path)[k] = {}
  <1>1. size \in Nat /\ Found.size = size
    BY DEF TypeOK, Found
  <1>2. Meant(disc, path)[k] = Turn(disc, path, k, Meant(disc, path)[k - 1])
    BY PathType, MeantTurn
  <1>3. Meant(disc, path)[k - 1] = {Found}
    BY DEF AtMostOne, Looking
  <1>4. \A r \in Records(disc, Found) : ~Suits(disc, path, k, r)
    <2>1. TAKE r \in Records(disc, Found)
    <2>2. PICK x \in 0 .. (size - 1) : r = At(disc, Found, x) /\ r.len > 0
      BY <1>1 DEF Records
    <2>3. x < place
      BY <1>1
    <2>4. QED
      BY <1>1, <2>2, <2>3 DEF Looking
  <1>5. Inside(disc, path, k, Found) = {}
    BY <1>4 DEF Inside
  <1>6. QED
    BY <1>2, <1>3, <1>5 DEF Turn

\* A record that suits is the element's place.
LEMMA OneThere ==
  ASSUME TypeOK, pc \in {"nm", "iso"}, offset < size,
         Looking(disc, path, k, Found, offset), At(disc, Found, offset).len > 0,
         Suits(disc, path, k, At(disc, Found, offset))
  PROVE  [block |-> At(disc, Found, offset).block, size |-> At(disc, Found, offset).size]
           \in Meant(disc, path)[k]
  <1>1. offset \in Nat /\ size \in Nat /\ Found.size = size
    BY DEF TypeOK, Found
  <1>2. Meant(disc, path)[k] = Turn(disc, path, k, Meant(disc, path)[k - 1])
    BY PathType, MeantTurn
  <1>3. At(disc, Found, offset) \in Records(disc, Found)
    BY <1>1 DEF Records
  <1>4. QED
    BY <1>2, <1>3 DEF Looking, Turn, Inside

-----------------------------------------------------------------------------
(* What is known of a sound disc, and of reads that go well.               *)

\* A read that is no fault gives the sector asked for.
LEMMA ReadIsTrue ==
  ASSUME TypeOK, NEW s, Read(s), ~fault'
  PROVE  tmpbuf' = s /\ s \in DOMAIN disc /\ ~fault
  <1>1. CASE Hit(s) /\ fault' = (fault \/ tmpbuf # s)
               /\ UNCHANGED <<sector_in_buf, tmpbuf, fails>>
    BY <1>1 DEF TypeOK
  <1>2. CASE s \in DOMAIN disc /\ Filled(s) /\ UNCHANGED <<fails, fault>>
    BY <1>2 DEF Filled
  <1>3. QED
    BY <1>1, <1>2 DEF Read

\* At least one path is sound, so the root directory's area is.
LEMMA SoundRoot ==
  ASSUME History, sound # {}
  PROVE  AreaSound(disc, RootArea(disc))
  BY DEF History, Sound

LEMMA SoundPath ==
  ASSUME TypeOK, History, path \in sound
  PROVE  /\ path \in Paths /\ path \in Seq(Names) /\ Len(path) \in Nat
         /\ \A n \in 0 .. Len(path) :
              /\ AtMostOne(Meant(disc, path)[n])
              /\ n < Len(path) =>
                   \A f \in Meant(disc, path)[n] : DirectorySound(disc, f)
         /\ wanted[path] = {Bytes(f) : f \in Meant(disc, path)[Len(path)]}
         /\ AtMostOne(wanted[path])
  <1>1. path \in Paths /\ path \in Seq(Names) /\ Sound(disc, path)
    BY PathAssumption DEF History
  <1>2. Len(path) \in Nat /\ Len(path) \in 0 .. Len(path)
    BY <1>1
  <1>3. \A n \in 0 .. Len(path) :
          /\ AtMostOne(Meant(disc, path)[n])
          /\ n < Len(path) => \A f \in Meant(disc, path)[n] : DirectorySound(disc, f)
    BY <1>1 DEF Sound
  <1>4. wanted[path] = {Bytes(f) : f \in Meant(disc, path)[Len(path)]}
    BY <1>1 DEF History, Content, Sound
  <1>5. AtMostOne(wanted[path])
    BY <1>2, <1>3, <1>4 DEF AtMostOne
  <1>6. QED
    BY <1>1, <1>2, <1>3, <1>4, <1>5

\* The directory at hand is sound, and so is the area of a record in it.
LEMMA SoundDirectory ==
  ASSUME TypeOK, History, path \in sound, pc \in {"dirent", "nm", "iso"},
         Looking(disc, path, k, Found, offset)
  PROVE  /\ DirectorySound(disc, Found)
         /\ offset < size /\ At(disc, Found, offset).len > 0 /\ RockRidge(disc) =>
              AreaSound(disc, At(disc, Found, offset).sua)
  <1>1. k - 1 \in 0 .. Len(path) /\ k - 1 < Len(path)
    BY PathType
  <1>2. Found \in Meant(disc, path)[k - 1]
    BY DEF Looking
  <1>3. DirectorySound(disc, Found)
    BY <1>1, <1>2, SoundPath
  <1>4. offset < size => offset \in 0 .. (Found.size - 1)
    BY DEF TypeOK, Found
  <1>5. QED
    BY <1>3, <1>4 DEF DirectorySound

\* The record read is the one at the place at hand.
LEMMA ReadHere ==
  ASSUME TypeOK
  PROVE  RecordAt(disc, Here, offset % Cells) = At(disc, Found, offset)
  BY DEF At, Found, Here

\* The name of a record with the entry, or without.
LEMMA NameIs ==
  ASSUME NEW r, RockRidge(disc), AreaSound(disc, r.sua)
  PROVE  /\ \A e \in Entries(disc, r.sua) : e.sig = "NM" =>
              Named(disc, r) = IF e.name = NoName THEN r.iso ELSE e.name
         /\ (\A e \in Entries(disc, r.sua) : e.sig # "NM") => Named(disc, r) = r.iso
  <1> DEFINE E == {e \in Entries(disc, r.sua) : e.sig = "NM"}
             N == {e.name : e \in E} \ {NoName}
  <1>1. AtMostOne(E)
    BY DEF AreaSound
  <1>2. Named(disc, r) = IF N # {} THEN CHOOSE n \in N : TRUE ELSE r.iso
    BY DEF Named, NameOf
  <1>3. ASSUME NEW e \in E
        PROVE  Named(disc, r) = IF e.name = NoName THEN r.iso ELSE e.name
    <2>1. E = {e}
      BY <1>1, <1>3 DEF AtMostOne
    <2> HIDE DEF E
    <2>2. N = {e.name} \ {NoName}
      BY <2>1
    <2>3. CASE e.name = NoName
      BY <1>2, <2>2, <2>3
    <2>4. CASE e.name # NoName
      <3>1. N = {e.name}
        BY <2>2, <2>4
      <3> HIDE DEF N
      <3>2. QED
        BY <1>2, <2>4, <3>1
    <2>5. QED
      BY <2>3, <2>4
  <1>4. E = {} => Named(disc, r) = r.iso
    <2> HIDE DEF E
    <2>1. QED
      BY <1>2
  <1>5. QED
    BY <1>3, <1>4

-----------------------------------------------------------------------------
(* What is known of the disc when the handle is made.                      *)

LEMMA HistoryStep ==
  ASSUME TypeOK, History, [Next]_vars
  PROVE  History' /\ disc' = disc /\ sound' = sound /\ wanted' = wanted
  <1> USE DEF handle, cache, asked, walk
  <1>1. disc' = disc /\ sound' = sound /\ wanted' = wanted
    BY DEF Next, vars, CreateFails, ReadVolume, ReadRoot, RockRidgeContinues,
           RockRidgeFound, NoRockRidge, Load, Skipped, ReadDirent, NextElement,
           Missing, NmContinues, NmFound, NoNm, IsoName, Stuck, ScanStuck, Compare,
           ReadWhole, ReadRest, LoadBreaks, LoadEnds
  <1>2. ASSUME pc' \in {"volume", "root", "rr", "failed"}
        PROVE  path' = <<>> /\ rr' = FALSE
    <2>1. pc \in {"volume", "root", "rr", "failed"} /\ path' = path /\ rr' = rr
      BY <1>2 DEF Next, vars, CreateFails, ReadVolume, ReadRoot, RockRidgeContinues,
           RockRidgeFound, NoRockRidge, Load, Skipped, ReadDirent, NextElement,
           Missing, NmContinues, NmFound, NoNm, IsoName, Stuck, ScanStuck, Compare,
           ReadWhole, ReadRest, LoadBreaks, LoadEnds, Answer
    <2>2. QED
      BY <2>1 DEF History
  <1>3. QED
    BY <1>1, <1>2 DEF History

LEMMA MadeStep ==
  ASSUME TypeOK, History, Made, [Next]_vars
  PROVE  Made'
  <1> USE DEF handle, cache, asked, walk
  <1>1. disc' = disc /\ sound' = sound /\ suspect \in BOOLEAN /\ fault \in BOOLEAN
    BY HistoryStep DEF TypeOK
  <1>2. ASSUME CreateFails PROVE Made'
    BY <1>2 DEF CreateFails, Made
  <1>3. ASSUME ReadVolume PROVE Made'
    <2>1. SUFFICES ASSUME ~suspect'
                   PROVE  voldesc' = Root(disc) /\ pc' = "root"
      BY <1>1 DEF Made
    <2>2. ~fault' /\ Read(VolumeSector)
      BY <1>3, <2>1 DEF ReadVolume
    <2>3. tmpbuf' = VolumeSector
      BY <2>2, ReadIsTrue
    <2>4. QED
      BY <1>3, <2>3 DEF ReadVolume, Root
  <1>4. ASSUME ReadRoot PROVE Made'
    <2>1. SUFFICES ASSUME ~suspect', sound # {} PROVE Made'
      BY <1>1 DEF Made
    <2>2. ~suspect /\ ~fault' /\ pc = "root" /\ rr = FALSE /\ rr' = rr
          /\ voldesc' = voldesc
      BY <1>4, <2>1 DEF ReadRoot, History
    <2>3. voldesc = Root(disc)
      BY <2>1, <2>2 DEF Made
    <2>4. tmpbuf' = Root(disc).block
      BY <1>4, <2>2, <2>3, ReadIsTrue DEF ReadRoot
    <2>5. area' = RootArea(disc)
      BY <1>4, <2>4 DEF ReadRoot, RootArea
    <2>6. CASE RootArea(disc) # <<>> /\ RootArea(disc)[1].sig = "SP"
      <3>1. pc' = "rr"
        BY <1>4, <2>5, <2>6 DEF ReadRoot
      <3>2. Scanning(disc', RootArea(disc'), area', "RR")
        BY <1>1, <2>5, ScanBegins
      <3>3. QED
        BY <1>1, <2>2, <2>3, <2>6, <3>1, <3>2 DEF Made
    <2>7. CASE ~(RootArea(disc) # <<>> /\ RootArea(disc)[1].sig = "SP")
      <3>1. pc' = "ready"
        BY <1>4, <2>5, <2>7 DEF ReadRoot
      <3>2. RockRidge(disc') = FALSE
        BY <1>1, <2>7 DEF RockRidge
      <3>3. QED
        BY <1>1, <2>2, <2>3, <3>1, <3>2 DEF Made
    <2>8. QED
      BY <2>6, <2>7
  <1>5. ASSUME pc = "rr", sound # {}, ~suspect
        PROVE  /\ voldesc = Root(disc) /\ rr = FALSE
               /\ AreaSound(disc, RootArea(disc))
               /\ RootArea(disc) # <<>> /\ RootArea(disc)[1].sig = "SP"
               /\ Scanning(disc, RootArea(disc), area, "RR")
    BY <1>5, SoundRoot DEF Made, History
  <1>6. ASSUME RockRidgeContinues PROVE Made'
    <2>1. SUFFICES ASSUME ~suspect', sound # {} PROVE Made'
      BY <1>1 DEF Made
    <2>2. ~suspect /\ ~fault' /\ pc = "rr" /\ pc' = "rr" /\ voldesc' = voldesc
      BY <1>6, <2>1 DEF RockRidgeContinues
    <2>3. area' = AreaAt(disc, area[StopFor("RR")].to)
      BY <1>6, <2>2, ReadIsTrue DEF RockRidgeContinues, Continue
    <2>4. Scanning(disc, RootArea(disc), area', "RR")
      BY <1>5, <1>6, <2>1, <2>2, <2>3, ScanGoesOn DEF RockRidgeContinues, Continue
    <2>5. QED
      BY <1>1, <1>5, <2>1, <2>2, <2>4 DEF Made
  <1>7. ASSUME RockRidgeFound PROVE Made'
    <2>1. SUFFICES ASSUME ~suspect', sound # {} PROVE Made'
      BY <1>1 DEF Made
    <2>2. /\ ~suspect /\ pc = "rr" /\ pc' = "ready" /\ voldesc' = voldesc
          /\ rr' = TRUE /\ ScanFinds("RR")
      BY <1>7, <2>1 DEF RockRidgeFound
    <2>3. \E e \in Entries(disc, RootArea(disc)) : e.sig = "RR"
      BY <1>5, <2>1, <2>2, ScanHasFound
    <2>4. RockRidge(disc') = TRUE
      BY <1>1, <1>5, <2>1, <2>2, <2>3 DEF RockRidge
    <2>5. QED
      BY <1>1, <1>5, <2>1, <2>2, <2>4 DEF Made
  <1>8. ASSUME NoRockRidge PROVE Made'
    <2>1. SUFFICES ASSUME ~suspect', sound # {} PROVE Made'
      BY <1>1 DEF Made
    <2>2. /\ ~suspect /\ ~fault' /\ pc = "rr" /\ pc' = "ready"
          /\ voldesc' = voldesc /\ rr' = rr
      BY <1>8, <2>1 DEF NoRockRidge
    <2>3. ScanEnds("RR")
      BY <1>8, <2>2, ReadFailsKeeps DEF NoRockRidge, ScanBreaks
    <2>4. \A e \in Entries(disc, RootArea(disc)) : e.sig # "RR"
      BY <1>5, <2>1, <2>2, <2>3, ScanIsOver
    <2>5. RockRidge(disc') = FALSE
      BY <1>1, <2>4 DEF RockRidge
    <2>6. QED
      BY <1>1, <1>5, <2>1, <2>2, <2>5 DEF Made
  <1>9. ASSUME ~(CreateFails \/ ReadVolume \/ ReadRoot \/ RockRidgeContinues
                   \/ RockRidgeFound \/ NoRockRidge), Next, ~Stuck
        PROVE  Made'
    <2>1. /\ pc \notin {"volume", "root", "rr", "failed"}
          /\ pc' \notin {"volume", "root", "rr", "failed"}
          /\ UNCHANGED <<voldesc, rr, suspect>>
      BY <1>9 DEF Next, Load, Skipped, ReadDirent, NextElement,
           Missing, NmContinues, NmFound, NoNm, IsoName, Compare,
           ReadWhole, ReadRest, LoadBreaks, LoadEnds, Answer
    <2>2. QED
      BY <1>1, <2>1 DEF Made
  <1>10. ASSUME Stuck \/ UNCHANGED vars PROVE Made'
    <2>1. UNCHANGED vars
      BY <1>10 DEF Stuck, ScanStuck
    <2>2. QED
      BY <2>1 DEF vars, Made
  <1>11. QED
    BY <1>2, <1>3, <1>4, <1>6, <1>7, <1>8, <1>9, <1>10

-----------------------------------------------------------------------------
(* The walk to the file, and its bytes.                                    *)

LEMMA SameCells ==
  ASSUME NEW s \in Seq(Cell), NEW t \in Seq(Cell), Len(s) = Len(t),
         \A x \in 1 .. Len(t) : s[x] = t[x]
  PROVE  s = t
  OBVIOUS

\* The cells of some whole sectors and of a part of the next.
LEMMA CellsJoin ==
  ASSUME NEW s \in Nat, NEW w \in Nat, NEW r \in 0 .. (Cells - 1)
  PROVE  /\ w * Cells \in Nat
         /\ CellsOf(s, w * Cells) \o CellsOf(s + w, r) = CellsOf(s, w * Cells + r)
         /\ \A x \in 1 .. (w * Cells) :
              CellsOf(s, w * Cells)[x] = CellsOf(s, w * Cells + r)[x]
  <1>1. Cells \in Nat \ {0} /\ r \in Nat
    BY BoundAssumption
  <1>2. PICK n \in Nat : n = w * Cells
    BY <1>1
  <1>3. /\ CellsOf(s, n) \in Seq(Cell) /\ Len(CellsOf(s, n)) = n
        /\ CellsOf(s + w, r) \in Seq(Cell) /\ Len(CellsOf(s + w, r)) = r
        /\ CellsOf(s, n + r) \in Seq(Cell) /\ Len(CellsOf(s, n + r)) = n + r
    BY <1>1, <1>2, CellsType
  <1>4. ASSUME NEW x \in 1 .. n
        PROVE  CellsOf(s, n)[x] = CellsOf(s, n + r)[x]
    BY <1>1 DEF CellsOf
  <1>5. ASSUME NEW y \in 1 .. r
        PROVE  CellsOf(s + w, r)[y] = CellsOf(s, n + r)[n + y]
    <2>1. (y - 1) \div Cells = 0 /\ (y - 1) % Cells = y - 1
      BY <1>1
    <2>2. PICK z \in Nat : z = n + y - 1
      BY <1>1, <1>2
    <2>3. z \div Cells = w /\ z % Cells = y - 1
      <3>1. /\ z = (z \div Cells) * Cells + (z % Cells)
            /\ z \div Cells \in Nat /\ z % Cells \in 0 .. (Cells - 1)
        BY Division
      <3>2. PICK q \in Nat, m \in 0 .. (Cells - 1) : q = z \div Cells /\ m = z % Cells
        BY <3>1
      <3>3. q * Cells + m = w * Cells + (y - 1)
        BY <1>1, <1>2, <2>2, <3>1, <3>2
      <3>4. q * Cells < w * Cells + Cells /\ w * Cells < q * Cells + Cells
        BY <1>1, <1>2, <3>2, <3>3
      <3>5. q < w + 1 /\ w < q + 1
        BY <1>1, <3>2, <3>4
      <3>6. q = w
        BY <3>5
      <3>7. QED
        BY <1>1, <1>2, <3>2, <3>3, <3>6
    <2>4. CellsOf(s, n + r)[n + y] = <<s + w, y - 1>>
      <3>1. n + y \in 1 .. (n + r) /\ (n + y) - 1 = z
        BY <1>1, <2>2
      <3>2. CellsOf(s, n + r)[n + y] =
              <<s + (((n + y) - 1) \div Cells), ((n + y) - 1) % Cells>>
        BY <3>1 DEF CellsOf
      <3>3. QED
        BY <2>3, <3>1, <3>2
    <2>5. CellsOf(s + w, r)[y] = <<s + w, y - 1>>
      <3>1. CellsOf(s + w, r)[y] = <<(s + w) + ((y - 1) \div Cells), (y - 1) % Cells>>
        BY DEF CellsOf
      <3>2. QED
        BY <2>1, <3>1
    <2>6. QED
      BY <2>4, <2>5
  <1>6. CellsOf(s, n) \o CellsOf(s + w, r) = CellsOf(s, n + r)
    <2> DEFINE A == CellsOf(s, n)
               B == CellsOf(s + w, r)
               D == CellsOf(s, n + r)
    <2> HIDE DEF A, B, D
    <2>1. /\ A \in Seq(Cell) /\ Len(A) = n /\ B \in Seq(Cell) /\ Len(B) = r
          /\ D \in Seq(Cell) /\ Len(D) = n + r
      BY <1>3 DEF A, B, D
    <2>2. \A x \in 1 .. n : A[x] = D[x]
      BY <1>4 DEF A, D
    <2>3. \A y \in 1 .. r : B[y] = D[n + y]
      BY <1>5 DEF B, D
    <2>4. ASSUME NEW x \in 1 .. (n + r) PROVE (A \o B)[x] = D[x]
      <3>1. CASE x <= n
        <4>1. x \in 1 .. Len(A)
          BY <2>1, <3>1
        <4>2. (A \o B)[x] = A[x]
          BY <2>1, <4>1
        <4>3. QED
          BY <2>1, <2>2, <4>1, <4>2
      <3>2. CASE x > n
        <4>1. x - n \in 1 .. r /\ n + (x - n) = x
          BY <3>2
        <4>2. (A \o B)[x] = B[x - n]
          BY <2>1, <3>2
        <4>3. QED
          BY <2>3, <4>1, <4>2
      <3>3. x <= n \/ x > n
        BY <1>1
      <3>4. QED
        BY ONLY <3>1, <3>2, <3>3
    <2>5. A \o B \in Seq(Cell) /\ Len(A \o B) = n + r
      BY <2>1
    <2>6. A \o B = D
      BY <2>1, <2>4, <2>5, SameCells
    <2>7. QED
      BY <2>6 DEF A, B, D
  <1>7. QED
    BY <1>2, <1>4, <1>6

\* What the name compared leads to.
LEMMA CompareWalks ==
  ASSUME TypeOK, History, Walking, path \in sound, pc \in {"nm", "iso"},
         Compare(Named(disc, dirent))
  PROVE  \/ pc' = "dirent" /\ Looking(disc, path, k', Found', offset')
         \/ pc' = "whole" /\ Found' \in Meant(disc, path)[Len(path)]
  <1>1. /\ Looking(disc, path, k, Found, offset) /\ offset < size
        /\ dirent = At(disc, Found, offset) /\ dirent.len > 0
    BY DEF Walking
  <1>2. k \in 1 .. Len(path) /\ Len(path) \in Nat
    BY PathType
  <1>3. (k < Len(path)) = ~AtLast
    BY <1>2 DEF AtLast
  <1>4. Suits(disc, path, k, dirent) <=> Fits(Named(disc, dirent))
    BY <1>3 DEF Suits, Fits
  <1>5. CASE Fits(Named(disc, dirent))
    <2>1. block' = dirent.block /\ size' = dirent.size /\ offset' = 0
      BY <1>5 DEF Compare
    <2>2. Found' = [block |-> dirent.block, size |-> dirent.size]
      BY <2>1 DEF Found
    <2>3. Found' \in Meant(disc, path)[k]
      BY <1>1, <1>4, <1>5, <2>2, OneThere
    <2>4. CASE AtLast
      BY <1>5, <2>3, <2>4 DEF Compare, AtLast
    <2>5. CASE ~AtLast
      <3>1. pc' = "dirent" /\ k' = k + 1 /\ k' - 1 = k
        BY <1>2, <1>5, <2>5 DEF Compare
      <3>2. Looking(disc, path, k', Found', 0)
        BY <2>3, <3>1 DEF Looking
      <3>3. QED
        BY <2>1, <3>1, <3>2
    <2>6. QED
      BY <2>4, <2>5
  <1>6. CASE ~Fits(Named(disc, dirent))
    <2>1. pc' = "dirent" /\ k' = k /\ Found' = Found /\ offset' = offset + dirent.len
      BY <1>6 DEF Compare, Found
    <2>2. Looking(disc, path, k, Found, offset + dirent.len)
      BY <1>1, <1>4, <1>6, SoundDirectory, PassesOne
    <2>3. QED
      BY <2>1, <2>2
  <1>7. QED
    BY <1>5, <1>6

\* A load that can be trusted could be before, and is still the same.
LEMMA TrustStays ==
  ASSUME TypeOK, History, [Next]_vars, Trusted', ~Load
  PROVE  /\ Trusted /\ path' = path /\ rr' = rr
         /\ pc \notin {"volume", "root", "rr", "failed"}
  <1> USE DEF handle, cache, asked, walk
  <1>1. sound' = sound /\ disc' = disc
    BY HistoryStep
  <1>2. path' = path
    BY DEF Next, vars, CreateFails, ReadVolume, ReadRoot, RockRidgeContinues,
           RockRidgeFound, NoRockRidge, Skipped, ReadDirent, NextElement,
           Missing, NmContinues, NmFound, NoNm, IsoName, Stuck, ScanStuck, Compare,
           ReadWhole, ReadRest, LoadBreaks, LoadEnds
  <1>3. path \in sound /\ path # <<>>
    <2>1. path \in Paths
      BY <1>1, <1>2 DEF Trusted, History
    <2>2. QED
      BY <1>1, <1>2, <2>1, PathAssumption DEF Trusted
  <1>4. pc \notin {"volume", "root", "rr", "failed"}
    BY <1>3 DEF History
  <1>5. rr' = rr /\ suspect' = suspect
    BY <1>4 DEF Next, vars, CreateFails, ReadVolume, ReadRoot, RockRidgeContinues,
           RockRidgeFound, NoRockRidge, Skipped, ReadDirent, NextElement,
           Missing, NmContinues, NmFound, NoNm, IsoName, Stuck, ScanStuck, Compare,
           ReadWhole, ReadRest, LoadBreaks, LoadEnds
  <1>6. fault => fault'
    <2>1. \/ \E s : Read(s)
          \/ \E s : ReadFails(s) \/ Unread(s)
          \/ Skipped \/ ReadOnFails
          \/ fault' = fault
      BY <1>4 DEF Next, vars, CreateFails, ReadVolume, ReadRoot, RockRidgeContinues,
           RockRidgeFound, NoRockRidge, ReadDirent, NextElement,
           Missing, NmContinues, NmFound, NoNm, IsoName, Stuck, ScanStuck, ScanBreaks,
           Continue, ReadWhole, ReadRest, LoadBreaks, LoadEnds
    <2>2. QED
      BY <1>1, <2>1, ReadKeeps, ReadFailsKeeps, UnreadKeeps, SkippedReads,
         ReadOnFailsKeeps
  <1>7. QED
    BY <1>1, <1>2, <1>3, <1>4, <1>5, <1>6 DEF Trusted

\* At the end of a directory there is no such file, if nothing suited there or
\* in one before.
LEMMA NothingMeantThere ==
  ASSUME TypeOK, History, path \in sound, pc = "dirent",
         NEW place \in Nat, place >= size, Looking(disc, path, k, Found, place)
  PROVE  wanted[path] = {}
  <1>1. k \in 0 .. Len(path) /\ k - 1 \in 0 .. Len(path) /\ Len(path) \in Nat
    BY PathType
  <1>2. AtMostOne(Meant(disc, path)[k - 1])
    BY <1>1, SoundPath
  <1>3. Meant(disc, path)[k] = {}
    BY <1>2, NoneThere
  <1>4. Meant(disc, path)[Len(path)] = {}
    BY <1>1, <1>3, NothingMeant
  <1>5. QED
    BY <1>4, SoundPath

LEMMA NothingWanted ==
  ASSUME TypeOK, History, Walking, path \in sound, pc = "dirent", offset >= size
  PROVE  wanted[path] = {}
  <1>1. offset \in Nat
    BY DEF TypeOK
  <1>2. QED
    BY <1>1, NothingMeantThere DEF Walking

\* Padding behind which the disc ends is at the end of the directory.
LEMMA NothingBehind ==
  ASSUME TypeOK, History, Walking, path \in sound, pc = "dirent", offset < size,
         RecordAt(disc, Here, offset % Cells).len = 0, Here + 1 \notin DOMAIN disc
  PROVE  wanted[path] = {}
  <1>1. /\ Looking(disc, path, k, Found, offset) /\ offset \in Nat /\ size \in Nat
        /\ block \in Nat /\ Found.size = size /\ Found.block = block
    BY DEF Walking, TypeOK, Found
  <1>2. DirectorySound(disc, Found)
    BY <1>1, SoundDirectory
  <1>3. At(disc, Found, offset).len = 0
    BY ReadHere
  <1>4. Looking(disc, path, k, Found, Skip) /\ Skip \in Nat
    BY <1>1, <1>2, <1>3, SkipsNone, PlaceType
  <1>5. Skip >= size
    <2>1. SUFFICES ASSUME Skip < size PROVE FALSE
      BY <1>1, <1>4
    <2>2. Is(disc, block + (Skip \div Cells), "dir")
      BY <1>1, <1>2, <1>4, <2>1 DEF DirectorySound
    <2>3. PICK q \in Nat : q = offset \div Cells
      BY <1>1, Division
    <2>4. Skip = (q + 1) * Cells
      BY <2>3 DEF Skip
    <2>5. Skip \div Cells = q + 1
      BY <2>3, <2>4, BoundAssumption
    <2>6. block + (Skip \div Cells) = Here + 1
      BY <1>1, <2>3, <2>5 DEF Here
    <2>7. QED
      BY <2>2, <2>6 DEF Is
  <1>6. QED
    BY <1>4, <1>5, NothingMeantThere

LEMMA LoadWalks ==
  ASSUME TypeOK, History, Made, Load, Trusted'
  PROVE  Walking'
  <1> USE DEF handle, cache, asked, walk
  <1>1. /\ pc = "ready" /\ pc' = "dirent" /\ k' = 1 /\ offset' = 0 /\ k' - 1 = 0
        /\ block' = voldesc.block /\ size' = voldesc.size
        /\ UNCHANGED <<disc, sound, suspect, voldesc>> /\ path' \in Paths
    BY DEF Load
  <1>2. ~suspect /\ path' \in sound
    BY <1>1 DEF Trusted
  <1>3. voldesc = Root(disc)
    BY <1>1, <1>2 DEF Made
  <1>4. Found' = Root(disc)
    BY <1>1, <1>3 DEF Found, Root
  <1>5. Root(disc) \in Meant(disc, path')[0]
    <2>1. Len(path') \in Nat
      BY <1>1, PathAssumption
    <2>2. QED
      BY <2>1, MeantTurn
  <1>6. Looking(disc', path', k', Found', offset')
    BY <1>1, <1>4, <1>5 DEF Looking
  <1>7. QED
    BY <1>1, <1>6 DEF Walking

LEMMA WalkStep ==
  ASSUME IInv, History, Made, Trusted => Walking, [Next]_vars, Trusted'
  PROVE  Walking'
  <1> USE DEF handle, cache, asked, walk
  <1>1. CASE Load
    BY <1>1, LoadWalks DEF IInv
  <1>2. CASE ~Load
    <2>1. TypeOK /\ Filling
      BY DEF IInv
    <2>2. /\ Trusted /\ Walking /\ path' = path /\ rr' = rr /\ path \in sound
          /\ pc \notin {"volume", "root", "rr", "failed"}
      BY <1>2, <2>1, TrustStays DEF Trusted
    <2>3. disc' = disc /\ wanted' = wanted /\ ~fault'
      BY <2>1, HistoryStep DEF Trusted
    <2>4. rr = RockRidge(disc)
      BY <2>2 DEF Made, Trusted
    <2>5. ASSUME NEW s, Read(s) PROVE tmpbuf' = s
      BY <2>1, <2>3, <2>5, ReadIsTrue
    <2>6. ASSUME NEW s, ReadFails(s) \/ Unread(s) PROVE FALSE
      BY <2>1, <2>3, <2>6, UnreadKeeps DEF ReadFails
    <2>7. /\ pc = "dirent" /\ offset < size => Looking(disc, path, k, Found, offset)
          /\ pc \in {"nm", "iso"} =>
               /\ Looking(disc, path, k, Found, offset) /\ offset < size
               /\ dirent = At(disc, Found, offset) /\ dirent.len > 0
      BY <2>1, <2>2 DEF Walking, TypeOK
    <2>8. pc = "nm" => /\ rr /\ Scanning(disc, dirent.sua, area, "NM")
                       /\ AreaSound(disc, dirent.sua)
      BY <2>1, <2>2, <2>4, <2>7, SoundDirectory DEF Walking
    <2>9. CASE Skipped
      <3>1. /\ pc = "dirent" /\ pc' = "dirent" /\ offset < size /\ offset' = Skip
            /\ Found' = Found /\ k' = k
        BY <2>9 DEF Skipped, Found
      <3>2. At(disc, Found, offset).len = 0
        BY <2>1, <2>3, <2>9, ReadHere, SkippedReads
      <3>3. Looking(disc', path', k', Found', offset')
        BY <2>1, <2>2, <2>3, <2>7, <3>1, <3>2, SoundDirectory, SkipsNone
      <3>4. QED
        BY <3>1, <3>3 DEF Walking
    <2>10. CASE ReadDirent
      <3>1. /\ pc = "dirent" /\ offset < size /\ offset' = offset /\ size' = size
            /\ Found' = Found /\ k' = k /\ tmpbuf' = Here
            /\ area' = dirent'.sua /\ pc' = IF rr THEN "nm" ELSE "iso"
        BY <2>5, <2>10 DEF ReadDirent, Found
      <3>2. dirent' = At(disc, Found, offset) /\ dirent'.len # 0
        BY <2>1, <2>10, <3>1, ReadHere DEF ReadDirent
      <3>3. dirent'.len > 0
        BY <2>1, <3>2, AtType DEF TypeOK
      <3>4. Scanning(disc', dirent'.sua, area', "NM")
        BY <3>1, ScanBegins
      <3>5. ~rr => Named(disc', dirent') = dirent'.iso
        BY <2>3, <2>4 DEF Named
      <3>6. Looking(disc', path', k', Found', offset') /\ dirent' = At(disc', Found', offset')
        BY <2>2, <2>3, <2>7, <3>1, <3>2
      <3>7. CASE rr
        BY <2>2, <3>1, <3>3, <3>4, <3>6, <3>7 DEF Walking
      <3>8. CASE ~rr
        BY <3>1, <3>3, <3>5, <3>6, <3>8 DEF Walking
      <3>9. QED
        BY <3>7, <3>8
    <2>11. CASE NextElement
      <3>1. /\ pc = "dirent" /\ pc' = "dirent" /\ offset >= size
            /\ offset' = offset /\ size' = size
        BY <2>11 DEF NextElement
      <3>2. wanted[path] = {}
        BY <2>1, <2>2, <3>1, NothingWanted
      <3>3. QED
        BY <2>2, <2>3, <3>1, <3>2 DEF Walking
    <2>12. CASE Missing \/ LoadEnds
      BY <2>12 DEF Missing, LoadEnds, Answer, Walking
    <2>13. CASE NmContinues
      <3>1. /\ pc = "nm" /\ pc' = "nm" /\ StopsAt("NM", "CE")
            /\ area' = AreaAt(disc, area[StopFor("NM")].to)
            /\ UNCHANGED <<k, offset, size, dirent>> /\ Found' = Found
        BY <2>5, <2>13 DEF NmContinues, Continue, Found
      <3>2. Scanning(disc', dirent'.sua, area', "NM")
        BY <2>1, <2>3, <2>8, <3>1, ScanGoesOn
      <3>3. QED
        BY <2>2, <2>3, <2>7, <2>8, <3>1, <3>2 DEF Walking
    <2>14. CASE NmFound
      <3>1. /\ pc = "nm" /\ ScanFinds("NM") /\ area[StopFor("NM")].name # NoName
            /\ Compare(area[StopFor("NM")].name)
        BY <2>14 DEF NmFound
      <3>2. Named(disc, dirent) = area[StopFor("NM")].name
        BY <2>1, <2>4, <2>8, <3>1, ScanHasFound, NameIs
      <3>3. \/ pc' = "dirent" /\ Looking(disc', path', k', Found', offset')
            \/ pc' = "whole" /\ Found' \in Meant(disc', path')[Len(path')]
        BY <2>1, <2>2, <2>3, <3>1, <3>2, CompareWalks
      <3>4. QED
        BY <3>3 DEF Walking
    <2>15. CASE NoNm
      <3>1. /\ pc = "nm" /\ pc' = "iso"
            /\ UNCHANGED <<k, offset, size, dirent>> /\ Found' = Found
        BY <2>15 DEF NoNm, Found
      <3>2. Named(disc, dirent) = dirent.iso
        <4>1. CASE ScanEnds("NM")
          BY <2>1, <2>4, <2>8, <3>1, <4>1, ScanIsOver, NameIs
        <4>2. CASE ScanFinds("NM") /\ area[StopFor("NM")].name = NoName
          BY <2>1, <2>4, <2>8, <3>1, <4>2, ScanHasFound, NameIs
        <4>3. CASE ScanBreaks("NM")
          BY <2>6, <4>3 DEF ScanBreaks
        <4>4. QED
          BY <2>15, <4>1, <4>2, <4>3 DEF NoNm
      <3>3. QED
        BY <2>2, <2>3, <2>7, <3>1, <3>2 DEF Walking
    <2>16. CASE IsoName
      <3>1. /\ pc = "iso" /\ tmpbuf' = Here
            /\ Compare(RecordAt(disc, tmpbuf', offset % Cells).iso)
        BY <2>5, <2>16 DEF IsoName
      <3>2. RecordAt(disc, tmpbuf', offset % Cells).iso = Named(disc, dirent)
        BY <2>1, <2>2, <2>7, <3>1, ReadHere DEF Walking
      <3>3. \/ pc' = "dirent" /\ Looking(disc', path', k', Found', offset')
            \/ pc' = "whole" /\ Found' \in Meant(disc', path')[Len(path')]
        BY <2>1, <2>2, <2>3, <3>1, <3>2, CompareWalks
      <3>4. QED
        BY <3>3 DEF Walking
    <2>17. CASE ReadWhole
      <3>1. /\ pc = "whole" /\ pc' = IF Rest > 0 THEN "rest" ELSE "end"
            /\ image' = CellsOf(block, Whole * Cells)
            /\ UNCHANGED <<block, size>> /\ Found' = Found
            /\ Whole' = Whole /\ Rest' = Rest
        BY <2>17 DEF ReadWhole, Found, Whole, Rest
      <3>2. Rest <= 0 => Whole * Cells = size
        BY <2>1, SizeSplit
      <3>3. Found' \in Meant(disc', path')[Len(path')]
        BY <2>2, <2>3, <3>1 DEF Walking
      <3>4. CASE Rest > 0
        BY <3>1, <3>3, <3>4 DEF Walking
      <3>5. CASE ~(Rest > 0)
        <4>1. image' = CellsOf(block', size') /\ pc' = "end"
          BY <2>1, <3>1, <3>2, <3>5, SizeSplit
        <4>2. QED
          BY <3>3, <4>1 DEF Walking
      <3>6. QED
        BY <3>4, <3>5
    <2>18. CASE ReadRest
      <3>1. /\ pc = "rest" /\ pc' = "end" /\ tmpbuf' = block + Whole
            /\ image' = image \o CellsOf(tmpbuf', Rest)
            /\ UNCHANGED <<block, size>> /\ Found' = Found
        BY <2>5, <2>18 DEF ReadRest, RestRead, Found
      <3>2. image = CellsOf(block, Whole * Cells)
        BY <2>2, <3>1 DEF Walking
      <3>3. image' = CellsOf(block, size)
        <4>1. Rest \in 0 .. (Cells - 1) /\ block \in Nat /\ Whole \in Nat
              /\ size = Whole * Cells + Rest
          BY <2>1, SizeSplit, Division DEF Rest, TypeOK
        <4>2. QED
          BY <3>1, <3>2, <4>1, CellsJoin
      <3>4. QED
        BY <2>2, <2>3, <3>1, <3>3 DEF Walking
    <2>19. CASE LoadBreaks
      BY <2>6, <2>19 DEF LoadBreaks
    <2>20. CASE Stuck \/ UNCHANGED vars
      <3>1. UNCHANGED vars
        BY <2>20 DEF Stuck, ScanStuck
      <3>2. QED
        BY <2>2, <3>1 DEF vars, Walking, Found, Whole
    <2>21. QED
      BY <1>2, <2>2, <2>9, <2>10, <2>11, <2>12, <2>13, <2>14, <2>15, <2>16, <2>17,
         <2>18, <2>19, <2>20
         DEF Next, CreateFails, ReadVolume, ReadRoot, RockRidgeContinues,
             RockRidgeFound, NoRockRidge
  <1>3. QED
    BY <1>1, <1>2

LEMMA LoadInit == Init => LoadInv
  <1> SUFFICES ASSUME Init PROVE LoadInv
    OBVIOUS
  <1>1. History /\ Made
    BY DEF Init, History, Made
  <1>2. ~Trusted
    BY <1>1, PathAssumption DEF Init, Trusted
  <1>3. QED
    BY <1>1, <1>2, Initially DEF LoadInv

LEMMA LoadStep == LoadInv /\ [Next]_vars => LoadInv'
  <1> SUFFICES ASSUME LoadInv, [Next]_vars PROVE LoadInv'
    OBVIOUS
  <1>1. IInv /\ TypeOK /\ Filling /\ CacheCoherent /\ History /\ Made
    BY DEF LoadInv, IInv
  <1>2. IInv'
    BY <1>1, TypeStep, FillStep, CacheStep DEF IInv
  <1>3. History' /\ Made'
    BY <1>1, HistoryStep, MadeStep
  <1>4. Trusted' => Walking'
    BY <1>1, WalkStep DEF LoadInv
  <1>5. QED
    BY <1>2, <1>3, <1>4 DEF LoadInv

-----------------------------------------------------------------------------
(* The promise of load_file().                                             *)

\* Where a load is, for LoadFile.
Phase == CASE ~Trusted -> "broken"
           [] Trusted /\ pc = "ready" -> "idle"
           [] OTHER -> "loading"

\* What a load wants, for LoadFile.
Wanted == IF path = <<>> THEN {} ELSE wanted[path]

PhaseIs ==
  /\ ~Trusted => Phase = "broken"
  /\ Trusted /\ pc = "ready" => Phase = "idle"
  /\ Trusted /\ pc # "ready" => Phase = "loading"

LEMMA PhaseOK == PhaseIs
  <1>1. Trusted \in BOOLEAN
    BY DEF Trusted
  <1>2. QED
    BY <1>1 DEF Phase, PhaseIs

LEMMA PhaseNext == PhaseIs'
  <1>1. Trusted' \in BOOLEAN
    BY DEF Trusted
  <1>2. QED
    BY <1>1 DEF Phase, PhaseIs

LEMMA PromiseInit == Init => Promise!Init
  <1> SUFFICES ASSUME Init PROVE Promise!Init
    OBVIOUS
  <1>1. path = <<>> /\ sound \subseteq Paths /\ image = <<>> /\ result = 0
    BY DEF Init
  <1>2. ~Trusted
    BY <1>1, PathAssumption DEF Trusted
  <1>3. Phase = "broken"
    BY <1>2, PhaseOK DEF PhaseIs
  <1>4. QED
    BY <1>1, <1>3 DEF Promise!Init, Phase

\* The whole file is what is in the buffer at the end.
LEMMA FileIsThere ==
  ASSUME TypeOK, History, Trusted, Found \in Meant(disc, path)[Len(path)]
  PROVE  CellsOf(block, size) \in wanted[path]
  <1>1. Bytes(Found) = CellsOf(block, size)
    BY DEF Bytes, Found, CellsOf
  <1>2. wanted[path] = {Bytes(f) : f \in Meant(disc, path)[Len(path)]}
    BY SoundPath DEF Trusted
  <1>3. QED
    BY <1>1, <1>2

LEMMA PrefixIs ==
  ASSUME NEW s \in Seq(Cell), NEW t \in Seq(Cell), Len(s) <= Len(t),
         \A x \in 1 .. Len(s) : s[x] = t[x]
  PROVE  IsPrefix(s, t)
  BY DEF IsPrefix

\* Each step of the driver is one of LoadFile, or changes nothing of it.
LEMMA PromiseStep ==
  ASSUME LoadInv, LoadInv', [Next]_vars
  PROVE  [Promise!Next]_(Promise!vars)
  <1> USE DEF handle, cache, asked, walk
  <1>1. IInv /\ TypeOK /\ Filling /\ History /\ Made /\ TypeOK' /\ History'
    BY DEF LoadInv, IInv
  <1>2. wanted' = wanted /\ disc' = disc /\ sound' = sound
    BY <1>1, HistoryStep
  <1>3. PhaseIs /\ PhaseIs'
    BY PhaseOK, PhaseNext
  <1>4. CASE ~Trusted'
    <2>1. Phase' = "broken"
      BY <1>3, <1>4 DEF PhaseIs
    <2>2. QED
      BY <2>1 DEF Promise!Next, Promise!Break, Phase
  <1>5. CASE Trusted' /\ Load
    <2>1. pc = "ready" /\ pc' = "dirent" /\ image' = <<>> /\ result' = result
      BY <1>5 DEF Load
    <2>2. Phase # "loading" /\ Phase' = "loading"
      BY <1>3, <1>5, <2>1 DEF PhaseIs
    <2>3. path' \in sound' /\ path' # <<>>
      BY <1>1, <1>5, PathAssumption DEF Trusted, History
    <2>4. \A x, y \in wanted'[path'] : x = y
      <3>1. path' \in Paths /\ path' \in Seq(Names) /\ Sound(disc, path')
        BY <1>1, <1>2, <2>3, PathAssumption DEF History
      <3>2. AtMostOne(Meant(disc, path')[Len(path')])
        <4>1. Len(path') \in 0 .. Len(path')
          BY <3>1
        <4>2. QED
          BY <3>1, <4>1 DEF Sound
      <3>3. wanted'[path'] = {Bytes(f) : f \in Meant(disc, path')[Len(path')]}
        BY <1>1, <1>2, <3>1 DEF History, Content, Sound
      <3>4. QED
        BY <3>2, <3>3 DEF AtMostOne
    <2>5. Promise!AtMostOne(Wanted')
      BY <2>3, <2>4 DEF Wanted, Promise!AtMostOne
    <2>6. Promise!Ask
      BY <2>1, <2>2, <2>5 DEF Promise!Ask, Phase, Wanted
    <2>7. QED
      BY <2>6 DEF Promise!Next
  <1>6. CASE Trusted' /\ ~Load
    <2>1. /\ Trusted /\ path' = path /\ path \in sound
          /\ pc \notin {"volume", "root", "rr", "failed"}
      BY <1>1, <1>6, TrustStays DEF Trusted
    <2>2. Walking /\ Walking'
      BY <1>6, <2>1 DEF LoadInv
    <2>3. Wanted' = Wanted /\ Wanted = wanted[path]
      <3>1. path # <<>>
        BY <1>1, <2>1, PathAssumption DEF History
      <3>2. QED
        BY <1>2, <2>1, <3>1 DEF Wanted
    <2>4. ASSUME pc # "ready", pc' # "ready", image' = image, result' = result
          PROVE  [Promise!Next]_(Promise!vars)
      <3>1. Phase = "loading" /\ Phase' = "loading"
        BY <1>3, <1>6, <2>1, <2>4 DEF PhaseIs
      <3>2. QED
        BY <2>3, <2>4, <3>1 DEF Promise!vars, Phase, Wanted
    <2>5. CASE Skipped \/ ReadDirent \/ NextElement \/ NmContinues \/ NmFound
                 \/ NoNm \/ IsoName
      <3>1. pc # "ready" /\ pc' # "ready" /\ image' = image /\ result' = result
        BY <2>5 DEF Skipped, ReadDirent, NextElement, NmContinues, NmFound, NoNm,
                    IsoName, Compare
      <3>2. QED
        BY <2>4, <3>1
    <2>6. CASE Missing
      <3>1. /\ pc = "dirent" /\ pc' = "ready"
            /\ offset >= size \/ (offset < size /\ ReadOnFails)
            /\ result' = NoFile /\ image' = image /\ disc' = disc
        <4>1. ASSUME NEW s, ReadFails(s) PROVE FALSE
          BY <1>6, <4>1, UnreadKeeps, <1>1 DEF ReadFails, Trusted
        <4>2. QED
          BY <2>6, <4>1 DEF Missing, Answer
      <3>2. wanted[path] = {}
        <4>1. CASE offset >= size
          BY <1>1, <2>1, <2>2, <3>1, <4>1, NothingWanted
        <4>2. CASE offset < size /\ ReadOnFails
          <5>1. /\ RecordAt(disc, Here, offset % Cells).len = 0
                /\ Here + 1 \notin DOMAIN disc
            BY <1>1, <1>6, <3>1, <4>2, ReadOnFailsKeeps DEF Trusted
          <5>2. QED
            BY <1>1, <2>1, <2>2, <3>1, <4>2, <5>1, NothingBehind
        <4>3. QED
          BY <3>1, <4>1, <4>2
      <3>3. Phase = "loading" /\ Phase' = "idle"
        BY <1>3, <1>6, <2>1, <3>1 DEF PhaseIs
      <3>4. Promise!Finish
        BY <2>3, <3>1, <3>2, <3>3 DEF Promise!Finish, Phase, Wanted
      <3>5. QED
        BY <3>4 DEF Promise!Next
    <2>7. CASE LoadEnds
      <3>1. pc = "end" /\ pc' = "ready" /\ result' = size /\ image' = image
        BY <2>7 DEF LoadEnds, Answer
      <3>2. image \in wanted[path]
        BY <1>1, <2>1, <2>2, <3>1, FileIsThere DEF Walking
      <3>3. Len(image) = size
        BY <1>1, <2>1, <3>1 DEF Filling, Trusted
      <3>4. Phase = "loading" /\ Phase' = "idle"
        BY <1>3, <1>6, <2>1, <3>1 DEF PhaseIs
      <3>5. Promise!Finish
        BY <2>3, <3>1, <3>2, <3>3, <3>4 DEF Promise!Finish, Phase, Wanted
      <3>6. QED
        BY <3>5 DEF Promise!Next
    <2>8. CASE ReadWhole \/ ReadRest
      <3>1. /\ pc \in {"whole", "rest"} /\ pc' \in {"rest", "end"} /\ result' = result
            /\ UNCHANGED <<block, size>>
        BY <2>8 DEF ReadWhole, ReadRest
      <3> DEFINE w == CellsOf(block, size)
      <3>2. Found \in Meant(disc, path)[Len(path)]
        BY <2>2, <3>1 DEF Walking
      <3>3. w \in wanted[path]
        BY <1>1, <2>1, <3>2, FileIsThere
      <3>4. /\ size = Whole * Cells + Rest /\ Rest \in 0 .. (Cells - 1)
            /\ Whole \in Nat /\ block \in Nat /\ size \in Nat
        BY <1>1, SizeSplit, Division DEF Rest, TypeOK
      <3>5. w \in Seq(Cell) /\ Len(w) = size
        BY <3>4, CellsType
      <3> DEFINE v == CellsOf(block, Whole * Cells)
      <3>6. v \in Seq(Cell) /\ Len(v) = Whole * Cells /\ Whole * Cells \in Nat
        BY <1>1, <3>4, SizeSplit, CellsType
      <3>7. IsPrefix(v, w)
        <4>1. Rest \in Nat
          BY <1>1, SizeSplit
        <4>2. Len(v) <= Len(w)
          BY <3>4, <3>5, <3>6, <4>1
        <4>3. \A x \in 1 .. Len(v) : v[x] = w[x]
          <5>1. \A x \in 1 .. (Whole * Cells) :
                  v[x] = CellsOf(block, Whole * Cells + Rest)[x]
            BY <3>4, CellsJoin
          <5>2. w = CellsOf(block, Whole * Cells + Rest)
            BY <3>4
          <5> HIDE DEF v, w
          <5>3. QED
            BY <3>6, <5>1, <5>2
        <4> HIDE DEF v, w
        <4>4. QED
          BY <3>5, <3>6, <4>2, <4>3, PrefixIs
      <3>8. IsPrefix(w, w) /\ IsPrefix(<<>>, v)
        <4> HIDE DEF v, w
        <4>1. <<>> \in Seq(Cell) /\ Len(<<>>) = 0 /\ Len(w) \in Nat /\ Len(v) \in Nat
          BY <3>5, <3>6
        <4>2. IsPrefix(w, w)
          <5>1. Len(w) <= Len(w)
            BY <4>1
          <5>2. QED
            BY <3>5, <5>1, PrefixIs
        <4>3. IsPrefix(<<>>, v)
          <5>1. Len(<<>>) <= Len(v) /\ \A x \in 1 .. Len(<<>>) : <<>>[x] = v[x]
            BY <4>1
          <5>2. QED
            BY <3>6, <4>1, <5>1, PrefixIs
        <4>4. QED
          BY <4>2, <4>3
      <3>9. IsPrefix(image, image') /\ IsPrefix(image', w)
        <4>1. CASE ReadWhole
          <5>1. image = <<>> /\ image' = v
            BY <1>1, <4>1 DEF ReadWhole, Filling
          <5>2. QED
            BY <3>7, <3>8, <5>1
        <4>2. CASE ReadRest
          <5>1. image = v
            BY <2>2, <4>2 DEF ReadRest, Walking
          <5>2. image' = w
            <6>1. pc' = "end"
              BY <4>2 DEF ReadRest
            <6>2. QED
              BY <2>2, <3>1, <6>1 DEF Walking
          <5>3. QED
            BY <3>7, <3>8, <5>1, <5>2
        <4>3. QED
          BY <2>8, <4>1, <4>2
      <3> HIDE DEF v, w
      <3>10. Phase = "loading" /\ Phase' = "loading"
        BY <1>3, <1>6, <2>1, <3>1 DEF PhaseIs
      <3>11. Promise!Copy
        BY <2>3, <3>1, <3>3, <3>9, <3>10
           DEF Promise!Copy, Promise!IsPrefix, IsPrefix, Phase, Wanted
      <3>12. QED
        BY <3>11 DEF Promise!Next
    <2>9. CASE LoadBreaks
      <3>1. fault'
        BY <1>1, <2>9, UnreadKeeps DEF LoadBreaks, ReadFails
      <3>2. QED
        BY <1>6, <3>1 DEF Trusted
    <2>10. CASE Stuck \/ UNCHANGED vars
      <3>1. UNCHANGED vars
        BY <2>10 DEF Stuck, ScanStuck
      <3>2. Trusted' = Trusted
        BY <3>1 DEF vars, Trusted
      <3>3. QED
        BY <3>1, <3>2 DEF vars, Promise!vars
    <2>11. QED
      BY <1>6, <2>1, <2>5, <2>6, <2>7, <2>8, <2>9, <2>10
         DEF Next, CreateFails, ReadVolume, ReadRoot, RockRidgeContinues,
             RockRidgeFound, NoRockRidge
  <1>7. QED
    BY <1>4, <1>5, <1>6

\* fs_cdrom_load_file() keeps the promise of load_file() on every load that no
\* read spoils, of every disc that is whole as far as the path needs it, with a
\* handle that any number of loads before, good or bad, have used.
THEOREM KeepsPromise == Spec => LoadsFile
  <1>1. Spec => []LoadInv
    BY LoadInit, LoadStep, PTL DEF Spec
  <1>2. LoadInv /\ LoadInv' /\ [Next]_vars => [Promise!Next]_(Promise!vars)
    BY PromiseStep
  <1>3. QED
    BY <1>1, <1>2, PromiseInit, PTL DEF Spec, LoadsFile, Promise!Spec

-----------------------------------------------------------------------------
(* How far a load has come.                                                *)

Searching == pc \in {"dirent", "nm", "iso"}

\* The elements of the path not yet dealt with.
Elements == IF Searching THEN Len(path) - k + 1 ELSE 0

\* The places of the directory not yet passed.
Places == IF Searching /\ offset < size THEN size - offset ELSE 0

\* What is left to be done with a record, or with the file.
Stage ==
  CASE pc \in {"dirent", "whole"} -> 3
    [] pc \in {"nm", "rest"} -> 2
    [] pc \in {"iso", "end"} -> 1
    [] OTHER -> 0

\* The sectors of the disc an area is continued in.
Ahead(d, a) == Cardinality(Continued(d, a) \cap DOMAIN d)
AreasAhead == IF pc = "nm" THEN Ahead(disc, area) ELSE 0

\* By the elements first, by the places of a directory next, and so on.
Nearer ==
  \/ Elements' < Elements
  \/ /\ Elements' = Elements
     /\ \/ Places' < Places
        \/ /\ Places' = Places
           /\ \/ Stage' < Stage
              \/ Stage' = Stage /\ AreasAhead' < AreasAhead

LEMMA AheadIs ==
  ASSUME TypeOK, NEW a
  PROVE  Ahead(disc, a) \in Nat
  <1>1. IsFiniteSet(DOMAIN disc)
    BY FiniteAssumption DEF TypeOK
  <1>2. IsFiniteSet(Continued(disc, a) \cap DOMAIN disc)
    BY <1>1, FS_Intersection
  <1>3. QED
    BY <1>2, FS_CardinalityType DEF Ahead

\* Of a sound area less is ahead after each continuation.
LEMMA FewerAhead ==
  ASSUME TypeOK, NEW first, AreaSound(disc, first), NEW a \in Areas(disc, first),
         NEW t \in To(a), t \in DOMAIN disc
  PROVE  Ahead(disc, AreaAt(disc, t)) < Ahead(disc, a)
  <1> DEFINE b == AreaAt(disc, t)
             A == Continued(disc, a) \cap DOMAIN disc
             B == Continued(disc, b) \cap DOMAIN disc
  <1>1. /\ To(first) \subseteq Continued(disc, first)
        /\ Closed(disc, Continued(disc, first))
        /\ To(a) \subseteq Continued(disc, a) /\ Closed(disc, Continued(disc, a))
    BY ContinuedClosed
  <1>2. To(b) \subseteq Continued(disc, a)
    BY <1>1 DEF Closed
  <1>3. Continued(disc, b) \subseteq Continued(disc, a)
    BY <1>1, <1>2, ContinuedLeast
  <1>4. t \in Continued(disc, first)
    BY <1>1 DEF Areas, Closed
  <1>5. t \notin Continued(disc, b)
    BY <1>4 DEF AreaSound
  <1>6. B \subseteq A /\ t \in A /\ t \notin B
    BY <1>1, <1>3, <1>5
  <1>7. IsFiniteSet(A)
    BY FiniteAssumption, FS_Intersection DEF TypeOK
  <1>8. Ahead(disc, a) = Cardinality(A) /\ Ahead(disc, b) = Cardinality(B)
    BY DEF Ahead
  <1> HIDE DEF A, B, b
  <1>9. Cardinality(B) < Cardinality(A)
    <2>1. Cardinality(B) <= Cardinality(A) /\ (Cardinality(B) = Cardinality(A) => B = A)
      BY <1>6, <1>7, FS_Subset
    <2>2. IsFiniteSet(B)
      BY <1>6, <1>7, FS_Subset
    <2>3. Cardinality(A) \in Nat /\ Cardinality(B) \in Nat
      BY <1>7, <2>2, FS_CardinalityType
    <2>4. Cardinality(A) # Cardinality(B)
      BY <1>6, <2>1
    <2>5. QED
      BY <2>1, <2>3, <2>4
  <1>10. QED
    BY <1>8, <1>9 DEF b

LEMMA ProgressType ==
  ASSUME TypeOK
  PROVE  {Elements, Places, Stage, AreasAhead} \subseteq Nat
  <1>1. offset \in Nat /\ size \in Nat
    BY DEF TypeOK
  <1>2. Searching => k \in 1 .. Len(path) /\ Len(path) \in Nat
    BY PathType DEF Searching
  <1>3. Elements \in Nat
    BY <1>2 DEF Elements
  <1>4. Places \in Nat
    BY <1>1 DEF Places
  <1>5. Stage \in Nat
    BY DEF Stage
  <1>6. AreasAhead \in Nat
    BY AheadIs DEF AreasAhead
  <1>7. QED
    BY <1>3, <1>4, <1>5, <1>6

\* A name that was looked at takes the load to another element or to a place
\* further on.
LEMMA CompareGoesOn ==
  ASSUME TypeOK, pc \in {"nm", "iso"}, offset < size, dirent.len > 0,
         NEW name, Compare(name)
  PROVE  Nearer
  <1>1. /\ dirent.len \in Nat /\ k \in Nat /\ size \in Nat /\ offset \in Nat
        /\ k \in 1 .. Len(path) /\ Len(path) \in Nat
    <2>1. /\ dirent \in Record /\ k \in Nat /\ size \in Nat /\ offset \in Nat
      BY DEF TypeOK
    <2>2. dirent.len \in Nat
      BY <2>1 DEF Record
    <2>3. QED
      BY <2>1, <2>2, PathType
  <1>2. path' = path
    BY DEF Compare, asked
  <1>3. Elements = Len(path) - k + 1 /\ Places = size - offset
    BY DEF Elements, Places, Searching
  <1>4. CASE Fits(name)
    <2>1. \/ k = Len(path) /\ pc' = "whole"
          \/ pc' = "dirent" /\ k' = k + 1
      BY <1>4 DEF Compare, AtLast
    <2>2. Elements' = 0 \/ Elements' = Len(path) - (k + 1) + 1
      BY <1>2, <2>1 DEF Elements, Searching
    <2>3. Elements' < Elements
      <3>1. CASE k = Len(path) /\ pc' = "whole"
        BY <1>1, <1>3, <3>1 DEF Elements, Searching
      <3>2. CASE pc' = "dirent" /\ k' = k + 1
        BY <1>1, <1>2, <1>3, <3>2 DEF Elements, Searching
      <3>3. QED
        BY <2>1, <3>1, <3>2
    <2>4. QED
      BY <2>3 DEF Nearer
  <1>5. CASE ~Fits(name)
    <2>1. offset' = offset + dirent.len /\ pc' = "dirent" /\ size' = size /\ k' = k
      BY <1>5 DEF Compare
    <2>2. Elements' = Elements
      BY <1>2, <1>3, <2>1 DEF Elements, Searching
    <2>3. Places' < Places
      BY <1>1, <1>3, <2>1 DEF Places, Searching
    <2>4. QED
      BY <2>2, <2>3 DEF Nearer
  <1>6. QED
    BY <1>4, <1>5

LEMMA GoesOnStep ==
  ASSUME LoadInv, LoadInv', Next, ~(UNCHANGED vars), Trusted, Trusted', pc # "ready"
  PROVE  Nearer
  <1> USE DEF handle, cache, asked, walk
  <1>1. /\ IInv /\ TypeOK /\ History /\ Made /\ Walking /\ ~Load
        /\ TypeOK' /\ Walking'
    BY DEF LoadInv, IInv, Load
  <1>2. /\ path' = path /\ path \in sound /\ ~fault' /\ rr' = rr
        /\ pc \notin {"volume", "root", "rr", "failed"}
    BY <1>1, TrustStays DEF Trusted
  <1>3. disc' = disc
    BY <1>1, HistoryStep
  <1>4. ASSUME NEW s, Read(s) PROVE tmpbuf' = s /\ s \in DOMAIN disc
    BY <1>1, <1>2, <1>4, ReadIsTrue
  <1>5. ASSUME NEW s, ReadFails(s) \/ Unread(s) PROVE FALSE
    BY <1>1, <1>2, <1>5, UnreadKeeps DEF ReadFails
  <1>6. pc \in {"nm", "iso"} =>
          /\ Looking(disc, path, k, Found, offset) /\ offset < size
          /\ dirent = At(disc, Found, offset) /\ dirent.len > 0
    BY <1>1 DEF Walking
  <1>7. pc = "nm" => /\ area \in Areas(disc, dirent.sua)
                     /\ AreaSound(disc, dirent.sua)
    <2>1. rr = RockRidge(disc)
      BY <1>1, <1>2 DEF Made, Trusted
    <2>2. QED
      BY <1>1, <1>2, <1>6, <2>1, SoundDirectory DEF Walking, Scanning
  <1>8. /\ offset \in Nat /\ size \in Nat
        /\ Searching => k \in 1 .. Len(path) /\ Len(path) \in Nat
    BY <1>1, PathType DEF TypeOK, Searching
  <1>9. CASE Skipped
    <2>1. /\ pc = "dirent" /\ pc' = "dirent" /\ offset < size /\ offset' = Skip
          /\ size' = size /\ k' = k
      BY <1>9 DEF Skipped
    <2>2. Skip > offset /\ Skip \in Nat
      BY <1>8, Division, BoundAssumption DEF Skip
    <2>3. Elements' = Elements
      BY <1>2, <2>1 DEF Elements, Searching
    <2>4. Places' < Places
      BY <1>8, <2>1, <2>2 DEF Places, Searching
    <2>5. QED
      BY <2>3, <2>4 DEF Nearer
  <1>10. CASE ReadDirent \/ NoNm
    <2>1. \/ pc = "dirent" /\ pc' \in {"nm", "iso"}
          \/ pc = "nm" /\ pc' = "iso"
      BY <1>10 DEF ReadDirent, NoNm
    <2>2. k' = k /\ size' = size /\ offset' = offset
      BY <1>10 DEF ReadDirent, NoNm
    <2>3. Elements' = Elements /\ Places' = Places
      BY <1>2, <2>1, <2>2 DEF Elements, Places, Searching
    <2>4. Stage' < Stage
      BY <2>1 DEF Stage
    <2>5. QED
      BY <2>3, <2>4 DEF Nearer
  <1>11. CASE NextElement
    <2>1. pc = "dirent" /\ pc' = "dirent" /\ k' = k + 1
      BY <1>11 DEF NextElement
    <2>2. Elements' < Elements
      BY <1>2, <1>8, <2>1 DEF Elements, Searching
    <2>3. QED
      BY <2>2 DEF Nearer
  <1>12. CASE Missing
    <2>1. pc = "dirent" /\ pc' = "ready"
      BY <1>5, <1>12 DEF Missing, Answer
    <2>2. Elements' < Elements
      BY <1>8, <2>1 DEF Elements, Searching
    <2>3. QED
      BY <2>2 DEF Nearer
  <1>13. CASE NmContinues
    <2> DEFINE t == area[StopFor("NM")].to
    <2>1. /\ pc = "nm" /\ pc' = "nm" /\ k' = k /\ size' = size /\ offset' = offset
          /\ StopsAt("NM", "CE") /\ Read(t) /\ area' = AreaAt(disc, tmpbuf')
      BY <1>13 DEF NmContinues, Continue
    <2>2. t \in DOMAIN disc /\ area' = AreaAt(disc, t)
      BY <1>4, <2>1
    <2>3. ~StopsAt("NM", "NM")
      BY <2>1 DEF StopsAt
    <2>4. t \in To(area)
      BY <1>1, <1>7, <2>1, <2>3, ScanPasses
    <2>5. Ahead(disc, area') < Ahead(disc, area)
      <3> HIDE DEF t
      <3>1. QED
        BY <1>1, <1>7, <2>1, <2>2, <2>4, FewerAhead
    <2>6. AreasAhead' < AreasAhead
      BY <1>3, <2>1, <2>5 DEF AreasAhead
    <2>7. Elements' = Elements /\ Places' = Places /\ Stage' = Stage
      BY <1>2, <2>1 DEF Elements, Places, Stage, Searching
    <2>8. QED
      BY <2>6, <2>7 DEF Nearer
  <1>14. CASE NmFound \/ IsoName
    <2>1. pc \in {"nm", "iso"} /\ \E name : Compare(name)
      BY <1>14 DEF NmFound, IsoName
    <2>2. QED
      BY <1>1, <1>6, <2>1, CompareGoesOn
  <1>15. CASE ReadWhole \/ ReadRest \/ LoadEnds
    <2>1. \/ pc = "whole" /\ pc' \in {"rest", "end"}
          \/ pc = "rest" /\ pc' = "end"
          \/ pc = "end" /\ pc' = "ready"
      BY <1>15 DEF ReadWhole, ReadRest, LoadEnds, Answer
    <2>2. Elements' = Elements /\ Places' = Places
      BY <2>1 DEF Elements, Places, Searching
    <2>3. Stage' < Stage
      BY <2>1 DEF Stage
    <2>4. QED
      BY <2>2, <2>3 DEF Nearer
  <1>16. CASE LoadBreaks
    BY <1>5, <1>16 DEF LoadBreaks
  <1>17. CASE Stuck
    BY <1>17 DEF Stuck, ScanStuck
  <1>18. QED
    BY <1>1, <1>2, <1>9, <1>10, <1>11, <1>12, <1>13, <1>14, <1>15, <1>16, <1>17
       DEF Next, CreateFails, ReadVolume, ReadRoot, RockRidgeContinues,
           RockRidgeFound, NoRockRidge

\* While nothing goes wrong, every step of a load of a path the disc is whole
\* for brings it nearer its end, and none takes it back: it goes through the
\* path's elements, through each directory's places, through each record's
\* areas and through the file once.  The areas a record's names are spread over
\* run out, so the loop of iterate_entries() does.
THEOREM LoadsGoOn ==
  Spec => /\ []({Elements, Places, Stage, AreasAhead} \subseteq Nat)
          /\ [][Trusted /\ Trusted' /\ pc # "ready" => Nearer]_vars
  <1>1. Spec => []LoadInv
    BY LoadInit, LoadStep, PTL DEF Spec
  <1>2. LoadInv => {Elements, Places, Stage, AreasAhead} \subseteq Nat
    BY ProgressType DEF LoadInv, IInv
  <1>3. LoadInv /\ LoadInv' /\ [Next]_vars
          => [Trusted /\ Trusted' /\ pc # "ready" => Nearer]_vars
    BY GoesOnStep
  <1>4. QED
    BY <1>1, <1>2, <1>3, PTL DEF Spec
=============================================================================
