-------------------------------- MODULE Cdrom --------------------------------
(***************************************************************************)
(* The ISO 9660 driver (src/src/cdrom.c): cdrom_create(), and              *)
(* fs_cdrom_load_file() any number of times with the same handle.          *)
(*                                                                         *)
(* Everything but the whole sectors of a file goes through a cache of one  *)
(* sector: `sector_in_buf' is the sector it is said to hold, `tmpbuf' the  *)
(* one whose bytes it holds.  cdrom_create() does not set either, so they  *)
(* start as the allocator's memory has them; as the volume's sector is     *)
(* read first, no other number than that one makes a difference.  A        *)
(* block_read() that fails may leave the sector in tmpbuf all the same.    *)
(* A record, its area and its name lie in one sector.                      *)
(*                                                                         *)
(* History: `fails' counts the good sectors that could not be read, up to  *)
(* MaxFails; `fault' says that since the load began a read failed or the   *)
(* cache gave bytes of another sector, `suspect' that so much happened     *)
(* when the handle was made.  `sound' is the paths the disc is whole for,  *)
(* `wanted' the content of each path's file, both as CdromDisc has it.     *)
(***************************************************************************)
EXTENDS CdromDisc

CONSTANTS
  Discs,     \* the discs considered
  Paths,     \* the paths asked for, as sequences of names
  MaxLoads,  \* loads considered
  MaxFails   \* reads of good sectors that may fail

NoSector == -1    \* a number no sector of a disc has
NoFile   == 0     \* what load_file() answers for a file that is not there

ASSUME DiscAssumption ==
  \A d \in Discs : \A s \in DOMAIN d : s \in Nat /\ d[s] \in Sector
ASSUME FiniteAssumption == \A d \in Discs : IsFiniteSet(DOMAIN d)
ASSUME PathAssumption == Paths \subseteq Seq(Names) \ {<<>>}
ASSUME BoundAssumption ==
  Names # {} /\ Cells \in Nat \ {0} /\ MaxLoads \in Nat /\ MaxFails \in Nat

VARIABLES
  disc,
  voldesc,  \* where the volume descriptor puts the root directory
  sector_in_buf,
  tmpbuf,
  rr,
  pc,
  area,     \* the system use area in memory
  loads,
  path,
  k,        \* the element looked for
  block,    \* of the directory, then of the file
  size,
  offset,
  dirent,
  image,    \* the caller's buffer
  result,
  fails,
  fault,
  suspect,
  sound,
  wanted

handle == <<disc, voldesc, sound, wanted, rr, suspect>>
cache  == <<sector_in_buf, tmpbuf, fails, fault>>
asked  == <<loads, path>>
walk   == <<asked, k, block, size, offset, dirent>>
vars   == <<handle, cache, pc, area, walk, image, result>>

Init ==
  /\ disc \in Discs
  /\ sound = {p \in Paths : Sound(disc, p)}
  /\ wanted = [p \in Paths |-> Content(disc, p)]
  /\ sector_in_buf \in {VolumeSector, NoSector} /\ tmpbuf \in DOMAIN disc
  /\ voldesc = [block |-> 0, size |-> 0] /\ rr = FALSE /\ pc = "volume" /\ area = <<>>
  /\ loads = 0 /\ path = <<>> /\ k = 1
  /\ block = 0 /\ size = 0 /\ offset = 0 /\ dirent = Padding
  /\ image = <<>> /\ result = 0
  /\ fails = 0 /\ fault = FALSE /\ suspect = FALSE

-----------------------------------------------------------------------------
(* cdrom_read() of something in one sector.  Its first and last branch are *)
(* the same but for the place in the sector.                               *)

Hit(s) == sector_in_buf = s

\* Slip: the sector read is not noted.
FilledUnnoted(s) == sector_in_buf' = sector_in_buf /\ tmpbuf' = s

Filled(s) == sector_in_buf' = s /\ tmpbuf' = s

Read(s) ==
  \/ /\ Hit(s)
     /\ fault' = (fault \/ tmpbuf # s)
     /\ UNCHANGED <<sector_in_buf, tmpbuf, fails>>
  \/ /\ ~Hit(s) /\ s \in DOMAIN disc
     /\ Filled(s)
     /\ UNCHANGED <<fails, fault>>

\* block_read() fails for a sector the disc does not have, and now and then.
Unread(s) ==
  /\ fault' = TRUE
  /\ \/ s \notin DOMAIN disc /\ UNCHANGED fails
     \/ s \in DOMAIN disc /\ fails < MaxFails /\ fails' = fails + 1

ReadFails(s) ==
  /\ ~Hit(s) /\ Unread(s)
  /\ tmpbuf' \in {tmpbuf} \cup ({s} \cap DOMAIN disc)
  /\ UNCHANGED sector_in_buf

-----------------------------------------------------------------------------
(* iterate_entries().                                                      *)

\* The first entry that ends the loop over an area, 0 if none does.
Stop(sigs) ==
  LET x == {y \in DOMAIN area : area[y].sig \in sigs}
  IN  IF x = {} THEN 0 ELSE Least(x)
StopFor(sig) == Stop({sig, "CE", "ST", "zero"})
StopsAt(sig, what) == StopFor(sig) # 0 /\ area[StopFor(sig)].sig = what

\* Through all entries, to ST, or to a continuation that cannot be read.
ScanFinds(sig) == StopsAt(sig, sig)
ScanEnds(sig) == StopFor(sig) = 0 \/ StopsAt(sig, "ST")
ScanBreaks(sig) == StopsAt(sig, "CE") /\ ReadFails(area[StopFor(sig)].to)

\* Slip: the sector of the area read before is kept.
ContinueSame(sig) ==
  /\ StopsAt(sig, "CE") /\ Read(area[StopFor(sig)].to)
  /\ area' = area

Continue(sig) ==
  /\ StopsAt(sig, "CE") /\ Read(area[StopFor(sig)].to)
  /\ area' = AreaAt(disc, tmpbuf')

\* An entry of length 0 is looked at for ever.
ScanStuck(sig) == StopsAt(sig, "zero") /\ UNCHANGED vars

-----------------------------------------------------------------------------
(* cdrom_create().                                                         *)

\* With no record at the root's beginning the length of its area comes out
\* negative, and nothing that follows is defined.
CreateFails ==
  /\ \/ pc = "volume" /\ ReadFails(VolumeSector)
     \/ /\ pc = "volume" /\ Read(VolumeSector) /\ ~Is(disc, tmpbuf', "volume")
     \/ pc = "root" /\ ReadFails(voldesc.block)
     \/ pc = "root" /\ Read(voldesc.block) /\ RecordAt(disc, tmpbuf', 0).len = 0
  /\ pc' = "failed"
  /\ UNCHANGED <<handle, area, walk, image, result>>

ReadVolume ==
  /\ pc = "volume" /\ Read(VolumeSector) /\ Is(disc, tmpbuf', "volume")
  /\ voldesc' = [block |-> disc[tmpbuf'].block, size |-> disc[tmpbuf'].size]
  /\ pc' = "root" /\ suspect' = fault'
  /\ UNCHANGED <<disc, sound, wanted, rr, area, walk, image, result>>

\* The root's first record, and its area, which lies in the same sector.
ReadRoot ==
  /\ pc = "root" /\ Read(voldesc.block) /\ RecordAt(disc, tmpbuf', 0).len # 0
  /\ area' = RecordAt(disc, tmpbuf', 0).sua
  /\ pc' = IF area' # <<>> /\ area'[1].sig = "SP" THEN "rr" ELSE "ready"
  /\ suspect' = (suspect \/ fault')
  /\ UNCHANGED <<disc, voldesc, sound, wanted, rr, walk, image, result>>

RockRidgeContinues ==
  /\ pc = "rr" /\ Continue("RR")
  /\ suspect' = (suspect \/ fault')
  /\ UNCHANGED <<disc, voldesc, sound, wanted, rr, pc, walk, image, result>>

RockRidgeFound ==
  /\ pc = "rr" /\ ScanFinds("RR")
  /\ rr' = TRUE /\ pc' = "ready"
  /\ UNCHANGED <<disc, voldesc, sound, wanted, suspect, cache, area, walk, image, result>>

NoRockRidge ==
  /\ pc = "rr"
  /\ \/ ScanEnds("RR") /\ UNCHANGED cache
     \/ ScanBreaks("RR")
  /\ suspect' = (suspect \/ fault') /\ pc' = "ready"
  /\ UNCHANGED <<disc, voldesc, sound, wanted, rr, area, walk, image, result>>

-----------------------------------------------------------------------------
(* fs_cdrom_find_file().                                                   *)

Load ==
  /\ pc = "ready" /\ loads < MaxLoads
  /\ loads' = loads + 1 /\ fault' = FALSE
  /\ path' \in Paths /\ k' = 1
  /\ block' = voldesc.block /\ size' = voldesc.size /\ offset' = 0
  /\ image' = <<>>
  /\ pc' = "dirent"
  /\ UNCHANGED <<handle, sector_in_buf, tmpbuf, fails, area, dirent, result>>

Answer(n) == pc' = "ready" /\ result' = n

\* Slip: one element too many.
AtLastPast == k > Len(path)

AtLast == k = Len(path)
Here == block + (offset \div Cells)

\* The next sector's beginning.
Skip == (offset \div Cells + 1) * Cells

\* The fixed part of a record is read whole: where less than that is left of
\* the padding, the read goes on into the next sector.
Held == IF Hit(Here) THEN tmpbuf ELSE Here
AtSectorsEnd ==
  /\ offset % Cells = Cells - 1
  /\ Hit(Here) \/ Here \in DOMAIN disc
  /\ RecordAt(disc, Held, offset % Cells).len = 0

ReadOn ==
  /\ AtSectorsEnd /\ Here + 1 \in DOMAIN disc
  /\ Filled(Here + 1)
  /\ fault' = (fault \/ Held # Here)
  /\ UNCHANGED fails

\* It is no fault if the disc ends there.
ReadOnFails ==
  /\ AtSectorsEnd
  /\ \/ /\ Here + 1 \notin DOMAIN disc
        /\ tmpbuf' = Held
        /\ fault' = (fault \/ Held # Here)
        /\ UNCHANGED fails
     \/ /\ Here + 1 \in DOMAIN disc /\ Unread(Here + 1)
        /\ tmpbuf' \in {Held, Here + 1}
  /\ sector_in_buf' = Here

Skipped ==
  /\ pc = "dirent" /\ offset < size
  /\ \/ Read(Here) /\ RecordAt(disc, tmpbuf', offset % Cells).len = 0
     \/ ReadOn
  /\ offset' = Skip
  /\ UNCHANGED <<handle, pc, area, asked, k, block, size, dirent, image, result>>

\* The area lies in the record's sector.
ReadDirent ==
  /\ pc = "dirent" /\ offset < size
  /\ Read(Here)
  /\ dirent' = RecordAt(disc, tmpbuf', offset % Cells) /\ dirent'.len # 0
  /\ area' = dirent'.sua
  /\ pc' = IF rr THEN "nm" ELSE "iso"
  /\ UNCHANGED <<handle, asked, k, block, size, offset, image, result>>

\* Nothing found in the directory: the loop over the elements goes on with
\* the next one, at the directory's end.
NextElement ==
  /\ pc = "dirent" /\ offset >= size /\ ~AtLast
  /\ k' = k + 1
  /\ UNCHANGED <<handle, cache, pc, area, asked, block, size, offset,
                 dirent, image, result>>

Missing ==
  /\ \/ pc = "dirent" /\ offset >= size /\ AtLast /\ UNCHANGED cache
     \/ pc = "dirent" /\ offset < size /\ (ReadFails(Here) \/ ReadOnFails)
     \/ pc = "iso" /\ ReadFails(Here)
  /\ Answer(NoFile)
  /\ UNCHANGED <<handle, area, walk, image>>

\* Slip: a file taken for a directory.
FitsAny(name) == Same(name, path[k])

Fits(name) == Same(name, path[k]) /\ dirent.dir = ~AtLast

\* The record's name is compared: on to the next record, directory or file.
Compare(name) ==
  /\ IF Fits(name)
     THEN /\ block' = dirent.block /\ size' = dirent.size /\ offset' = 0
          /\ IF AtLast THEN pc' = "whole" /\ UNCHANGED k
                     ELSE pc' = "dirent" /\ k' = k + 1
     ELSE /\ offset' = offset + dirent.len
          /\ pc' = "dirent"
          /\ UNCHANGED <<block, size, k>>
  /\ UNCHANGED <<handle, asked, dirent, image, result>>

NmContinues ==
  /\ pc = "nm" /\ Continue("NM")
  /\ UNCHANGED <<handle, pc, walk, image, result>>

NmFound ==
  /\ pc = "nm" /\ ScanFinds("NM")
  /\ area[StopFor("NM")].name # NoName
  /\ Compare(area[StopFor("NM")].name)
  /\ UNCHANGED <<cache, area>>

\* No name there: the ISO name is used.
NoNm ==
  /\ pc = "nm"
  /\ \/ ScanEnds("NM") /\ UNCHANGED cache
     \/ ScanFinds("NM") /\ area[StopFor("NM")].name = NoName /\ UNCHANGED cache
     \/ ScanBreaks("NM")
  /\ pc' = "iso"
  /\ UNCHANGED <<handle, area, walk, image, result>>

IsoName ==
  /\ pc = "iso"
  /\ Read(Here)
  /\ Compare(RecordAt(disc, tmpbuf', offset % Cells).iso)
  /\ UNCHANGED area

Stuck == (pc = "rr" /\ ScanStuck("RR")) \/ (pc = "nm" /\ ScanStuck("NM"))

-----------------------------------------------------------------------------
(* fs_cdrom_load_file(): the whole sectors, straight to the caller, then   *)
(* the rest.  It looks at no error.                                        *)

Whole == size \div Cells
Rest  == size % Cells
CellsOf(s, n) == [x \in 1 .. n |-> <<s + ((x - 1) \div Cells), (x - 1) % Cells>>]

ReadWhole ==
  /\ pc = "whole" /\ block .. (block + Whole - 1) \subseteq DOMAIN disc
  /\ image' = CellsOf(block, Whole * Cells)
  /\ pc' = IF Rest > 0 THEN "rest" ELSE "end"
  /\ UNCHANGED <<handle, cache, area, walk, result>>

\* Slip: the rest is a whole sector.
RestWhole == Cells

RestRead == Rest

ReadRest ==
  /\ pc = "rest" /\ Read(block + Whole)
  /\ image' = image \o CellsOf(tmpbuf', RestRead)
  /\ pc' = "end"
  /\ UNCHANGED <<handle, area, walk, result>>

\* A read error is not reported.
LoadBreaks ==
  /\ \/ /\ pc = "whole"
        /\ \E s \in block .. (block + Whole - 1) : Unread(s)
        /\ UNCHANGED <<sector_in_buf, tmpbuf>>
     \/ pc = "rest" /\ ReadFails(block + Whole)
  /\ pc' = "end"
  /\ UNCHANGED <<handle, area, walk, image, result>>

LoadEnds ==
  /\ pc = "end" /\ Answer(size)
  /\ UNCHANGED <<handle, cache, area, walk, image>>

Next ==
  \/ CreateFails \/ ReadVolume \/ ReadRoot
  \/ RockRidgeContinues \/ RockRidgeFound \/ NoRockRidge
  \/ Load \/ Skipped \/ ReadDirent \/ NextElement \/ Missing
  \/ NmContinues \/ NmFound \/ NoNm \/ IsoName \/ Stuck
  \/ ReadWhole \/ ReadRest \/ LoadBreaks \/ LoadEnds

Spec == Init /\ [][Next]_vars

\* The program goes on; it is not its part to ask for another file.
FairSpec == Spec /\ WF_vars(Next /\ pc # "ready")

-----------------------------------------------------------------------------
(* Properties.                                                             *)

Cell == Nat \X (0 .. (Cells - 1))

TypeOK ==
  /\ disc \in Discs /\ voldesc \in [block : Nat, size : Nat]
  /\ sector_in_buf \in Nat \cup {NoSector} /\ tmpbuf \in DOMAIN disc
  /\ pc \in {"volume", "root", "rr", "ready", "dirent", "nm", "iso", "whole",
             "rest", "end", "failed"}
  /\ area \in Seq(Entry) /\ dirent \in Record
  /\ loads \in 0 .. MaxLoads /\ fails \in 0 .. MaxFails
  /\ path \in Paths \cup {<<>>}
  /\ pc \in {"dirent", "nm", "iso"} => k \in DOMAIN path
  /\ {k, block, size, offset, result} \subseteq Nat
  /\ image \in Seq(Cell) /\ {rr, fault, suspect} \subseteq BOOLEAN

\* As long as no good sector failed to be read and the handle's memory did not
\* happen to name a sector at the start, the cache holds the sector it says:
\* sectors that are not there, and are asked for all the same, do not harm it.
CacheCoherent ==
  (pc \notin {"volume", "failed"} /\ fails = 0 /\ ~suspect) => sector_in_buf = tmpbuf

\* Whatever is on the disc and in the cache, and whatever fails, no more is
\* put in the caller's buffer than the size the file's record gives, and as
\* much is answered when no read failed.
NeverBeyond ==
  /\ Len(image) <= size
  /\ (pc = "ready" /\ ~fault) => Len(image) = result

Trusted == path \in sound /\ ~suspect /\ ~fault

\* The driver keeps the promise of load_file() on every load in which no read
\* fails and the cache gives no other sector's bytes, for a handle made in
\* the same way: whatever was loaded before and whatever failed then, however
\* the names are spelled and spread over continued areas.
Promise == INSTANCE LoadFile WITH
  Missing <- NoFile,
  phase   <- CASE ~Trusted -> "broken"
               [] Trusted /\ pc = "ready" -> "idle"
               [] OTHER -> "loading",
  wanted  <- IF path = <<>> THEN {} ELSE wanted[path],
  got     <- image,
  answer  <- result

LoadsFile == Promise!Spec

\* On a disc that is sound for it, every load comes to an end.
Returns == (pc = "dirent" /\ Trusted) ~> (pc = "ready" \/ ~Trusted)
=============================================================================
