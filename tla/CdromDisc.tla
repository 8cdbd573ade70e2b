------------------------------ MODULE CdromDisc ------------------------------
(***************************************************************************)
(* A disc with the ISO 9660 file system and the Rock Ridge extensions (the *)
(* structures of src/src/cdrom.c) and what a path on it stands for, by the *)
(* structure of the disc alone.                                            *)
(*                                                                         *)
(* A sector has Cells cells.  A directory record fills the `len' cells     *)
(* from the one that holds it here; the rest of its cells and the padding  *)
(* at the end of a sector read as zeros, like everything that is no        *)
(* directory.  `iso' is the name with its version cut off, `dir' says that *)
(* the flags are those of a directory not hidden, `sua' is the record's    *)
(* system use area: entries with a signature, for NM a name (NoName if     *)
(* empty), for CE the sector of the area it continues in.  An entry "zero" *)
(* has length 0.                                                           *)
(***************************************************************************)
EXTENDS Integers, SequencesExt

CONSTANTS
  Fold,   \* a name's form for strcasecmp()
  Cells   \* cells of a sector, 2048 in the code

VolumeSector == 0    \* 16 in the code
NoName == "no name"

Names == DOMAIN Fold
Entry ==
  [sig : {"SP", "RR", "NM", "PX", "CE", "ST", "zero"},
   name : Names \cup {NoName}, to : Nat]
Record ==
  [len : Nat, iso : Names, dir : BOOLEAN, block : Nat, size : Nat,
   sua : Seq(Entry)]
Sector ==
  [kind : {"volume"}, block : Nat, size : Nat]
    \cup [kind : {"dir"}, cells : [0 .. (Cells - 1) -> Record]]
    \cup [kind : {"susp"}, sua : Seq(Entry)] \cup [kind : {"data"}]

Same(m, n) == Fold[m] = Fold[n]
Least(S) == CHOOSE x \in S : \A y \in S : x <= y
Is(d, s, kind) == s \in DOMAIN d /\ d[s].kind = kind

Zeros == [sig |-> "zero", name |-> NoName, to |-> 0]
Padding == [len |-> 0, iso |-> CHOOSE n \in Names : TRUE, dir |-> FALSE,
            block |-> 0, size |-> 0, sua |-> <<Zeros>>]

\* What the bytes of a sector are when read as a record, or as an area.
RecordAt(d, s, cell) == IF Is(d, s, "dir") THEN d[s].cells[cell] ELSE Padding
AreaAt(d, s) == IF Is(d, s, "susp") THEN d[s].sua ELSE <<Zeros>>

-----------------------------------------------------------------------------

AtMostOne(S) == \A x, y \in S : x = y

\* The sectors an area says it is continued in, and those all its
\* continuations do: the least set with the links of its sectors.
To(area) == {e.to : e \in {x \in ToSet(area) : x.sig = "CE"}}
Closed(d, C) == \A s \in C : To(AreaAt(d, s)) \subseteq C
Continued(d, area) ==
  LET All == To(area) \cup UNION {To(AreaAt(d, s)) : s \in DOMAIN d}
  IN  {s \in All : \A C \in SUBSET All :
                     To(area) \subseteq C /\ Closed(d, C) => s \in C}

Areas(d, area) == {area} \cup {AreaAt(d, s) : s \in Continued(d, area)}
Entries(d, area) == UNION {ToSet(a) : a \in Areas(d, area)}

\* An area that ends, of entries that go on until it does.
AreaSound(d, area) ==
  /\ \A a \in Areas(d, area) : \A x \in DOMAIN a :
       /\ a[x].sig # "zero"
       /\ a[x].sig \in {"CE", "ST"} => x = Len(a)
  /\ \A s \in Continued(d, area) : s \notin Continued(d, AreaAt(d, s))
  /\ AtMostOne({e \in Entries(d, area) : e.sig = "NM"})

\* What is read as a record at a place in a directory.
At(d, f, place) == RecordAt(d, f.block + (place \div Cells), place % Cells)
Records(d, f) ==
  {r \in {At(d, f, x) : x \in 0 .. (f.size - 1)} : r.len > 0}

Mounts(d) == Is(d, VolumeSector, "volume")
Root(d) == [block |-> d[VolumeSector].block, size |-> d[VolumeSector].size]
RootArea(d) == RecordAt(d, Root(d).block, 0).sua

RockRidge(d) ==
  /\ RootArea(d) # <<>> /\ RootArea(d)[1].sig = "SP"
  /\ \E e \in Entries(d, RootArea(d)) : e.sig = "RR"

\* The Rock Ridge name, if there is one.
NameOf(d, r) ==
  LET nm == {e.name : e \in {x \in Entries(d, r.sua) : x.sig = "NM"}} \ {NoName}
  IN  IF nm # {} THEN CHOOSE n \in nm : TRUE ELSE r.iso

Named(d, r) == IF RockRidge(d) THEN NameOf(d, r) ELSE r.iso

\* What the first n elements of the path stand for: directories, at last a
\* file.
Suits(d, p, n, r) == Same(Named(d, r), p[n]) /\ r.dir = (n < Len(p))
Inside(d, p, n, f) ==
  {[block |-> r.block, size |-> r.size] :
     r \in {x \in Records(d, f) : Suits(d, p, n, x)}}
Meant(d, p) ==
  LET m[n \in 0 .. Len(p)] ==
        IF n = 0 THEN {Root(d)} ELSE UNION {Inside(d, p, n, f) : f \in m[n - 1]}
  IN  m

Bytes(f) ==
  [x \in 1 .. f.size |-> <<f.block + ((x - 1) \div Cells), (x - 1) % Cells>>]
Content(d, p) == IF Mounts(d) THEN {Bytes(f) : f \in Meant(d, p)[Len(p)]} ELSE {}

\* A directory whose records follow each other and do not overlap.
DirectorySound(d, f) ==
  LET rr == RockRidge(d)
  IN  \A x \in 0 .. (f.size - 1) :
        /\ Is(d, f.block + (x \div Cells), "dir")
        /\ At(d, f, x).len > 0 =>
             /\ (x % Cells) + At(d, f, x).len <= Cells
             /\ \A y \in (x + 1) .. (x + At(d, f, x).len - 1) : At(d, f, y).len = 0
             /\ x % Cells > 0 => \E y \in 0 .. (x - 1) :
                  At(d, f, y).len > 0 /\ y + At(d, f, y).len = x
             /\ rr => AreaSound(d, At(d, f, x).sua)

\* Whole as far as the path needs it, with names that differ.
Sound(d, p) ==
  /\ Mounts(d) /\ AreaSound(d, RootArea(d))
  /\ \A n \in 0 .. Len(p) :
       /\ AtMostOne(Meant(d, p)[n])
       /\ n < Len(p) => \A f \in Meant(d, p)[n] : DirectorySound(d, f)
  /\ \A f \in Meant(d, p)[Len(p)] :
       \A x \in 1 .. f.size : Bytes(f)[x][1] \in DOMAIN d
=============================================================================
