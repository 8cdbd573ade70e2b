------------------------------ MODULE MCCdrom ------------------------------
(* Instances of Cdrom for TLC: one layout of sectors, with the places of   *)
(* the file, its size, the entries that name it and those of the root      *)
(* varied, and sectors missing.                                            *)
EXTENDS Cdrom

MCFold == [n \in {".", "kernel", "Kernel", "KERNEL1", "boot", "Boot", "x"} |->
             CASE n = "Kernel" -> "kernel" [] n = "Boot" -> "boot" [] OTHER -> n]
MCPaths == {<<"kernel">>, <<"boot", "Kernel">>, <<"x", "kernel">>, <<"boot">>}

Entry1(sig) == [sig |-> sig, name |-> NoName, to |-> 0]
NM(n) == [sig |-> "NM", name |-> n, to |-> 0]
CE(s) == [sig |-> "CE", name |-> NoName, to |-> s]
SP == Entry1("SP")
PX == Entry1("PX")
RR == Entry1("RR")
ST == Entry1("ST")

Rec(len, iso, dir, b, s, sua) ==
  [len |-> len, iso |-> iso, dir |-> dir, block |-> b, size |-> s, sua |-> sua]

\* A directory's sector, from the records at its cells.
Directory(records) ==
  [kind |-> "dir",
   cells |-> [c \in 0 .. (Cells - 1) |->
                IF c \in DOMAIN records THEN records[c] ELSE Padding]]

\* Sector 0 is the volume, 1 and 2 are the root directory, 3 is "boot", 4 and 5
\* are continued areas, 6 to 8 belong to the file.
Dot(sua) == Rec(1, ".", TRUE, 1, 6, sua)
File(s, sua) == Rec(2, "kernel", FALSE, 6, s, sua)
Boot(dir, sua) == Rec(1, "boot", dir, 3, 3, sua)
Empty == [c \in {} |-> Padding]

Disc(r, sub, more) ==
  (0 :> [kind |-> "volume", block |-> 1, size |-> 6]) @@
  (1 :> Directory(r[1])) @@ (2 :> Directory(r[2])) @@ (3 :> Directory(sub)) @@
  (4 :> [kind |-> "susp", sua |-> more[1]]) @@
  (5 :> [kind |-> "susp", sua |-> more[2]]) @@
  [x \in 6 .. 8 |-> [kind |-> "data"]]

Without(d, b) == [x \in DOMAIN d \ b |-> d[x]]

\* Plain discs: the file at a sector's end, beginning or in the subdirectory,
\* of every size up to three sectors, "boot" a directory or not, sectors
\* missing.
PlainDiscs ==
  {Without(Disc(
     << (0 :> Dot(<<>>)) @@ (IF at = 1 THEN 1 :> File(s, <<>>) ELSE Empty),
        IF at = 2 THEN (0 :> File(s, <<>>)) @@ (2 :> Boot(dir, <<>>))
                  ELSE 0 :> Boot(dir, <<>>) >>,
     IF at = 3 THEN 0 :> File(s, <<>>) ELSE Empty, << <<>>, <<>> >>), b) :
     at \in 1 .. 3, s \in {0, 2, 3, 5, 6, 7}, dir \in BOOLEAN,
     b \in {{}, {2}, {7}, {0}}}

\* Rock Ridge discs: its mark at the root's record or continued, the name in
\* the record, continued, twice continued, empty or not there, areas that do
\* not end, run in a circle or are missing.
RockRidgeDiscs ==
  {Without(Disc(
     << (0 :> Dot(root)) @@ (1 :> Rec(1, "x", TRUE, 3, 3, x)),
        0 :> File(4, <<NM("x")>>) >>,
     0 :> Rec(2, "KERNEL1", FALSE, 7, 4, name), more), b) :
     root \in {<<SP, RR>>, <<SP, PX, CE(4)>>, <<SP, PX, ST>>, <<PX, SP, RR>>},
     x \in {<<PX, NM("boot")>>, <<NM(NoName)>>},
     name \in {<<NM("Kernel"), PX>>, <<PX>>, <<CE(4)>>, <<PX, CE(5)>>, <<Zeros>>,
               <<NM("x"), ST, NM("kernel")>>},
     more \in {<< <<RR, NM("kernel")>>, <<PX, CE(4)>> >>, << <<CE(5)>>, <<CE(4)>> >>,
               << <<PX, Zeros>>, <<NM("Kernel")>> >>},
     b \in {{}, {5}}}

\* Discs with no record where the root directory begins, and one with another
\* volume descriptor behind the first.
OddDiscs ==
  {(9 :> [kind |-> "volume", block |-> 3, size |-> 3]) @@
     Disc(<< 0 :> Dot(<<>>), 0 :> File(3, <<>>) >>, 0 :> File(5, <<>>), << <<>>, <<>> >>),
   Disc(<<Empty, Empty>>, Empty, << <<>>, <<>> >>),
   Without(Disc(<<Empty, Empty>>, Empty, << <<>>, <<>> >>), {1})}

MCDiscs == PlainDiscs \cup RockRidgeDiscs \cup OddDiscs
=============================================================================
