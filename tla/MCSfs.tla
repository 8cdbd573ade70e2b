-------------------------------- MODULE MCSfs --------------------------------
(* Instances of Sfs for TLC: one layout of blocks, with the links, keys,   *)
(* sizes and spread of a file varied, and blocks damaged.                  *)
EXTENDS Sfs

MCFold == [n \in {"kernel", "Kernel", "boot", "Boot", "x"} |->
             CASE n = "Kernel" -> "kernel" [] n = "Boot" -> "boot" [] OTHER -> n]
MCPaths == {<<"kernel">>, <<"boot", "Kernel">>, <<"Boot">>, <<"kernel", "x">>,
            <<"x", "kernel">>}
MCStrays == {[next |-> 0, blocks |-> 2], [next |-> 8, blocks |-> 0]}

\* Containers 1 (root), 2, 3 (root directory) and 4 (boot); pages 5 (branch),
\* 6 and 7; two extents of the file kernel from 8 and 11, and one of another
\* file, 10, between them.
File(s) == [name |-> "kernel", dir |-> FALSE, data |-> IF s = 0 THEN 0 ELSE 8,
            size |-> s]
Boot == [name |-> "boot", dir |-> TRUE, data |-> 9, size |-> 4]
SOC(objects, link) ==
  [id |-> "SOC", zero |-> FALSE, objects |-> objects, next |-> link]
E(key, link, blocks) == [key |-> key, next |-> link, blocks |-> blocks]
Pg(id, nodes) == [id |-> id, zero |-> FALSE, nodes |-> nodes]

Volume == <<[name |-> "x", dir |-> TRUE, data |-> 0, size |-> 2]>>

\* `dirs' are the objects of 2, 3 and 4 and the links of 2 and 3; `top' is
\* the first page, `keys' the keys of the branch.
Disk(dirs, top, keys, extents) ==
  (0 :> [id |-> "SRB", root |-> 1, tree |-> top]) @@ (1 :> SOC(Volume, 0)) @@
  (2 :> SOC(dirs[1], dirs[4])) @@ (3 :> SOC(dirs[2], dirs[5])) @@
  (4 :> SOC(dirs[3], 0)) @@
  (5 :> Pg("branch", <<[key |-> keys[1], data |-> 6], [key |-> keys[2], data |-> 7]>>)) @@
  (6 :> Pg("leaf", IF top = 6 THEN extents ELSE SubSeq(extents, 1, 2))) @@
  (7 :> Pg("leaf", SubSeq(extents, 3, 3))) @@
  [b \in 8 .. 12 |-> [id |-> "data"]]

Damaged(d, b, z) ==
  [x \in DOMAIN d \ b |->
     IF x \in z THEN [d[x] EXCEPT !.zero = TRUE] ELSE d[x]]

Plain == <<E(8, 11, 2), E(10, 0, 1), E(11, 0, 1)>>

\* The file in the first container, the second or the subdirectory, chains
\* that end, go on or run in a circle.
Directories ==
  {<<o[1], o[2], o[3], n2, n3>> :
     o \in {<< <<File(5), Boot>>, <<>>, <<>> >>, << <<Boot>>, <<File(5)>>, <<>> >>,
            << <<Boot, File(3)>>, <<>>, <<File(5)>> >>,
            << <<>>, <<Boot>>, <<File(5)>> >>, << <<Boot>>, <<>>, <<Boot>> >>},
     n2 \in {0, 2, 3}, n3 \in {0, 2, 9}}

DirectoryDisks ==
  {Damaged(Disk(o, 6, <<0, 11>>, Plain), b, z) :
     o \in Directories, b \in {{}, {1}, {2}, {3}, {4}}, z \in {{}, {3}}}

\* Extents of every length, that end, go on or run in a circle, files that end
\* in the midst of a block or before the last, and pages that are missing,
\* refused or have keys too large.
FileDisks ==
  {Damaged(Disk(<< <<File(s)>>, <<>>, <<>>, 0, 0>>, top, keys,
                <<E(8, n1, b1), E(10, 0, 1), E(11, n2, b2)>>), b, z) :
     s \in 0 .. 6, top \in {5, 6}, keys \in {<<0, 11>>, <<8, 11>>, <<9, 12>>},
     n1 \in {0, 8, 11}, b1 \in 0 .. 2, n2 \in {0, 8}, b2 \in 1 .. 2,
     b \in {{}, {6}, {9}}, z \in {{}, {7}}}

NoDisk == Damaged(Disk(<< <<>>, <<>>, <<>>, 0, 0>>, 6, <<0, 0>>, Plain), {0}, {})

MCLoads ==
  [disk : DirectoryDisks, path : MCPaths]
    \cup [disk : FileDisks \cup {NoDisk}, path : {<<"kernel">>}]
=============================================================================
