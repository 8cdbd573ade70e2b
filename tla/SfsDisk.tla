------------------------------- MODULE SfsDisk -------------------------------
(***************************************************************************)
(* A disk with the SFS file system (src/src/sfs.h) and what a path on it   *)
(* stands for, by the structure of the disk alone: reachability along its  *)
(* links, with no order of search.                                         *)
(*                                                                         *)
(* The disk maps the blocks that can be read to what they hold; a block    *)
(* outside its domain cannot be read, now or later.  An object is a name,  *)
(* whether it is a directory, and the two words of its union: `data' and   *)
(* `size' of a file, in a directory the same words are hashtable and       *)
(* firstdirblock.  Of a checksum only what the code looks at is kept:      *)
(* whether the value computed is zero.  A byte is known by its block and   *)
(* its place in it.                                                        *)
(***************************************************************************)
EXTENDS Integers, SequencesExt, FiniteSets

CONSTANTS
  Fold,      \* a name's form for strcasecmp()
  BlockSize  \* bytes of a block

Names == DOMAIN Fold
Extent == [next : Nat, blocks : Nat]
Object == [name : Names, dir : BOOLEAN, data : Nat, size : Nat]
RootBlock == [id : {"SRB"}, root : Nat, tree : Nat]
Container == [id : {"SOC"}, zero : BOOLEAN, objects : Seq(Object), next : Nat]
Leaf == [id : {"leaf"}, zero : BOOLEAN,
         nodes : Seq([key : Nat, next : Nat, blocks : Nat])]
Branch == [id : {"branch"}, zero : BOOLEAN,
           nodes : Seq([key : Nat, data : Nat])]
Other == [id : {"data"}]
Contents == RootBlock \cup Container \cup Leaf \cup Branch \cup Other

Same(m, n) == Fold[m] = Fold[n]
Least(S) == CHOOSE x \in S : \A y \in S : x <= y
Greatest(S) == CHOOSE x \in S : \A y \in S : y <= x

Is(d, b, id) == b \in DOMAIN d /\ d[b].id = id

AtMostOne(S) == \A x, y \in S : x = y

\* What can be reached from S by `step', a set for each block.
Reached(d, S, step) ==
  LET r[n \in 0 .. Cardinality(DOMAIN d)] ==
        IF n = 0 THEN S
        ELSE LET R == r[n - 1]
             IN  R \cup UNION {step[b] : b \in R \cap DOMAIN d}
  IN  r[Cardinality(DOMAIN d)]

Follow(d) ==
  [b \in DOMAIN d |-> IF d[b].id = "SOC" THEN {d[b].next} \ {0} ELSE {}]
Children(d) ==
  [b \in DOMAIN d |->
     IF d[b].id = "branch" THEN {n.data : n \in ToSet(d[b].nodes)} ELSE {}]

Chain(d, o) == Reached(d, {o.size} \ {0}, Follow(d))
Listed(d, o) ==
  UNION {ToSet(d[b].objects) : b \in {c \in Chain(d, o) : Is(d, c, "SOC")}}
Pages(d, b) == Reached(d, {b}, Children(d))

\* The first object of the root container; an empty one has no directory.
RootObject(d) ==
  IF d[d[0].root].objects # <<>> THEN d[d[0].root].objects[1]
  ELSE [name |-> CHOOSE n \in Names : TRUE, dir |-> TRUE, data |-> 0, size |-> 0]

\* The objects the first n elements of the path stand for.
Meant(d, p) ==
  LET m[n \in 0 .. Len(p)] ==
        IF n = 0 THEN {RootObject(d)}
        ELSE {o \in UNION {Listed(d, c) : c \in m[n - 1]} :
                Same(o.name, p[n]) /\ (n < Len(p) => o.dir)}
  IN  m

\* A directory whose containers are all there, each one once.
DirectorySound(d, o) ==
  /\ \A b \in Chain(d, o) : Is(d, b, "SOC") /\ ~d[b].zero
  /\ \A b \in Chain(d, o) :
       b \notin Reached(d, Follow(d)[b], Follow(d))

Extents(d) ==
  UNION {ToSet(d[p].nodes) :
           p \in {q \in Pages(d, d[0].tree) : Is(d, q, "leaf")}}

\* A tree of nodes that are not empty and in order, each key the least below
\* it or less.
PageSound(d, p) ==
  /\ Is(d, p, "leaf") \/ Is(d, p, "branch")
  /\ ~d[p].zero /\ d[p].nodes # <<>>
  /\ \A x, y \in DOMAIN d[p].nodes :
       x < y => d[p].nodes[x].key < d[p].nodes[y].key
  /\ p \notin UNION {Pages(d, c) : c \in Children(d)[p]}
  /\ d[p].id = "branch" => \A x \in DOMAIN d[p].nodes :
       \A l \in {q \in Pages(d, d[p].nodes[x].data) : Is(d, q, "leaf")} :
         \A e \in ToSet(d[l].nodes) :
           /\ d[p].nodes[x].key <= e.key
           /\ x < Len(d[p].nodes) => e.key < d[p].nodes[x + 1].key

\* What an extent gives of the `left' bytes that are still to come.
Given(e, left) ==
  LET here == IF left < e.blocks * BlockSize THEN left ELSE e.blocks * BlockSize
  IN  [x \in 1 .. here |-> <<e.key + ((x - 1) \div BlockSize),
                            ((x - 1) % BlockSize) + 1>>]
Readable(d, e) == e.key .. (e.key + e.blocks - 1) \subseteq DOMAIN d

\* The bytes from the extent of key b on, at most `left' of them, when there
\* are so many: the set is empty if the extents do not give as much.
Bytes(d, b, left) ==
  LET f[n \in 0 .. Cardinality(DOMAIN d)] ==
        [c \in Nat |-> [l \in Nat |->
          IF l = 0 THEN {<<>>}
          ELSE IF n = 0 \/ c = 0 THEN {}
          ELSE UNION {{Given(e, l) \o rest :
                         rest \in f[n - 1][e.next][l - Len(Given(e, l))]} :
                      e \in {x \in Extents(d) : x.key = c /\ Readable(d, x)}}]]
  IN  f[Cardinality(DOMAIN d)][b][left]

Mounts(d) == Is(d, 0, "SRB") /\ Is(d, d[0].root, "SOC")

Content(d, p) ==
  IF ~Mounts(d) THEN {}
  ELSE UNION {Bytes(d, o.data, o.size) : o \in Meant(d, p)[Len(p)]}

\* Whole as far as the path needs it, and naming no directory: sfs_find()
\* takes whatever has the last name.
Sound(d, p) ==
  /\ Mounts(d)
  /\ \A p2 \in Pages(d, d[0].tree) : PageSound(d, p2)
  /\ \A n \in 0 .. Len(p) :
       /\ AtMostOne(Meant(d, p)[n])
       /\ n < Len(p) => \A o \in Meant(d, p)[n] : DirectorySound(d, o)
  /\ \A o \in Meant(d, p)[Len(p)] : ~o.dir /\ Bytes(d, o.data, o.size) # {}
=============================================================================
