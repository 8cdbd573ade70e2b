--------------------------------- MODULE Sfs ---------------------------------
(***************************************************************************)
(* The SFS driver (src/src/sfs.c): sfs_create() and one sfs_loadfile().    *)
(*                                                                         *)
(* `buffer' is the block whose bytes the working buffer holds, NoBlock     *)
(* when it holds what the allocator left there; loadsector() leaves it     *)
(* alone when it fails.  `image' is the caller's buffer; its length is     *)
(* `readed'.  When the search of the tree leaves its nodes, or follows     *)
(* NULL, the extent it answers is any of Strays, or it goes on in any      *)
(* block.  A container is taken to end with an empty object, as one with   *)
(* room left does.                                                         *)
(*                                                                         *)
(* `sound' and `wanted' are history: whether the disk is whole as far as   *)
(* the path needs it, and the content of the file, both as SfsDisk has it. *)
(***************************************************************************)
EXTENDS SfsDisk

CONSTANTS
  Loads,   \* the disks considered, each with a path to be loaded from it
  Strays   \* what memory that holds no extent may look like

NoBlock == -1
NoFile  == -1

ASSUME DiskAssumption ==
  \A l \in Loads :
    /\ IsFiniteSet(DOMAIN l.disk)
    /\ \A b \in DOMAIN l.disk : b \in Nat /\ l.disk[b] \in Contents
ASSUME PathAssumption == \A l \in Loads : l.path \in Seq(Names) \ {<<>>}
ASSUME SizeAssumption == BlockSize \in Nat \ {0} /\ Strays \subseteq Extent

VARIABLES
  disk,
  path,
  pc,
  tree,     \* boot->extentbnoderoot
  k,        \* the element of the path looked for
  next,     \* the container, or the extent's first block
  buffer,
  size,     \* the file's
  at,       \* where get_bnode() is in the tree
  extent,   \* what it answered
  i,        \* the block of the extent to be read next
  image,
  result,
  sound,
  wanted

config == <<disk, path, sound, wanted>>
vars == <<config, pc, tree, k, next, buffer, size, at, extent, i, image, result>>

Init ==
  /\ \E l \in Loads : disk = l.disk /\ path = l.path
  /\ sound = Sound(disk, path) /\ wanted = Content(disk, path)
  /\ pc = "create" /\ tree = 0 /\ k = 1 /\ next = 0 /\ buffer = NoBlock
  /\ size = 0 /\ at = 0 /\ extent = [next |-> 0, blocks |-> 0] /\ i = 0
  /\ image = <<>> /\ result = 0

-----------------------------------------------------------------------------
(* sfs_create() and sfs_find().                                            *)

\* What loadsector() leaves in a buffer that held block `was'.
Loaded(b, was) == IF b \in DOMAIN disk THEN b ELSE was
Holds(b, id) == Is(disk, b, id)

\* The checksum computed is zero: calcchecksum() is compared with nothing.
Refused(b) == (Holds(b, "SOC") \/ Holds(b, "leaf") \/ Holds(b, "branch"))
                /\ disk[b].zero

\* The root object and the two numbers of the root block become the handle;
\* a root container that cannot be read leaves the root block in the buffer.
Create ==
  /\ pc = "create" /\ Mounts(disk)
  /\ tree' = disk[0].tree
  /\ next' = RootObject(disk).size
  /\ pc' = "chain"
  /\ UNCHANGED <<config, k, buffer, size, at, extent, i, image, result>>

CreateFails ==
  /\ pc = "create" /\ ~Mounts(disk)
  /\ pc' = "done" /\ result' = NoFile
  /\ UNCHANGED <<config, tree, k, next, buffer, size, at, extent, i, image>>

\* Every element but the last one must be a directory.
Fits(o) == Same(o.name, path[k]) /\ (k < Len(path) => o.dir)

\* sfs_findobject() in one container: each call has a buffer of its own, and
\* the object found becomes the directory of the next call, or the file.
SearchContainer ==
  /\ pc = "chain" /\ next # 0
  /\ LET b == Loaded(next, buffer)
     IN  /\ Holds(b, "SOC") /\ ~Refused(b)
         /\ LET found == {x \in DOMAIN disk[b].objects : Fits(disk[b].objects[x])}
            IN  IF found = {}
                THEN /\ buffer' = b /\ next' = disk[b].next
                     /\ UNCHANGED <<pc, k, size>>
                ELSE LET o == disk[b].objects[Least(found)]
                     IN  /\ buffer' = NoBlock /\ k' = k + 1
                         /\ IF k < Len(path)
                            THEN next' = o.size /\ UNCHANGED <<pc, size>>
                            ELSE /\ next' = o.data /\ size' = o.size
                                 /\ pc' = "extent"
  /\ UNCHANGED <<config, tree, at, extent, i, image, result>>

\* The chain ends, or leads to what is no container: no such file.
SearchEnds ==
  /\ pc = "chain"
  /\ next = 0 \/ LET b == Loaded(next, buffer)
                 IN  Refused(b) \/ ~Holds(b, "SOC")
  /\ pc' = "done" /\ result' = NoFile
  /\ UNCHANGED <<config, tree, k, next, buffer, size, at, extent, i, image>>

-----------------------------------------------------------------------------
(* sfs_loadfile() with get_bnode().                                        *)

readed == Len(image)

FileEnds ==
  /\ pc = "extent" /\ (next = 0 \/ readed >= size)
  /\ pc' = "done" /\ result' = readed
  /\ UNCHANGED <<config, tree, k, next, buffer, size, at, extent, i, image>>

NextExtent ==
  /\ pc = "extent" /\ next # 0 /\ readed < size
  /\ pc' = "tree" /\ at' = tree
  /\ UNCHANGED <<config, k, tree, next, buffer, size, extent, i, image, result>>

\* The nodes whose key is not above the one looked for; the code takes the
\* last of them.  Slip: not the key itself.
BelowOnly(b) == {x \in DOMAIN disk[b].nodes : disk[b].nodes[x].key < next}

Below(b) == {x \in DOMAIN disk[b].nodes : disk[b].nodes[x].key <= next}

\* What get_bnode() can look through: the id of a block is not tested.
Searchable(b) ==
  (Holds(b, "leaf") \/ Holds(b, "branch")) /\ ~Refused(b) /\ Below(b) # {}

Take(e) == pc' = "copy" /\ extent' = e /\ i' = 0 /\ UNCHANGED at

SearchLeaf ==
  /\ pc = "tree" /\ Holds(at, "leaf") /\ Searchable(at)
  /\ LET n == disk[at].nodes[Greatest(Below(at))]
     IN  Take([next |-> n.next, blocks |-> n.blocks])
  /\ UNCHANGED <<config, tree, k, next, buffer, size, image, result>>

\* Slip: the same page again.
SearchBranchAgain ==
  /\ pc = "tree" /\ Holds(at, "branch") /\ Searchable(at)
  /\ at' = tree
  /\ UNCHANGED <<config, pc, tree, k, next, buffer, size, extent, i, image, result>>

SearchBranch ==
  /\ pc = "tree" /\ Holds(at, "branch") /\ Searchable(at)
  /\ at' = disk[at].nodes[Greatest(Below(at))].data
  /\ UNCHANGED <<config, pc, tree, k, next, buffer, size, extent, i, image, result>>

\* A block that cannot be read ends the search with a node of the block above,
\* or NULL; with no key small enough the 16-bit index wraps, and whatever lies
\* behind the buffer is searched, for ever if nothing there has a small key.
SearchStrays ==
  /\ pc = "tree" /\ ~Searchable(at)
  /\ \/ \E e \in Strays : Take(e)
     \/ /\ at \in DOMAIN disk /\ ~Refused(at)
        /\ at' \in DOMAIN disk
        /\ UNCHANGED <<pc, extent, i>>
  /\ UNCHANGED <<config, tree, k, next, buffer, size, image, result>>

\* Slip: whole blocks only.
ToCopyWhole == BlockSize

\* tocopy: nothing is left to copy in the blocks of an extent behind the end.
ToCopy == IF size - readed >= BlockSize THEN BlockSize ELSE size - readed

More == i < extent.blocks

CopyBlock ==
  /\ pc = "copy" /\ More
  /\ buffer' = Loaded(next + i, buffer)
  /\ image' = image \o [x \in 1 .. ToCopy |-> <<buffer', x>>]
  /\ i' = i + 1
  /\ UNCHANGED <<config, pc, tree, k, next, size, at, extent, result>>

ExtentEnds ==
  /\ pc = "copy" /\ ~More
  /\ pc' = "extent" /\ next' = extent.next
  /\ UNCHANGED <<config, tree, k, buffer, size, at, extent, i, image, result>>

Next ==
  \/ Create \/ CreateFails \/ SearchContainer \/ SearchEnds
  \/ FileEnds \/ NextExtent \/ SearchLeaf \/ SearchBranch \/ SearchStrays
  \/ CopyBlock \/ ExtentEnds

Spec     == Init /\ [][Next]_vars
FairSpec == Spec /\ WF_vars(Next)

-----------------------------------------------------------------------------
(* Properties.                                                             *)

Byte == (Nat \cup {NoBlock}) \X (1 .. BlockSize)

TypeOK ==
  /\ \E l \in Loads : disk = l.disk /\ path = l.path
  /\ pc \in {"create", "chain", "extent", "tree", "copy", "done"}
  /\ k \in 1 .. (Len(path) + 1) /\ (pc = "chain" => k <= Len(path))
  /\ buffer \in DOMAIN disk \cup {NoBlock}
  /\ {tree, next, size, at, i} \subseteq Nat /\ extent \in Extent
  /\ (pc = "copy" => i <= extent.blocks)
  /\ image \in Seq(Byte) /\ result \in {NoFile} \cup Nat

\* Whatever the disk says, its directories loaded as files and its nodes
\* read from nowhere included, no more bytes are put in the caller's buffer
\* than the size of the object, and no more are reported.
NeverBeyond == readed <= size /\ result <= readed

\* On a sound disk the driver keeps the promise of load_file(): however the
\* path is spelled and the directories, the tree and the extents are spread,
\* the file's bytes arrive in order and whole, and a name that is not there
\* is said to be missing.
Promise == INSTANCE LoadFile WITH
  Missing <- NoFile,
  phase   <- CASE ~sound -> "broken"
               [] sound /\ pc \in {"create", "done"} -> "idle"
               [] OTHER -> "loading",
  wanted  <- wanted,
  got     <- image,
  answer  <- result

LoadsFile == Promise!Spec

\* On a sound disk every load ends.  (A circle of containers or of extents of
\* no blocks, or a container that cannot be read, is followed for ever.)
Returns == sound => <>(pc = "done")
=============================================================================
