-------------------------------- MODULE MCRdb --------------------------------
(* Instances of Rdb for TLC: disks of a few blocks with every partition    *)
(* list on them.                                                           *)
EXTENDS Rdb

G == [low |-> 1, high |-> 2, cylinder |-> 3]
R(next, good) == [id |-> "RDSK", good |-> good, next |-> next, geometry |-> G]
P(next, good) == [id |-> "PART", good |-> good, next |-> next, geometry |-> G]
X == [id |-> "other", good |-> TRUE, next |-> NoBlock, geometry |-> G]

\* The RigidDiskBlocks in block 0, good or not, and block 1, and lists of up
\* to four partitions in the blocks behind them: any successor of each, so
\* that lists end, meet, run in circles and lead to what is no partition; at
\* most one of them has a bad checksum; the last block may be unreadable.
Parts == 2 .. (Blocks - 1)
Heads == Parts \cup {NoBlock}
Links == [Parts -> Parts \cup {0, NoBlock}]

Disk(h0, good0, h1, links, bad) ==
  [k \in Block |-> CASE k = 0 -> R(h0, good0)
                     [] k = 1 -> R(h1, TRUE)
                     [] OTHER -> P(links[k], k # bad)]
Cut(d) == [k \in Block \ {Blocks - 1} |-> d[k]]

Full ==
  {Disk(h0, g, h1, l, bad) : h0 \in {2, NoBlock}, g \in BOOLEAN, h1 \in {2, 3},
                             l \in Links, bad \in {NoBlock, 3}}
MCDisks == Full \cup {Cut(d) : d \in Full} \cup {[k \in Block |-> X]}

\* One disk, a disk behind a unit that is none, two disks, and no disk.
MCUnitLists ==
  {<<d>> : d \in MCDisks} \cup {<<NoDisk>>}
    \cup {<<NoDisk, d, [k \in Block |-> X]>> : d \in Full}
=============================================================================
