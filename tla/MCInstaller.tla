---------------------------- MODULE MCInstaller ----------------------------
(* Instances of Installer for TLC: every layout of a small reserved area.  *)
EXTENDS Installer

B(id, good, next, chunk) ==
  [id |-> id, good |-> good, next |-> next, run |-> 0, chunk |-> chunk]

\* The old list occupies the blocks of the sequence l; `tail' is what its last
\* block's next field says, `bad' its blocks with a wrong checksum.
Disk(r, l, parts, bad, tail) ==
  [b \in Block |->
     IF b = r THEN B("RDSK", TRUE, IF l = <<>> THEN tail ELSE l[1], 0)
     ELSE IF \E k \in DOMAIN l : l[k] = b
          THEN LET k == CHOOSE j \in DOMAIN l : l[j] = b
               IN  B("BOOT", b \notin bad, IF k = Len(l) THEN tail ELSE l[k + 1], k)
     ELSE IF b \in parts THEN B("PART", TRUE, NoBlock, 0)
     ELSE IF b \in Lo .. Hi THEN B("FREE", TRUE, NoBlock, 0)
     ELSE B("DATA", FALSE, NoBlock, 0)]

Lists(S) == {<<>>} \cup {<<a>> : a \in S}
              \cup {l \in S \X S : l[1] # l[2]}

\* All layouts with the RigidDiskBlock in block 0 or 1, an old list of up to
\* two blocks that ends, runs in a circle or has a bad block, and none.
MCDisks ==
  LET area == 1 .. Hi
  IN  UNION {
        {Disk(r, l, p, bad, tail) :
           p \in SUBSET (area \ {r, l[1], l[Len(l)]}),
           bad \in {{}, {l[Len(l)]}}, tail \in {NoBlock, l[1]}} :
        <<r, l>> \in {x \in {0, 1} \X (Lists(area) \ {<<>>}) :
                        \A k \in DOMAIN x[2] : x[2][k] # x[1]}}
      \cup {Disk(r, <<>>, p, {}, NoBlock) : r \in {0, 1}, p \in SUBSET (2 .. Hi)}
      \cup {[b \in Block |-> B("DATA", TRUE, NoBlock, 0)]}

\* The same disks with a partition block at the end of the reserved range.
FullDisks == {[d EXCEPT ![Hi] = B("PART", TRUE, NoBlock, 0)] : d \in MCDisks}
=============================================================================
