---------------------------- MODULE MCBootstrap ----------------------------
(* Instances of Bootstrap for TLC.                                         *)
EXTENDS Bootstrap

Root(t, p) == [type |-> t, num |-> 0, part |-> p]
E(r, o, m) == [root |-> r, other |-> o, modules |-> m]
R(es, r) == [entries |-> es, ret |-> r]

D == E(Root("default", 0), FALSE, 2)
T == E(Root("tftp", 0), FALSE, 1)
C == E(Root("cdrom", 0), FALSE, 1)
O == E(Root("default", 0), TRUE, 0)
\* ide roots: a partition of the table, the one before the first, and two that
\* name what there is not, a number that is a partition's only as a byte and
\* another disk.
I(p) == E(Root("ide", p), FALSE, 0)
Second == E([Root("ide", 0) EXCEPT !.num = 1], FALSE, 0)

\* Nothing, one entry of every kind, two entries, and an entry lost to the
\* caller by a reader that returns 0.
MCReaderResults ==
  {R(<<>>, 0), R(<<>>, 1), R(<<D>>, 0)}
    \cup {R(<<e>>, 1) : e \in {D, T, C, O, I(0), I(1), I(-1), I(2), I(256), Second}}
    \cup {R(<<D, I(1)>>, 1), R(<<T, D>>, 2)}
=============================================================================
