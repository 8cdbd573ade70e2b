---------------------------- MODULE MCElfLoader ----------------------------
(* Instances of ElfLoader for TLC.                                         *)
EXTENDS ElfLoader

\* A section for memory; the ones that hold code are read-only.
Hunk_(t, w, n, a) ==
  [type |-> t, alloc |-> TRUE, write |-> w, exec |-> ~w /\ t = "progbits",
   size |-> n, align |-> a, info |-> 0, relocs |-> <<>>]
Table ==
  [type |-> "table", alloc |-> FALSE, write |-> FALSE, exec |-> FALSE,
   size |-> 4, align |-> 1, info |-> 0, relocs |-> <<>>]
Rela(x, rs) ==
  [type |-> "rela", alloc |-> FALSE, write |-> FALSE, exec |-> FALSE,
   size |-> Len(rs), align |-> 1, info |-> x, relocs |-> rs]

In(x, v)  == [kind |-> "section", section |-> x, value |-> v]
Odd(kind) == [kind |-> kind, section |-> 0, value |-> 7]
R(t, sym, o, a) == [type |-> t, sym |-> sym, offset |-> o, addend |-> a]

\* Relocations of one section, to places in both sections, before and behind.
Relocs ==
  {<<R("ha", In(2, 0), 0, 3), R("lo", In(2, 0), 1, 3)>>,
   <<R("addr32", In(1, 2), 1, -1), R("rel32", In(2, 1), 3, 0)>>,
   <<R("addr32", Odd("sysbase"), 0, 0), R("addr32", In(2, 1), 2, 0)>>,
   <<R("rel24", In(2, 0), 0, 0), R("none", In(2, 0), 1, 0),
     R("addr32", Odd("abs"), 2, 0)>>,
   <<R("lo", In(1, 4), 2, 0), R("ha", In(1, 4), 4, 0)>>,
   <<R("addr32", Odd("undef"), 0, 0)>>,
   <<R("addr32", Odd("common"), 0, 0)>>,
   <<R("unknown", In(1, 0), 0, 0)>>}

Hunks ==
  {Hunk_(t, w, n, a) : t \in {"progbits", "nobits"}, w \in BOOLEAN,
                       n \in {0, 5}, a \in {1, 8}}
Small ==
  {Hunk_("progbits", FALSE, 6, 4), Hunk_("progbits", TRUE, 7, 16),
   Hunk_("nobits", TRUE, 9, 8), Hunk_("nobits", FALSE, 40, 8)}

Whole(s1, s2, x, rs) ==
  [good |-> TRUE, sh |-> <<s1, s2, Table, Rela(x, rs)>>]

Kernels == {Whole(s1, s2, 1, rs) : s1, s2 \in Hunks, rs \in Relocs}
Modules ==
  {Whole(s1, s2, x, rs) : s1, s2 \in Small, x \in {1},
     rs \in {<<R("ha", In(2, 2), 0, 0), R("lo", In(2, 2), 3, 0)>>}}
  \cup {[good |-> FALSE, sh |-> <<>>]}

\* Boots of both kinds of trouble: where hunks lie, and what relocations do.
MCBoots ==
  (Kernels \X Modules) \cup (Modules \X Modules \X Modules)
=============================================================================
