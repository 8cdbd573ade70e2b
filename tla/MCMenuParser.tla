---------------------------- MODULE MCMenuParser ----------------------------
(* Instances of MenuParser for TLC.                                        *)
EXTENDS MenuParser

L(w, a, r, c) == [word |-> w, arg |-> a, rest |-> r, cut |-> c]
Plain(w, a) == L(w, a, FALSE, FALSE)
UpTo(k, lines) == UNION {[1 .. m -> lines] : m \in 0 .. k}

MCArgs == {"1", "2", "tftp", "cdrom", "ide 0:3", "floppy"}
MCStrtol == [a \in MCArgs |-> IF a = "1" THEN 1 ELSE IF a = "2" THEN 2 ELSE 0]
MCIdeRoots == [a \in {"ide 0:3"} |-> <<0, 3>>]

\* Lines of menu.lst that decide the shape of the list.
ShapeLines ==
  {Plain("title", "1"), L("title", "1", FALSE, TRUE), Plain("title", "none"),
   Plain("kernel", "1"), Plain("other", "2"), Plain("default", "1"),
   Plain("blank", "none"), Plain("junk", "1")}
MCShapeTexts == UpTo(5, ShapeLines)

\* Bodies of one entry with a second one behind it.
FieldLines ==
  {L("kernel", "1", TRUE, FALSE), Plain("kernel", "2"), Plain("other", "2"),
   Plain("root", "tftp"), Plain("root", "cdrom"), Plain("root", "ide 0:3"),
   Plain("root", "floppy"), Plain("root", "none"), Plain("initrd", "1"),
   Plain("dtb", "2"), Plain("module", "1"), Plain("module", "2"),
   Plain("module", "none"), Plain("delay", "1"), Plain("delay", "none")}
MCFieldTexts ==
  {<<Plain("delay", "2"), Plain("title", "1")>> \o b
     \o <<Plain("title", "2"), Plain("kernel", "2")>> : b \in UpTo(3, FieldLines)}

\* Kicklayout: LABEL, EXEC, MODULE, and words that are none of its own.
KickLines ==
  {Plain("title", "1"), L("title", "1", FALSE, TRUE), L("kernel", "1", TRUE, FALSE),
   Plain("kernel", "none"), Plain("module", "2"), Plain("module", "none"),
   Plain("delay", "1"), Plain("blank", "none")}
MCKickTexts == UpTo(5, KickLines)

\* Either reader is given all of them: a file may have any name.
MCTexts == MCShapeTexts \cup MCFieldTexts \cup MCKickTexts

\* Enough to end inside an entry that names no kernel.
MCTailTexts == UpTo(4, {Plain("title", "1"), Plain("kernel", "1"), Plain("junk", "1")})
=============================================================================
