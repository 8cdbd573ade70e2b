----------------------------- MODULE MenuParser -----------------------------
(***************************************************************************)
(* The two menu readers of src/src/menu.c: fsm() for menu.lst and          *)
(* boot/menu.lst, kick_fsm() for Kickstart/Kicklayout.  Both are the same  *)
(* machine with other words; the actions below are the cases of the switch *)
(* on `status' and one step is one turn of the `while (parse)' loop.       *)
(*                                                                         *)
(* A text is the sequence of lines getline() delivers.  A line is          *)
(*   word : what the first word says: a directive, "blank" (nothing left   *)
(*          after comment and spaces are stripped) or "junk",              *)
(*   arg  : what follows the first word, NoArg if nothing,                 *)
(*   rest : for a kernel line, whether more follows the kernel's name,     *)
(*   cut  : whether something was stripped behind the last word (a comment,*)
(*          a space, the CR of CR LF).                                     *)
(* A title line met inside an entry is pushed back by the length of the    *)
(* STRIPPED line, so a cut one is read again from behind its beginning and *)
(* is no title any more; leading spaces do not matter.  The words of       *)
(* Kicklayout are named as their menu.lst equivalents: LABEL is "title",   *)
(* EXEC is "kernel", MODULE is "module".                                   *)
(*                                                                         *)
(* The buffer is not zero-terminated: when a file does not end in a        *)
(* newline its last line runs on into whatever the heap held, so a text is *)
(* any sequence whose last line may be more than the file's.               *)
(***************************************************************************)
EXTENDS Integers, Sequences, FiniteSets

CONSTANTS
  Dialects,   \* "menu.lst", "Kicklayout"
  Texts,      \* the texts read
  Args,       \* what may follow a word
  NoArg,
  Strtol,     \* the number strtol() reads in each argument
  IdeRoots    \* "ide D:P" arguments, as functions to <<D, P>>

ASSUME DialectAssumption == Dialects \subseteq {"menu.lst", "Kicklayout"}
ASSUME ArgAssumption ==
  /\ NoArg \notin Args
  /\ Strtol \in [Args -> Int]
  /\ DOMAIN IdeRoots \subseteq Args
  /\ \A a \in DOMAIN IdeRoots : IdeRoots[a] \in Int \X Int
  /\ {"tftp", "cdrom"} \cap DOMAIN IdeRoots = {}

Words ==
  {"title", "default", "delay", "kernel", "other", "root", "initrd", "dtb",
   "module", "blank", "junk"}

Line == [word : Words, arg : Args \cup {NoArg}, rest : BOOLEAN, cut : BOOLEAN]

ASSUME TextAssumption == Texts \subseteq Seq(Line)

VARIABLES
  dialect,  \* the reader called
  text,
  pos,      \* the number of the line at `offset'
  chopped,  \* offset points behind the beginning of a pushed-back line
  status,
  line,     \* the line last read
  entry,    \* the entry under construction
  kernel,   \* it has a kernel or other line
  menu,     \* the entries linked behind the header
  freed,    \* titles (by line number) of the entries freed
  header,   \* default_os and delay
  n,        \* kick_fsm() counts the entries linked before the end of file
  ret       \* what the reader returned

input  == <<dialect, text, pos, chopped, line>>
output == <<menu, freed, header, n, ret>>
vars   == <<dialect, text, pos, chopped, status, line, entry, kernel, menu,
            freed, header, n, ret>>

\* entry_alloc().  `at', the number of its title line, stands for the title.
NewEntry(i) ==
  [at |-> i, kernel |-> NoArg, append |-> NoArg, other |-> NoArg,
   initrd |-> NoArg, dtb |-> NoArg, modules |-> <<>>,
   device_type |-> "default", device_num |-> 0, partition |-> 0]

Entry ==
  [at : Nat, kernel : Args \cup {NoArg}, append : Args \cup {NoArg},
   other : Args \cup {NoArg}, initrd : Args \cup {NoArg},
   dtb : Args \cup {NoArg}, modules : Seq(Args),
   device_type : {"default", "ide", "tftp", "cdrom"},
   device_num : Int, partition : Int]

NoEntry == NewEntry(0)
NoLine  == [word |-> "blank", arg |-> NoArg, rest |-> FALSE, cut |-> FALSE]

Init ==
  /\ dialect \in Dialects /\ text \in Texts
  /\ pos = 1 /\ chopped = FALSE
  /\ status = "S"
  /\ line = NoLine
  /\ entry = NoEntry /\ kernel = FALSE
  /\ menu = <<>> /\ freed = {}
  /\ header = [default_os |-> 0, delay |-> 5]   \* as menu_load() sets it
  /\ n = 0 /\ ret = -1

-----------------------------------------------------------------------------
(* Reading a line and choosing what to do with it.                         *)

EndOfText == pos > Len(text)

Read ==
  /\ ~EndOfText
  /\ line' = text[pos]
  /\ pos' = pos + 1 /\ chopped' = FALSE
  /\ UNCHANGED <<dialect, text>>

\* Slip: a setting understood inside an entry too.
BodyWordsAndDefault ==
  IF dialect = "menu.lst"
  THEN {"kernel", "other", "root", "initrd", "dtb", "module", "default"}
  ELSE {"kernel", "module"}

\* The words that lead from an entry's body to a state of their own.
BodyWords ==
  IF dialect = "menu.lst"
  THEN {"kernel", "other", "root", "initrd", "dtb", "module"}
  ELSE {"kernel", "module"}

HeadWords ==
  IF dialect = "menu.lst" THEN {"title", "default", "delay"} ELSE {"title"}

\* Case S: anything but a whole head line is skipped, a chopped one too.
ReadOutside ==
  /\ status = "S"
  /\ Read
  /\ status' = IF ~chopped /\ line'.word \in HeadWords THEN line'.word ELSE "S"
  /\ UNCHANGED <<entry, kernel, output>>

EndOutside ==
  /\ status = "S" /\ EndOfText
  /\ status' = "done"
  /\ ret' = IF dialect = "menu.lst" THEN 1 ELSE n
  /\ UNCHANGED <<input, entry, kernel, menu, freed, header, n>>

\* Slip: an unknown word falls through instead of dropping the entry.
ReadBodyUnchecked ==
  /\ status = "IN"
  /\ Read
  /\ line'.word # "title"
  /\ status' = IF line'.word = "blank" THEN "IN" ELSE line'.word
  /\ UNCHANGED <<entry, kernel, output>>

\* Case IN.
ReadBody ==
  /\ status = "IN"
  /\ Read
  /\ line'.word # "title"
  /\ status' = CASE line'.word = "blank" -> "IN"
                 [] line'.word \in BodyWords -> line'.word
                 [] OTHER -> "R"
  /\ UNCHANGED <<entry, kernel, output>>

\* Slips: no push-back at all, and one that goes back a line too far.
PushBackNothing ==
  /\ ~EndOfText /\ text[pos].word = "title"
  /\ line' = text[pos]
  /\ pos' = pos + 1
  /\ UNCHANGED <<dialect, text, chopped>>
PushBackFar ==
  /\ ~EndOfText /\ text[pos].word = "title"
  /\ line' = text[pos]
  /\ pos' = pos - 1
  /\ UNCHANGED <<dialect, text, chopped>>

\* The line offset -= strlen(line) + 1 leads back to.
PushBack ==
  /\ ~EndOfText /\ text[pos].word = "title"
  /\ line' = text[pos]
  /\ chopped' = text[pos].cut
  /\ UNCHANGED <<dialect, text, pos>>

NextTitle ==
  /\ status = "IN"
  /\ PushBack
  /\ status' = IF kernel THEN "A" ELSE "R"
  /\ UNCHANGED <<entry, kernel, output>>

EndInBody ==
  /\ status = "IN" /\ EndOfText
  /\ status' = IF kernel THEN "AQ" ELSE "RQ"
  /\ UNCHANGED <<input, entry, kernel, output>>

-----------------------------------------------------------------------------
(* The directives.                                                         *)

\* Slip: `kernel' still set from the entry before.
TitleKeepsKernel ==
  /\ status = "title"
  /\ IF line.arg = NoArg
     THEN status' = "S" /\ UNCHANGED entry
     ELSE status' = "IN" /\ entry' = NewEntry(pos - 1)
  /\ UNCHANGED <<input, kernel, output>>

\* Case TIT.
Title ==
  /\ status = "title"
  /\ IF line.arg = NoArg
     THEN status' = "S" /\ UNCHANGED <<entry, kernel>>
     ELSE status' = "IN" /\ entry' = NewEntry(pos - 1) /\ kernel' = FALSE
  /\ UNCHANGED <<input, output>>

\* Cases DEF and DLY, outside entries only: these fields are the header's.
Setting(w, field) ==
  /\ status = w
  /\ status' = "S"
  /\ header' = IF line.arg = NoArg THEN header
               ELSE [header EXCEPT ![field] = Strtol[line.arg]]
  /\ UNCHANGED <<input, entry, kernel, menu, freed, n, ret>>

Default == Setting("default", "default_os")
Delay   == Setting("delay", "delay")

\* A directive of the body without its argument drops the entry.
Body(w, updated, k) ==
  /\ status = w
  /\ IF line.arg = NoArg
     THEN status' = "R" /\ UNCHANGED <<entry, kernel>>
     ELSE status' = "IN" /\ entry' = updated /\ kernel' = (k \/ kernel)
  /\ UNCHANGED <<input, output>>

\* Case K: a line without arguments to append leaves an earlier append.
Kernel ==
  Body("kernel",
       [entry EXCEPT !.kernel = line.arg,
                     !.append = IF line.rest THEN line.arg ELSE @], TRUE)
Other  == Body("other", [entry EXCEPT !.other = line.arg], TRUE)
Initrd == Body("initrd", [entry EXCEPT !.initrd = line.arg], FALSE)
Dtb    == Body("dtb", [entry EXCEPT !.dtb = line.arg], FALSE)
Module ==
  Body("module", [entry EXCEPT !.modules = Append(@, line.arg)], FALSE)

RootKnown(a) == a \in {"tftp", "cdrom"} \cup DOMAIN IdeRoots

\* The entry's device: an ide root counts its partitions from one.
Rooted(e, a) ==
  CASE a = "tftp"  -> [e EXCEPT !.device_type = "tftp"]
    [] a = "cdrom" -> [e EXCEPT !.device_type = "cdrom"]
    [] OTHER -> [e EXCEPT !.device_type = "ide",
                          !.device_num = IdeRoots[a][1],
                          !.partition = IdeRoots[a][2] - 1]

\* Case RT.
Root ==
  /\ status = "root"
  /\ IF line.arg # NoArg /\ RootKnown(line.arg)
     THEN status' = "IN" /\ entry' = Rooted(entry, line.arg)
     ELSE status' = "R" /\ UNCHANGED entry
  /\ UNCHANGED <<input, kernel, output>>

-----------------------------------------------------------------------------
(* The ends of an entry.                                                   *)

\* Slip: the reader goes on filling in the entry it has linked.
AcceptStays ==
  /\ status = "A"
  /\ menu' = Append(menu, entry)
  /\ n' = n + 1
  /\ status' = "IN"
  /\ UNCHANGED <<input, entry, kernel, freed, header, ret>>

\* Case A.
Accept ==
  /\ status = "A"
  /\ menu' = Append(menu, entry)
  /\ n' = n + 1
  /\ status' = "S"
  /\ UNCHANGED <<input, entry, kernel, freed, header, ret>>

\* Case R: `entry' is left pointing to what was freed.
Reject ==
  /\ status = "R"
  /\ freed' = freed \cup {entry.at}
  /\ status' = "S"
  /\ UNCHANGED <<input, entry, kernel, menu, header, n, ret>>

\* Case AQ.
AcceptLast ==
  /\ status = "AQ"
  /\ menu' = Append(menu, entry)
  /\ ret' = 1
  /\ status' = "done"
  /\ UNCHANGED <<input, entry, kernel, freed, header, n>>

\* Case RQ: the reader returns 0 whatever it linked before.
RejectLast ==
  /\ status = "RQ"
  /\ freed' = freed \cup {entry.at}
  /\ ret' = 0
  /\ status' = "done"
  /\ UNCHANGED <<input, entry, kernel, menu, header, n>>

Next ==
  \/ ReadOutside \/ EndOutside
  \/ ReadBody \/ NextTitle \/ EndInBody
  \/ Title \/ Default \/ Delay
  \/ Kernel \/ Other \/ Root \/ Initrd \/ Dtb \/ Module
  \/ Accept \/ Reject \/ AcceptLast \/ RejectLast

Spec     == Init /\ [][Next]_vars
FairSpec == Spec /\ WF_vars(Next)

-----------------------------------------------------------------------------
(* What a text means, with no machine: its blocks.  The block of a title   *)
(* runs to the next title line or to the end of the text.                  *)

Titles == {i \in DOMAIN text : text[i].word = "title"}

Block(i) == {j \in (i + 1) .. Len(text) : Titles \cap (i + 1) .. j = {}}

WellFormed(l) ==
  \/ l.word = "blank"
  \/ l.word \in BodyWords \ {"root"} /\ l.arg # NoArg
  \/ l.word = "root" /\ l.word \in BodyWords /\ l.arg # NoArg /\ RootKnown(l.arg)

\* The titles whose block makes an entry.
Bootable ==
  {i \in Titles :
     /\ text[i].arg # NoArg
     /\ \A j \in Block(i) : WellFormed(text[j])
     /\ \E j \in Block(i) : text[j].word \in {"kernel", "other"}}

\* The lines of a block that say w, and what the last of them says.
Saying(i, w)  == {j \in Block(i) : text[j].word = w}
LastSaid(L) ==
  IF L = {} THEN NoArg ELSE text[CHOOSE j \in L : \A k \in L : k <= j].arg

\* The entry linked for the title of line i.
DescribedBy(e, i) ==
  /\ e.at = i
  /\ e.kernel = LastSaid(Saying(i, "kernel"))
  /\ e.append = LastSaid({j \in Saying(i, "kernel") : text[j].rest})
  /\ e.other  = LastSaid(Saying(i, "other"))
  /\ e.initrd = LastSaid(Saying(i, "initrd"))
  /\ e.dtb    = LastSaid(Saying(i, "dtb"))
  /\ Len(e.modules) = Cardinality(Saying(i, "module"))
  /\ \A j \in Saying(i, "module") :
       e.modules[Cardinality(Saying(i, "module") \cap (1 .. j))] = text[j].arg
  /\ LET ide == {j \in Saying(i, "root") : text[j].arg \in DOMAIN IdeRoots}
     IN  IF ide = {} THEN e.device_num = 0 /\ e.partition = 0
         ELSE LET at == IdeRoots[LastSaid(ide)]
              IN  e.device_num = at[1] /\ e.partition = at[2] - 1
  /\ e.device_type =
       LET r == LastSaid(Saying(i, "root"))
       IN  CASE r = NoArg -> "default"
             [] r \in DOMAIN IdeRoots -> "ide"
             [] OTHER -> r

Linked == {menu[k].at : k \in DOMAIN menu}

\* The lines that say w outside every block that is still good there.
Outside(w) ==
  {i \in DOMAIN text :
     /\ text[i].word = w /\ text[i].arg # NoArg /\ w \in HeadWords
     /\ \A t \in Titles :
          (i \in Block(t) /\ text[t].arg # NoArg) =>
            \E j \in (t + 1) .. (i - 1) : ~WellFormed(text[j])}

LastNumber(L, otherwise) ==
  IF L = {} THEN otherwise ELSE Strtol[LastSaid(L)]

\* The titles a push-back may lose: cut ones that end an earlier block.
AtRisk == {i \in Titles : text[i].cut /\ \E j \in Titles : j < i}

-----------------------------------------------------------------------------
(* Properties.                                                             *)

TypeOK ==
  /\ dialect \in Dialects /\ text \in Texts
  /\ pos \in 1 .. (Len(text) + 1)
  /\ chopped \in BOOLEAN /\ kernel \in BOOLEAN
  /\ status \in {"S", "IN", "A", "R", "AQ", "RQ", "done"}
                  \cup HeadWords \cup BodyWords
  /\ line \in Line
  /\ entry \in Entry /\ menu \in Seq(Entry)
  /\ freed \subseteq 1 .. Len(text)
  /\ header \in [default_os : Int, delay : Int]
  /\ n \in 0 .. Len(menu) /\ ret \in -1 .. (Len(menu) + 1)

\* Every entry in the list is a bootable block of the text, field by field,
\* in the order of the text and once: no field comes from a rejected or a
\* neighbouring block, whatever bad, chopped or empty lines lie between.
MenuIsBlocks ==
  /\ \A k \in DOMAIN menu : \E i \in Bootable : DescribedBy(menu[k], i)
  /\ \A k \in DOMAIN menu : k > 1 => menu[k - 1].at < menu[k].at

\* An entry is linked or freed, never both and never twice: entry_free()
\* and the walk to the end of the list find the block of memory theirs.
OneOwner ==
  /\ Linked \cap freed = {}
  /\ \A j, k \in DOMAIN menu : j # k => menu[j].at # menu[k].at
  /\ status \notin {"S", "default", "delay", "title", "done"} =>
       entry.at \notin Linked \cup freed

\* When the reader returns, every bootable block is in the list; only a
\* title with something stripped behind it, met while an entry was open,
\* may be missing.
NothingLost ==
  status = "done" => Bootable \subseteq Linked \cup AtRisk

\* The header's settings are the last ones given outside an open entry; one
\* given after an entry's title drops that entry instead.
SettingsOutsideBlocks ==
  (status = "done" /\ AtRisk = {}) =>
    /\ header.default_os = LastNumber(Outside("default"), 0)
    /\ header.delay = LastNumber(Outside("delay"), 5)

\* A line is never read for ever: the reader returns.
Returns == <>(status = "done")

\* The file was found and entries were linked, but 0 makes menu_load()
\* return NULL, as if there had been no file.
ZeroMeansNoEntries == (status = "done" /\ ret = 0) => menu = <<>>
=============================================================================
