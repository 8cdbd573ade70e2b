-------------------------- MODULE MenuParserProofs --------------------------
(***************************************************************************)
(* Theorems about MenuParser, for every text, dialect and argument.        *)
(***************************************************************************)
EXTENDS MenuParser, TLAPS, FiniteSetTheorems

\* The states in which an entry is open.
InEntry == {"IN", "A", "R", "AQ", "RQ"} \cup BodyWords

\* Where the reader is in the text, and how far entries are allocated.
ReaderInv ==
  /\ entry.at < pos
  /\ status \in {"title", "default", "delay"} => entry.at < pos - 1
  /\ status \in InEntry => entry.at >= 1

\* Titles are allocated in the order of the text: everything linked or freed
\* is the entry last allocated or comes before it.
OrderInv ==
  /\ \A i \in Linked \cup freed : i <= entry.at
  /\ status \in InEntry => \A i \in Linked \cup freed : i < entry.at
  /\ \A j, k \in DOMAIN menu : j < k => menu[j].at < menu[k].at
  /\ Linked \cap freed = {}

IInv == TypeOK /\ ReaderInv /\ OrderInv

-----------------------------------------------------------------------------

\* Line numbers of the list are numbers.
LEMMA LinkedNat ==
  ASSUME menu \in Seq(Entry)
  PROVE  Linked \subseteq Nat
  <1>1. \A e \in Entry : e.at \in Nat
    BY DEF Entry
  <1>2. \A k \in DOMAIN menu : menu[k] \in Entry
    OBVIOUS
  <1>3. QED
    BY <1>1, <1>2 DEF Linked

\* The text is a sequence of lines.
LEMMA TextType ==
  ASSUME text \in Texts
  PROVE  /\ text \in Seq(Line) /\ Len(text) \in Nat
         /\ \A i \in 1 .. Len(text) :
              /\ text[i] \in Line /\ text[i].cut \in BOOLEAN
              /\ text[i].arg \in Args \cup {NoArg}
  <1>1. text \in Seq(Line)
    BY TextAssumption
  <1>2. \A l \in Line : l.cut \in BOOLEAN /\ l.arg \in Args \cup {NoArg}
    BY DEF Line
  <1>3. Len(text) \in Nat /\ \A i \in 1 .. Len(text) : text[i] \in Line
    BY <1>1
  <1>4. QED
    BY <1>1, <1>2, <1>3

\* Init establishes the inductive invariant.
LEMMA InitIInv == Init => IInv
  <1> SUFFICES ASSUME Init PROVE IInv
    OBVIOUS
  <1>0. entry \in Entry /\ entry.at = 0
    BY DEF Init, NoEntry, NewEntry, Entry
  <1>1. TypeOK
    <2>1. line \in Line
      BY DEF Init, NoLine, Line, Words
    <2>2. menu \in Seq(Entry) /\ Len(menu) = 0
      BY DEF Init
    <2>3. Len(text) \in Nat /\ text \in Texts
      BY TextType DEF Init
    <2>4. header \in [default_os : Int, delay : Int]
      BY DEF Init
    <2>5. status = "S" /\ pos \in 1 .. (Len(text) + 1) /\ freed \subseteq 1 .. Len(text)
      BY <2>3 DEF Init
    <2>6. n \in 0 .. Len(menu) /\ ret \in -1 .. (Len(menu) + 1)
      BY <2>2 DEF Init
    <2>7. QED
      BY <1>0, <2>1, <2>2, <2>3, <2>4, <2>5, <2>6 DEF Init, TypeOK
  <1>2. ReaderInv
    BY <1>0 DEF Init, ReaderInv, InEntry, BodyWords
  <1>3. OrderInv
    BY <1>0 DEF Init, OrderInv, Linked, InEntry, BodyWords
  <1>4. QED
    BY <1>1, <1>2, <1>3 DEF IInv

\* Linking the open entry keeps the list in order and apart from the freed.
LEMMA LinkStep ==
  ASSUME TypeOK, ReaderInv, OrderInv, status \in InEntry,
         menu' = Append(menu, entry), UNCHANGED <<entry, freed>>,
         status' \notin InEntry, UNCHANGED dialect
  PROVE  OrderInv'
  <1> DEFINE m == Len(menu)
  <1>1. /\ m \in Nat /\ DOMAIN menu = 1 .. m
        /\ Len(menu') = m + 1 /\ DOMAIN menu' = 1 .. m + 1
        /\ \A k \in 1 .. m : menu'[k] = menu[k]
        /\ menu'[m + 1] = entry
    <2>1. menu \in Seq(Entry) /\ entry \in Entry
      BY DEF TypeOK
    <2> HIDE DEF m
    <2>2. QED
      BY <2>1 DEF m
  <1>2. Linked' = Linked \cup {entry.at}
    BY <1>1 DEF Linked
  <1>3. \A i \in Linked \cup freed : i < entry.at
    BY DEF OrderInv
  <1>4. \A k \in 1 .. m : menu[k].at < entry.at
    BY <1>1, <1>3 DEF Linked
  <1>5. \A j, k \in 1 .. m + 1 : j < k => menu'[j].at < menu'[k].at
    BY <1>1, <1>4 DEF OrderInv
  <1>6. entry.at \in Nat /\ Linked \cup freed \subseteq Nat
    <2>1. /\ text \in Texts /\ entry \in Entry /\ menu \in Seq(Entry)
          /\ freed \subseteq 1 .. Len(text)
      BY DEF TypeOK
    <2>2. Len(text) \in Nat
      BY <2>1, TextType
    <2>3. Linked \subseteq Nat
      BY <2>1, LinkedNat
    <2>4. entry.at \in Nat
      BY <2>1 DEF Entry
    <2>5. QED
      BY <2>1, <2>2, <2>3, <2>4
  <1> HIDE DEF m
  <1>7. entry.at \notin freed
    BY <1>3, <1>6
  <1>8. QED
    BY <1>1, <1>2, <1>3, <1>5, <1>6, <1>7 DEF OrderInv, InEntry, BodyWords

\* What the invariant says of the variables a step reads.
LEMMA Types ==
  ASSUME TypeOK
  PROVE  /\ text \in Texts /\ Len(text) \in Nat /\ pos \in 1 .. (Len(text) + 1)
         /\ line \in Line /\ line.arg \in Args \cup {NoArg}
         /\ entry \in Entry /\ entry.at \in Nat
         /\ menu \in Seq(Entry) /\ Len(menu) \in Nat
         /\ Linked \subseteq Nat
         /\ freed \subseteq 1 .. Len(text)
         /\ n \in 0 .. Len(menu) /\ ret \in -1 .. (Len(menu) + 1)
         /\ header \in [default_os : Int, delay : Int]
  <1>1. /\ text \in Texts /\ pos \in 1 .. (Len(text) + 1)
        /\ line \in Line /\ entry \in Entry
        /\ menu \in Seq(Entry) /\ freed \subseteq 1 .. Len(text)
        /\ n \in 0 .. Len(menu) /\ ret \in -1 .. (Len(menu) + 1)
        /\ header \in [default_os : Int, delay : Int]
    BY DEF TypeOK
  <1>2. Len(text) \in Nat
    BY <1>1, TextType
  <1>3. line.arg \in Args \cup {NoArg}
    BY <1>1 DEF Line
  <1>4. entry.at \in Nat
    BY <1>1 DEF Entry
  <1>5. Linked \subseteq Nat /\ Len(menu) \in Nat
    BY <1>1, LinkedNat
  <1>6. QED
    BY <1>1, <1>2, <1>3, <1>4, <1>5

\* A step that keeps the list, the freed entries and the entry under
\* construction, and stays in the same half of the machine, keeps the order.
LEMMA SameOrder ==
  ASSUME OrderInv, UNCHANGED <<dialect, menu, freed>>, entry'.at = entry.at,
         status' \in InEntry => status \in InEntry
  PROVE  OrderInv'
  BY DEF OrderInv, Linked, InEntry, BodyWords

\* Reading a line, or finding that there is none.
LEMMA ReadInv ==
  ASSUME IInv,
         ReadOutside \/ EndOutside \/ ReadBody \/ NextTitle \/ EndInBody
  PROVE  IInv'
  <1>0. TypeOK /\ ReaderInv /\ OrderInv
    BY DEF IInv
  <1>1. /\ dialect' = dialect /\ text' = text /\ pos' \in {pos, pos + 1} /\ pos' <= Len(text) + 1
        /\ chopped' \in BOOLEAN
        /\ line' \in Line
        /\ UNCHANGED <<entry, kernel, menu, freed, header, n>>
        /\ ret' \in {ret, n, 1}
    <2>1. \A i \in 1 .. Len(text) : text[i] \in Line /\ text[i].cut \in BOOLEAN
      BY <1>0, Types, TextType
    <2>0. ~EndOfText => pos \in 1 .. Len(text)
      <3>1. Len(text) \in Nat /\ pos \in 1 .. (Len(text) + 1)
        BY <1>0, Types
      <3>2. QED
        BY <3>1 DEF EndOfText
    <2>2. CASE ReadOutside \/ ReadBody
      <3>1. Read /\ UNCHANGED <<entry, kernel, output>>
        BY <2>2 DEF ReadOutside, ReadBody
      <3>2. /\ pos \in 1 .. Len(text) /\ pos' = pos + 1
            /\ line' = text[pos] /\ chopped' = FALSE
            /\ dialect' = dialect /\ text' = text
        BY <2>0, <3>1 DEF Read
      <3>3. UNCHANGED <<entry, kernel, menu, freed, header, n, ret>>
        BY <3>1 DEF output
      <3>4. Len(text) \in Nat
        BY <1>0, Types
      <3>5. line' \in Line /\ chopped' \in BOOLEAN
        BY <2>1, <3>2
      <3>6. pos' = pos + 1 /\ pos' <= Len(text) + 1
        BY <3>2, <3>4
      <3>7. QED
        BY <3>2, <3>3, <3>5, <3>6
    <2>3. CASE NextTitle
      <3>1. PushBack /\ UNCHANGED <<entry, kernel, output>>
        BY <2>3 DEF NextTitle
      <3>2. /\ pos \in 1 .. Len(text) /\ UNCHANGED <<dialect, text, pos>>
            /\ line' = text[pos] /\ chopped' = text[pos].cut
        BY <2>0, <3>1 DEF PushBack
      <3>3. UNCHANGED <<entry, kernel, menu, freed, header, n, ret>>
        BY <3>1 DEF output
      <3>4. Len(text) \in Nat
        BY <1>0, Types
      <3>5. line' \in Line /\ chopped' \in BOOLEAN
        BY <2>1, <3>2
      <3>6. pos' = pos /\ pos <= Len(text) + 1
        BY <3>2, <3>4
      <3>7. QED
        BY <3>2, <3>3, <3>5, <3>6
    <2>4. CASE EndOutside \/ EndInBody
      <3>1. line \in Line /\ chopped \in BOOLEAN /\ pos \in 1 .. (Len(text) + 1)
        BY <1>0 DEF TypeOK
      <3>2. UNCHANGED input /\ UNCHANGED <<entry, kernel, menu, freed, header, n>>
        BY <2>4 DEF EndOutside, EndInBody, output
      <3>3. ret' \in {ret, n, 1}
        BY <2>4 DEF EndOutside, EndInBody, output
      <3>4. QED
        BY <1>0, <3>1, <3>2, <3>3, Types DEF input
    <2>5. QED
      BY <2>2, <2>3, <2>4
  <1>2. /\ status' \in {"S", "IN", "A", "R", "AQ", "RQ", "done"} \cup HeadWords \cup BodyWords
        /\ status' \in {"title", "default", "delay"} => pos' = pos + 1
        /\ status' \in InEntry => status \in InEntry
    <2>1. CASE ReadOutside
      BY <2>1 DEF ReadOutside, Read, HeadWords, InEntry, BodyWords
    <2>2. CASE ReadBody
      BY <2>2 DEF ReadBody, Read, InEntry, BodyWords
    <2>3. CASE NextTitle \/ EndOutside \/ EndInBody
      BY <2>3 DEF NextTitle, EndOutside, EndInBody, InEntry, BodyWords
    <2>4. QED
      BY <2>1, <2>2, <2>3
  <1>3. TypeOK'
    <2>1. ret' \in -1 .. (Len(menu) + 1)
      BY <1>0, <1>1, Types
    <2>2. pos' \in 1 .. (Len(text) + 1)
      BY <1>0, <1>1, Types
    <2>3. QED
      BY <1>0, <1>1, <1>2, <2>1, <2>2 DEF TypeOK, HeadWords, BodyWords
  <1>4. ReaderInv'
    BY <1>0, <1>1, <1>2, Types DEF ReaderInv, InEntry, BodyWords
  <1>5. OrderInv'
    BY <1>0, <1>1, <1>2, SameOrder
  <1>6. QED
    BY <1>3, <1>4, <1>5 DEF IInv

\* A title line opens an entry later than all others.
LEMMA TitleInv ==
  ASSUME IInv, Title
  PROVE  IInv'
  <1>0. /\ TypeOK /\ ReaderInv /\ OrderInv /\ status = "title"
        /\ UNCHANGED <<dialect, text, pos, chopped, line, menu, freed, header, n, ret>>
    BY DEF IInv, Title, input, output
  <1>1. CASE status' = "S" /\ UNCHANGED <<entry, kernel>>
    <2>1. TypeOK'
      BY <1>0, <1>1 DEF TypeOK, HeadWords, BodyWords
    <2>2. ReaderInv' /\ OrderInv'
      BY <1>0, <1>1, SameOrder DEF ReaderInv, InEntry, BodyWords
    <2>3. QED
      BY <2>1, <2>2 DEF IInv
  <1>2. CASE status' = "IN" /\ entry' = NewEntry(pos - 1) /\ kernel' = FALSE
    <2>1. entry.at < pos - 1 /\ entry.at \in Nat /\ pos \in Nat
      BY <1>0, Types DEF ReaderInv
    <2>2. entry' \in Entry /\ entry'.at = pos - 1
      BY <1>2, <2>1 DEF NewEntry, Entry
    <2>3. TypeOK'
      BY <1>0, <1>2, <2>2 DEF TypeOK, HeadWords, BodyWords
    <2>4. ReaderInv'
      BY <1>0, <1>2, <2>1, <2>2 DEF ReaderInv
    <2>5. \A i \in Linked \cup freed : i < pos - 1
      <3>1. \A i \in Linked \cup freed : i \in Nat /\ i <= entry.at
        BY <1>0, Types DEF OrderInv
      <3>2. QED
        BY <2>1, <3>1
    <2>6. \A i \in Linked \cup freed : i <= pos - 1
      <3>1. \A i \in Linked \cup freed : i \in Nat
        BY <1>0, Types
      <3>2. QED
        BY <2>1, <2>5, <3>1
    <2>7. OrderInv'
      BY <1>0, <2>2, <2>5, <2>6 DEF OrderInv, Linked
    <2>8. QED
      BY <2>3, <2>4, <2>7 DEF IInv
  <1>3. QED
    BY <1>1, <1>2 DEF Title

\* A setting changes the header only.
LEMMA SettingInv ==
  ASSUME IInv, Default \/ Delay
  PROVE  IInv'
  <1>0. /\ TypeOK /\ ReaderInv /\ OrderInv
        /\ status \in {"default", "delay"} /\ status' = "S"
        /\ UNCHANGED <<dialect, text, pos, chopped, line, entry, kernel, menu, freed, n, ret>>
    BY DEF IInv, Default, Delay, Setting, input
  <1>1. header' \in [default_os : Int, delay : Int]
    <2>1. /\ line.arg \in Args \cup {NoArg}
          /\ header \in [default_os : Int, delay : Int]
      BY <1>0, Types
    <2>2. line.arg # NoArg => Strtol[line.arg] \in Int
      BY <2>1, ArgAssumption
    <2>3. CASE Default
      BY <2>1, <2>2, <2>3 DEF Default, Setting
    <2>4. CASE Delay
      BY <2>1, <2>2, <2>4 DEF Delay, Setting
    <2>5. QED
      BY <2>3, <2>4
  <1>2. TypeOK'
    BY <1>0, <1>1 DEF TypeOK
  <1>3. ReaderInv'
    BY <1>0 DEF ReaderInv, InEntry, BodyWords
  <1>4. OrderInv'
    BY <1>0, SameOrder DEF InEntry, BodyWords
  <1>5. QED
    BY <1>2, <1>3, <1>4 DEF IInv

\* A directive of the body changes fields of the open entry only.
LEMMA FieldStep ==
  ASSUME IInv, status \in InEntry, status' \in {"IN", "R"},
         UNCHANGED <<dialect, text, pos, chopped, line, menu, freed, header, n, ret>>,
         entry' \in Entry, entry'.at = entry.at, kernel' \in BOOLEAN
  PROVE  IInv'
  <1>0. TypeOK /\ ReaderInv /\ OrderInv
    BY DEF IInv
  <1>1. TypeOK'
    BY <1>0 DEF TypeOK
  <1>2. ReaderInv'
    BY <1>0 DEF ReaderInv
  <1>3. OrderInv'
    BY <1>0, SameOrder
  <1>4. QED
    BY <1>1, <1>2, <1>3 DEF IInv

\* Every directive of the body.
LEMMA BodyInv ==
  ASSUME IInv, Kernel \/ Other \/ Root \/ Initrd \/ Dtb \/ Module
  PROVE  IInv'
  <1>0. /\ TypeOK /\ entry \in Entry /\ line.arg \in Args \cup {NoArg}
        /\ kernel \in BOOLEAN /\ status \in HeadWords \cup BodyWords
    <2>1. TypeOK
      BY DEF IInv
    <2>2. kernel \in BOOLEAN /\ status \in {"kernel", "other", "root", "initrd", "dtb", "module"}
      BY <2>1 DEF TypeOK, Kernel, Other, Root, Initrd, Dtb, Module, Body
    <2>3. status \in HeadWords \cup BodyWords
      BY <2>1, <2>2 DEF TypeOK
    <2>4. QED
      BY <2>1, <2>2, <2>3, Types
  <1>1. /\ status \in InEntry /\ status' \in {"IN", "R"}
        /\ UNCHANGED <<dialect, text, pos, chopped, line, menu, freed, header, n, ret>>
    BY <1>0 DEF Kernel, Other, Root, Initrd, Dtb, Module, Body, input, output,
       HeadWords, InEntry
  <1>2. kernel' \in BOOLEAN
    BY <1>0 DEF Kernel, Other, Root, Initrd, Dtb, Module, Body
  <1>3. entry' \in Entry /\ entry'.at = entry.at
    <2>1. CASE line.arg = NoArg
      BY <1>0, <2>1 DEF Kernel, Other, Root, Initrd, Dtb, Module, Body
    <2>2. CASE line.arg \in Args
      <3>1. line.arg # NoArg
        BY <2>2, ArgAssumption
      <3>2. CASE Kernel
        BY <1>0, <2>2, <3>1, <3>2 DEF Kernel, Body, Entry
      <3>3. CASE Other \/ Initrd \/ Dtb
        BY <1>0, <2>2, <3>1, <3>3 DEF Other, Initrd, Dtb, Body, Entry
      <3>4. CASE Module
        <4>1. entry.modules \in Seq(Args)
          BY <1>0 DEF Entry
        <4>2. Append(entry.modules, line.arg) \in Seq(Args)
          BY <2>2, <4>1
        <4>3. entry' = [entry EXCEPT !.modules = Append(entry.modules, line.arg)]
          BY <3>1, <3>4 DEF Module, Body
        <4>4. QED
          BY <1>0, <4>2, <4>3 DEF Entry
      <3>5. CASE Root
        <4>1. CASE RootKnown(line.arg)
          <5>1. line.arg \in DOMAIN IdeRoots => IdeRoots[line.arg] \in Int \X Int
            BY ArgAssumption
          <5>2. CASE line.arg \in {"tftp", "cdrom"}
            BY <1>0, <3>1, <3>5, <4>1, <5>2 DEF Root, Rooted, Entry
          <5>3. CASE line.arg \notin {"tftp", "cdrom"}
            <6>1. /\ IdeRoots[line.arg][1] \in Int
                  /\ IdeRoots[line.arg][2] - 1 \in Int
              BY <4>1, <5>1, <5>3 DEF RootKnown
            <6>2. entry' = [entry EXCEPT !.device_type = "ide",
                              !.device_num = IdeRoots[line.arg][1],
                              !.partition = IdeRoots[line.arg][2] - 1]
              BY <3>1, <3>5, <4>1, <5>3 DEF Root, Rooted
            <6>3. QED
              BY <1>0, <6>1, <6>2 DEF Entry
          <5>4. QED
            BY <5>2, <5>3
        <4>2. CASE ~RootKnown(line.arg)
          BY <1>0, <3>5, <4>2 DEF Root
        <4>3. QED
          BY <4>1, <4>2
      <3>6. QED
        BY <3>2, <3>3, <3>4, <3>5
    <2>3. QED
      BY <1>0, <2>1, <2>2
  <1>4. QED
    BY <1>1, <1>2, <1>3, FieldStep

\* Linking or freeing the open entry.
LEMMA EndInv ==
  ASSUME IInv, Accept \/ AcceptLast \/ Reject \/ RejectLast
  PROVE  IInv'
  <1>0. /\ TypeOK /\ ReaderInv /\ OrderInv /\ status \in InEntry
        /\ status' \in {"S", "done"} /\ status' \notin InEntry
        /\ UNCHANGED <<dialect, text, pos, chopped, line, entry, kernel, header>>
    BY DEF IInv, Accept, AcceptLast, Reject, RejectLast, input, InEntry, BodyWords
  <1>1. /\ entry \in Entry /\ entry.at \in Nat /\ menu \in Seq(Entry)
        /\ Len(text) \in Nat /\ Len(menu) \in Nat
        /\ pos \in 1 .. (Len(text) + 1)
        /\ freed \subseteq 1 .. Len(text) /\ Linked \subseteq Nat
        /\ n \in 0 .. Len(menu) /\ ret \in -1 .. (Len(menu) + 1)
    BY <1>0, Types
  <1>2. ReaderInv'
    BY <1>0 DEF ReaderInv
  <1>3. CASE Accept \/ AcceptLast
    <2>1. menu' = Append(menu, entry) /\ UNCHANGED <<entry, freed>>
      BY <1>3 DEF Accept, AcceptLast
    <2>2. menu' \in Seq(Entry) /\ Len(menu') = Len(menu) + 1
      BY <1>1, <2>1
    <2>3. n' \in {n, n + 1} /\ ret' \in {ret, 1}
      BY <1>3 DEF Accept, AcceptLast
    <2>4. n' \in 0 .. Len(menu') /\ ret' \in -1 .. (Len(menu') + 1)
      BY <1>1, <2>2, <2>3
    <2>5. TypeOK'
      BY <1>0, <2>1, <2>2, <2>4 DEF TypeOK
    <2>6. OrderInv'
      BY <1>0, <2>1, LinkStep
    <2>7. QED
      BY <1>2, <2>5, <2>6 DEF IInv
  <1>4. CASE Reject \/ RejectLast
    <2>1. /\ freed' = freed \cup {entry.at} /\ menu' = menu /\ n' = n
          /\ ret' \in {ret, 0}
      BY <1>4 DEF Reject, RejectLast
    <2>2. entry.at \in 1 .. Len(text)
      BY <1>0, <1>1 DEF ReaderInv
    <2>3. TypeOK'
      <3>1. freed' \subseteq 1 .. Len(text)
        BY <1>1, <2>1, <2>2
      <3>2. ret' \in -1 .. (Len(menu) + 1)
        BY <1>1, <2>1
      <3>3. QED
        BY <1>0, <2>1, <3>1, <3>2 DEF TypeOK
    <2>4. entry.at \notin Linked
      BY <1>0, <1>1 DEF OrderInv
    <2>5. OrderInv'
      BY <1>0, <1>1, <2>1, <2>4 DEF OrderInv, Linked, InEntry, BodyWords
    <2>6. QED
      BY <1>2, <2>3, <2>5 DEF IInv
  <1>5. QED
    BY <1>3, <1>4

-----------------------------------------------------------------------------

\* The invariant is inductive.
LEMMA NextIInv == IInv /\ [Next]_vars => IInv'
  <1> SUFFICES ASSUME IInv, [Next]_vars PROVE IInv'
    OBVIOUS
  <1>1. CASE ReadOutside \/ EndOutside \/ ReadBody \/ NextTitle \/ EndInBody
    BY <1>1, ReadInv
  <1>2. CASE Title
    BY <1>2, TitleInv
  <1>3. CASE Default \/ Delay
    BY <1>3, SettingInv
  <1>4. CASE Kernel \/ Other \/ Root \/ Initrd \/ Dtb \/ Module
    BY <1>4, BodyInv
  <1>5. CASE Accept \/ AcceptLast \/ Reject \/ RejectLast
    BY <1>5, EndInv
  <1>6. CASE UNCHANGED vars
    BY <1>6 DEF vars, IInv, TypeOK, ReaderInv, OrderInv, Linked, InEntry,
       HeadWords, BodyWords
  <1>7. QED
    BY <1>1, <1>2, <1>3, <1>4, <1>5, <1>6 DEF Next

\* Every reachable state satisfies the inductive invariant.
LEMMA Inductive == Spec => []IInv
  <1>1. QED
    BY InitIInv, NextIInv, PTL DEF Spec

\* Type correctness of both readers: the line number stays in the text, an
\* entry's fields hold what its lines said, status names a case of the switch.
THEOREM TypeCorrect == Spec => []TypeOK
  <1>1. IInv => TypeOK
    BY DEF IInv
  <1>2. QED
    BY <1>1, Inductive, PTL

\* Whatever the text, an entry is linked or freed but never both, no entry is
\* linked twice, and an open entry is neither: the list has no cycle and
\* entry_free() frees nothing twice.
THEOREM EntriesHaveOneOwner == Spec => []OneOwner
  <1>1. IInv => OneOwner
    <2> SUFFICES ASSUME IInv PROVE OneOwner
      OBVIOUS
    <2>0. /\ TypeOK /\ OrderInv /\ ReaderInv
          /\ entry.at \in Nat /\ Linked \subseteq Nat /\ freed \subseteq Nat
          /\ menu \in Seq(Entry) /\ Len(menu) \in Nat
      <3>1. TypeOK /\ OrderInv /\ ReaderInv
        BY DEF IInv
      <3>2. /\ entry.at \in Nat /\ Linked \subseteq Nat /\ Len(text) \in Nat
            /\ freed \subseteq 1 .. Len(text)
            /\ menu \in Seq(Entry) /\ Len(menu) \in Nat
        BY <3>1, Types
      <3>3. QED
        BY <3>1, <3>2
    <2>1. \A j, k \in DOMAIN menu : j # k => menu[j].at # menu[k].at
      <3> SUFFICES ASSUME NEW j \in DOMAIN menu, NEW k \in DOMAIN menu, j # k
                   PROVE  menu[j].at # menu[k].at
        OBVIOUS
      <3>1. j \in Nat /\ k \in Nat
        BY <2>0
      <3>2. menu[j].at \in Nat /\ menu[k].at \in Nat
        BY <2>0 DEF Linked
      <3>3. j < k \/ k < j
        BY <3>1
      <3>4. QED
        BY <2>0, <3>2, <3>3 DEF OrderInv
    <2>2. status \notin {"S", "default", "delay", "title", "done"} =>
            entry.at \notin Linked \cup freed
      <3>1. status \notin {"S", "default", "delay", "title", "done"} =>
              status \in InEntry
        BY <2>0 DEF TypeOK, HeadWords, InEntry
      <3>2. QED
        BY <2>0, <3>1 DEF OrderInv
    <2>3. QED
      BY <2>0, <2>1, <2>2 DEF OrderInv, OneOwner
  <1>2. QED
    BY <1>1, Inductive, PTL

-----------------------------------------------------------------------------
(* What the entries say: the reader against the blocks of the text.        *)

\* The number of lines dealt with: the one whose directive is next is not.
Passed == IF status \in Words THEN pos - 2 ELSE pos - 1

\* What an entry holds when the lines behind its title, a, up to u were read.
Said(a, u, w) == {j \in (a + 1) .. u : text[j].word = w}

IdeSaid(a, u) == {j \in Said(a, u, "root") : text[j].arg \in DOMAIN IdeRoots}

Described(e, a, u) ==
  /\ e.kernel = LastSaid(Said(a, u, "kernel"))
  /\ e.append = LastSaid({j \in Said(a, u, "kernel") : text[j].rest})
  /\ e.other  = LastSaid(Said(a, u, "other"))
  /\ e.initrd = LastSaid(Said(a, u, "initrd"))
  /\ e.dtb    = LastSaid(Said(a, u, "dtb"))
  /\ Len(e.modules) = Cardinality(Said(a, u, "module"))
  /\ \A j \in Said(a, u, "module") :
       e.modules[Cardinality(Said(a, u, "module") \cap (1 .. j))] = text[j].arg
  /\ IF IdeSaid(a, u) = {} THEN e.device_num = 0 /\ e.partition = 0
     ELSE /\ e.device_num = IdeRoots[LastSaid(IdeSaid(a, u))][1]
          /\ e.partition = IdeRoots[LastSaid(IdeSaid(a, u))][2] - 1
  /\ e.device_type =
       LET r == LastSaid(Said(a, u, "root"))
       IN  CASE r = NoArg -> "default"
             [] r \in DOMAIN IdeRoots -> "ide"
             [] OTHER -> r

Starts(a, u) ==
  /\ a \in Titles /\ text[a].arg # NoArg /\ a <= u
  /\ \A j \in (a + 1) .. u : j \notin Titles

\* Every line of it is one of a body; one of them makes it bootable.
AllGood(a, u)  == \A j \in (a + 1) .. u : WellFormed(text[j])
AnyBoots(a, u) == \E j \in (a + 1) .. u : text[j].word \in {"kernel", "other"}

\* The line at hand, and the ends of a block.
LineInv ==
  /\ status \in Words => pos >= 2 /\ line = text[pos - 1] /\ status = line.word
  /\ chopped => pos \in AtRisk
  /\ status = "A" => kernel /\ pos \in Titles
  /\ status = "AQ" => kernel
  /\ status = "RQ" => ~kernel
  /\ status \in {"AQ", "RQ", "done"} => pos = Len(text) + 1

\* An open entry is what the lines of its block say so far.
OpenInv ==
  status \in {"IN", "A", "AQ", "RQ"} \cup BodyWords =>
    /\ Starts(entry.at, Passed)
    /\ AllGood(entry.at, Passed)
    /\ kernel <=> AnyBoots(entry.at, Passed)
    /\ Described(entry, entry.at, Passed)

\* One that is dropped deserves it.
RejectInv ==
  status = "R" =>
    /\ Starts(entry.at, pos - 1)
    /\ \/ ~AllGood(entry.at, pos - 1)
       \/ pos \in Titles /\ ~AnyBoots(entry.at, pos - 1)

\* Every title passed was dealt with.
TitlesInv ==
  \A i \in Titles : i <= Passed =>
    i \in Linked \/ i \in AtRisk \/ i \notin Bootable
      \/ (status \in InEntry /\ i = entry.at)

MenuInv == \A m \in DOMAIN menu : \E i \in Bootable : DescribedBy(menu[m], i)

\* Between entries: the block at hand, if any, is spoilt.
Spoilt(u) == \A t \in Titles : Starts(t, u) => ~AllGood(t, u)

SpoiltInv ==
  (AtRisk = {} /\ status \in {"S", "default", "delay"}) =>
    (status = "S" /\ pos \in Titles) \/ Spoilt(Passed)

SettingsInv ==
  AtRisk = {} =>
    /\ header.default_os = LastNumber({j \in Outside("default") : j <= Passed}, 0)
    /\ header.delay = LastNumber({j \in Outside("delay") : j <= Passed}, 5)

\* The reader against the text.
TextInv ==
  /\ LineInv /\ OpenInv /\ RejectInv /\ TitlesInv
  /\ MenuInv /\ SpoiltInv /\ SettingsInv

\* Numbers of lines.
LEMMA LineNumbers ==
  ASSUME TypeOK
  PROVE  /\ Len(text) \in Nat /\ pos \in 1 .. (Len(text) + 1)
         /\ DOMAIN text = 1 .. Len(text) /\ Titles \subseteq 1 .. Len(text)
         /\ \A j \in 1 .. Len(text) :
              /\ text[j] \in Line /\ text[j].word \in Words
              /\ text[j].arg \in Args \cup {NoArg}
              /\ text[j].rest \in BOOLEAN /\ text[j].cut \in BOOLEAN
  <1>1. text \in Seq(Line) /\ pos \in 1 .. (Len(text) + 1)
    BY TextAssumption DEF TypeOK
  <1>2. DOMAIN text = 1 .. Len(text) /\ Len(text) \in Nat
        /\ \A j \in 1 .. Len(text) : text[j] \in Line
    BY <1>1
  <1>3. \A l \in Line : /\ l.word \in Words /\ l.arg \in Args \cup {NoArg}
                        /\ l.rest \in BOOLEAN /\ l.cut \in BOOLEAN
    BY DEF Line
  <1>4. Titles \subseteq 1 .. Len(text)
    BY <1>2 DEF Titles
  <1>5. QED
    BY <1>1, <1>2, <1>3, <1>4

\* One more line is said by its word.
LEMMA SaidMore ==
  ASSUME NEW a \in Nat, NEW u \in Nat, a <= u, NEW w
  PROVE  /\ Said(a, u + 1, w) =
              IF text[u + 1].word = w THEN Said(a, u, w) \cup {u + 1}
              ELSE Said(a, u, w)
         /\ \A j \in Said(a, u, w) : j \in Nat /\ j <= u
  <1>1. (a + 1) .. (u + 1) = ((a + 1) .. u) \cup {u + 1}
    OBVIOUS
  <1>2. \A j \in (a + 1) .. u : j \in Nat /\ j <= u
    OBVIOUS
  <1>3. QED
    BY <1>1, <1>2 DEF Said

\* The last line of a set says what counts.
LEMMA LastSaidMore ==
  ASSUME NEW L, NEW u \in Nat, \A j \in L : j \in Nat /\ j <= u
  PROVE  LastSaid(L \cup {u + 1}) = text[u + 1].arg
  <1> DEFINE P(j) == j \in L \cup {u + 1} /\ \A k \in L \cup {u + 1} : k <= j
  <1>1. \A j \in L \cup {u + 1} :
          (\A k \in L \cup {u + 1} : k <= j) => j = u + 1
    <2> SUFFICES ASSUME NEW j \in L \cup {u + 1},
                        \A k \in L \cup {u + 1} : k <= j
                 PROVE  j = u + 1
      OBVIOUS
    <2>1. u + 1 <= j
      OBVIOUS
    <2>2. QED
      BY <2>1
  <1>2. \A k \in L \cup {u + 1} : k <= u + 1
    <2>1. \A k \in L : k <= u + 1
      OBVIOUS
    <2>2. QED
      BY <2>1
  <1>3. (CHOOSE j \in L \cup {u + 1} : \A k \in L \cup {u + 1} : k <= j) = u + 1
    BY <1>1, <1>2
  <1>4. L \cup {u + 1} # {}
    OBVIOUS
  <1>5. QED
    BY <1>3, <1>4 DEF LastSaid

\* A line that is no directive of a body changes nothing.
LEMMA DescribedBlank ==
  ASSUME NEW e, NEW a \in Nat, NEW u \in Nat, a <= u, Described(e, a, u),
         text[u + 1].word \notin {"kernel", "other", "initrd", "dtb", "module", "root"}
  PROVE  Described(e, a, u + 1)
  <1>1. \A w \in {"kernel", "other", "initrd", "dtb", "module", "root"} :
          Said(a, u + 1, w) = Said(a, u, w)
    BY SaidMore
  <1>2. IdeSaid(a, u + 1) = IdeSaid(a, u)
    BY <1>1 DEF IdeSaid
  <1>3. QED
    BY <1>1, <1>2 DEF Described

\* The block of a title whose lines end at u.
LEMMA BlockEnd ==
  ASSUME TypeOK, NEW a, NEW u \in Nat, Starts(a, u), u <= Len(text),
         u = Len(text) \/ u + 1 \in Titles
  PROVE  Block(a) = (a + 1) .. u
  <1>1. /\ Len(text) \in Nat /\ Titles \subseteq 1 .. Len(text) /\ a \in Nat
        /\ a <= u /\ \A j \in (a + 1) .. u : j \notin Titles
    BY LineNumbers DEF Starts
  <1>2. ASSUME NEW j \in (a + 1) .. u
        PROVE  j \in Block(a)
    <2>1. j \in (a + 1) .. Len(text)
      BY <1>1
    <2>2. Titles \cap (a + 1) .. j = {}
      BY <1>1
    <2>3. QED
      BY <2>1, <2>2 DEF Block
  <1>3. ASSUME NEW j \in Block(a)
        PROVE  j \in (a + 1) .. u
    <2>1. j \in (a + 1) .. Len(text) /\ Titles \cap (a + 1) .. j = {}
      BY DEF Block
    <2>2. u + 1 \in Titles => ~(u + 1 <= j)
      BY <1>1, <2>1
    <2>3. QED
      BY <1>1, <2>1, <2>2
  <1>4. QED
    BY <1>2, <1>3

\* What the lines of a whole block say is what its title's entry is.
LEMMA DescribedAll ==
  ASSUME NEW e, NEW a, NEW u, Block(a) = (a + 1) .. u, Described(e, a, u), e.at = a
  PROVE  DescribedBy(e, a)
  <1>1. \A w : Saying(a, w) = Said(a, u, w)
    BY DEF Saying, Said
  <1>2. QED
    BY <1>1 DEF DescribedBy, Described, IdeSaid

\* An entry with nothing but its title.
LEMMA DescribedFirst ==
  ASSUME NEW a \in Nat
  PROVE  Described(NewEntry(a), a, a)
  <1>1. (a + 1) .. a = {}
    OBVIOUS
  <1>2. \A w : Said(a, a, w) = {}
    BY <1>1 DEF Said
  <1>3. IdeSaid(a, a) = {}
    BY <1>2 DEF IdeSaid
  <1>4. LastSaid({}) = NoArg
    BY DEF LastSaid
  <1>5. Cardinality({}) = 0 /\ Len(<<>>) = 0
    BY FS_EmptySet
  <1>6. {j \in Said(a, a, "kernel") : text[j].rest} = {}
    BY <1>2
  <1>7. PICK e : e = NewEntry(a)
    OBVIOUS
  <1>8. /\ e.kernel = NoArg /\ e.append = NoArg /\ e.other = NoArg
        /\ e.initrd = NoArg /\ e.dtb = NoArg /\ e.modules = <<>>
        /\ e.device_type = "default" /\ e.device_num = 0 /\ e.partition = 0
    BY <1>7 DEF NewEntry
  <1>9. Len(e.modules) = Cardinality(Said(a, a, "module"))
    BY <1>2, <1>5, <1>8
  <1>10. e.device_type =
           LET r == LastSaid(Said(a, a, "root"))
           IN  CASE r = NoArg -> "default"
                 [] r \in DOMAIN IdeRoots -> "ide"
                 [] OTHER -> r
    <2>1. NoArg \notin DOMAIN IdeRoots
      BY ArgAssumption
    <2>2. QED
      BY <1>2, <1>4, <1>8, <2>1
  <1>11. Described(e, a, a)
    BY <1>2, <1>3, <1>4, <1>6, <1>8, <1>9, <1>10 DEF Described
  <1>12. QED
    BY <1>7, <1>11

\* The directives of a body, one by one.
LEMMA DescribedKernel ==
  ASSUME NEW e \in Entry, NEW a \in Nat, NEW u \in Nat, a <= u, Described(e, a, u),
         text[u + 1].word = "kernel", NEW l, l = text[u + 1]
  PROVE  Described([e EXCEPT !.kernel = l.arg,
                             !.append = IF l.rest THEN l.arg ELSE @], a, u + 1)
  <1> DEFINE K == Said(a, u, "kernel")
             R(S) == {j \in S : text[j].rest}
  <1>1. /\ Said(a, u + 1, "kernel") = K \cup {u + 1}
        /\ \A w \in {"other", "initrd", "dtb", "module", "root"} :
             Said(a, u + 1, w) = Said(a, u, w)
        /\ \A j \in K : j \in Nat /\ j <= u
    BY SaidMore
  <1>2. IdeSaid(a, u + 1) = IdeSaid(a, u)
    BY <1>1 DEF IdeSaid
  <1>3. LastSaid(Said(a, u + 1, "kernel")) = l.arg
    BY <1>1, LastSaidMore
  <1>4. R(Said(a, u + 1, "kernel")) = IF l.rest THEN R(K) \cup {u + 1} ELSE R(K)
    BY <1>1
  <1>5. LastSaid(R(K) \cup {u + 1}) = l.arg
    BY <1>1, LastSaidMore
  <1>6. LastSaid(R(Said(a, u + 1, "kernel"))) = IF l.rest THEN l.arg ELSE LastSaid(R(K))
    BY <1>4, <1>5
  <1>7. PICK d : d = [e EXCEPT !.kernel = l.arg,
                               !.append = IF l.rest THEN l.arg ELSE @]
    OBVIOUS
  <1>8. /\ d.kernel = l.arg /\ d.append = (IF l.rest THEN l.arg ELSE e.append)
        /\ d.other = e.other /\ d.initrd = e.initrd /\ d.dtb = e.dtb
        /\ d.modules = e.modules /\ d.device_type = e.device_type
        /\ d.device_num = e.device_num /\ d.partition = e.partition
    BY <1>7 DEF Entry
  <1>9. e.append = LastSaid(R(K))
    BY DEF Described
  <1> HIDE DEF K, R
  <1>10. Described(d, a, u + 1)
    BY <1>1, <1>2, <1>3, <1>6, <1>8, <1>9 DEF Described, R
  <1>11. QED
    BY <1>7, <1>10

\* A line for one of the plain fields: the last one counts.
LEMMA DescribedField ==
  ASSUME NEW e \in Entry, NEW a \in Nat, NEW u \in Nat, a <= u, Described(e, a, u),
         NEW x, x = text[u + 1].arg
  PROVE  /\ text[u + 1].word = "other" => Described([e EXCEPT !.other = x], a, u + 1)
         /\ text[u + 1].word = "initrd" => Described([e EXCEPT !.initrd = x], a, u + 1)
         /\ text[u + 1].word = "dtb" => Described([e EXCEPT !.dtb = x], a, u + 1)
  <1>1. \A w : /\ Said(a, u + 1, w) = IF text[u + 1].word = w
                                      THEN Said(a, u, w) \cup {u + 1}
                                      ELSE Said(a, u, w)
               /\ \A j \in Said(a, u, w) : j \in Nat /\ j <= u
    BY SaidMore
  <1>2. \A w : LastSaid(Said(a, u, w) \cup {u + 1}) = x
    BY <1>1, LastSaidMore
  <1>3. text[u + 1].word \in {"other", "initrd", "dtb"} => IdeSaid(a, u + 1) = IdeSaid(a, u)
    BY <1>1 DEF IdeSaid
  <1>4. CASE text[u + 1].word = "other"
    <2>1. PICK d : d = [e EXCEPT !.other = x]
      OBVIOUS
    <2>2. /\ d.kernel = e.kernel /\ d.append = e.append
          /\ d.other = x /\ d.initrd = e.initrd /\ d.dtb = e.dtb
          /\ d.modules = e.modules /\ d.device_type = e.device_type
          /\ d.device_num = e.device_num /\ d.partition = e.partition
      BY <2>1 DEF Entry
    <2>3. Said(a, u + 1, "other") = Said(a, u, "other") \cup {u + 1}
          /\ \A w \in {"kernel", "initrd", "dtb", "module", "root"} :
               Said(a, u + 1, w) = Said(a, u, w)
      BY <1>1, <1>4
    <2>4. Described(d, a, u + 1)
      BY <1>2, <1>3, <1>4, <2>2, <2>3 DEF Described
    <2>5. QED
      BY <1>4, <2>1, <2>4
  <1>5. CASE text[u + 1].word = "initrd"
    <2>1. PICK d : d = [e EXCEPT !.initrd = x]
      OBVIOUS
    <2>2. /\ d.kernel = e.kernel /\ d.append = e.append
          /\ d.other = e.other /\ d.initrd = x /\ d.dtb = e.dtb
          /\ d.modules = e.modules /\ d.device_type = e.device_type
          /\ d.device_num = e.device_num /\ d.partition = e.partition
      BY <2>1 DEF Entry
    <2>3. Said(a, u + 1, "initrd") = Said(a, u, "initrd") \cup {u + 1}
          /\ \A w \in {"kernel", "other", "dtb", "module", "root"} :
               Said(a, u + 1, w) = Said(a, u, w)
      BY <1>1, <1>5
    <2>4. Described(d, a, u + 1)
      BY <1>2, <1>3, <1>5, <2>2, <2>3 DEF Described
    <2>5. QED
      BY <1>5, <2>1, <2>4
  <1>6. CASE text[u + 1].word = "dtb"
    <2>1. PICK d : d = [e EXCEPT !.dtb = x]
      OBVIOUS
    <2>2. /\ d.kernel = e.kernel /\ d.append = e.append
          /\ d.other = e.other /\ d.initrd = e.initrd /\ d.dtb = x
          /\ d.modules = e.modules /\ d.device_type = e.device_type
          /\ d.device_num = e.device_num /\ d.partition = e.partition
      BY <2>1 DEF Entry
    <2>3. Said(a, u + 1, "dtb") = Said(a, u, "dtb") \cup {u + 1}
          /\ \A w \in {"kernel", "other", "initrd", "module", "root"} :
               Said(a, u + 1, w) = Said(a, u, w)
      BY <1>1, <1>6
    <2>4. Described(d, a, u + 1)
      BY <1>2, <1>3, <1>6, <2>2, <2>3 DEF Described
    <2>5. QED
      BY <1>6, <2>1, <2>4
  <1>7. QED
    BY <1>4, <1>5, <1>6

\* A module more, behind those there.
LEMMA DescribedModule ==
  ASSUME NEW e \in Entry, NEW a \in Nat, NEW u \in Nat, a <= u, Described(e, a, u),
         text[u + 1].word = "module", NEW x \in Args, x = text[u + 1].arg
  PROVE  Described([e EXCEPT !.modules = Append(@, x)], a, u + 1)
  <1> DEFINE M == Said(a, u, "module")
             N == M \cup {u + 1}
  <1>1. /\ Said(a, u + 1, "module") = N
        /\ \A w \in {"kernel", "other", "initrd", "dtb", "root"} :
             Said(a, u + 1, w) = Said(a, u, w)
        /\ \A j \in M : j \in Nat /\ j <= u
    BY SaidMore
  <1>2. IdeSaid(a, u + 1) = IdeSaid(a, u)
    BY <1>1 DEF IdeSaid
  <1>3. IsFiniteSet(M) /\ M \subseteq 1 .. u
    <2>1. M \subseteq (a + 1) .. u
      BY DEF Said
    <2>2. IsFiniteSet((a + 1) .. u)
      <3>1. a + 1 \in Int /\ u \in Int
        OBVIOUS
      <3>2. QED
        BY <3>1, FS_Interval
    <2>3. \A j \in (a + 1) .. u : j \in 1 .. u
      OBVIOUS
    <2>4. IsFiniteSet(M)
      BY <2>1, <2>2, FS_Subset
    <2>5. QED
      BY <2>1, <2>3, <2>4
  <1>4. Cardinality(N) = Cardinality(M) + 1
    <2>1. u + 1 \notin M
      BY <1>1
    <2>2. QED
      BY <1>3, <2>1, FS_AddElement
  <1>5. PICK L \in Nat : L = Len(e.modules)
    BY DEF Entry
  <1>6. L = Cardinality(M)
        /\ \A j \in M : e.modules[Cardinality(M \cap (1 .. j))] = text[j].arg
    BY <1>5 DEF Described
  <1>7. PICK f : f = Append(e.modules, x)
    OBVIOUS
  <1>8. /\ Len(f) = L + 1 /\ f[L + 1] = x
        /\ \A k \in 1 .. L : f[k] = e.modules[k]
    <2>1. e.modules \in Seq(Args)
      BY DEF Entry
    <2>2. QED
      BY <1>5, <1>7, <2>1
  <1>9. \A j \in N : f[Cardinality(N \cap (1 .. j))] = text[j].arg
    <2> SUFFICES ASSUME NEW j \in N
                 PROVE  f[Cardinality(N \cap (1 .. j))] = text[j].arg
      OBVIOUS
    <2>1. CASE j = u + 1
      <3>1. N \cap (1 .. j) = N
        <4>1. \A k \in M : k \in 1 .. (u + 1)
          BY <1>3
        <4>2. u + 1 \in 1 .. (u + 1)
          OBVIOUS
        <4>3. QED
          BY <2>1, <4>1, <4>2
      <3>2. QED
        BY <1>4, <1>6, <1>8, <2>1, <3>1
    <2>2. CASE j \in M
      <3>1. j \in Nat /\ j <= u /\ j \in 1 .. j
        BY <1>1, <1>3, <2>2
      <3>2. u + 1 \notin 1 .. j
        BY <3>1
      <3>3. N \cap (1 .. j) = M \cap (1 .. j)
        BY <3>2
      <3>4. /\ IsFiniteSet(M \cap (1 .. j))
            /\ Cardinality(M \cap (1 .. j)) <= Cardinality(M)
        BY <1>3, FS_Subset
      <3>5. Cardinality(M \cap (1 .. j)) \in Nat /\ Cardinality(M \cap (1 .. j)) # 0
        <4>1. j \in M \cap (1 .. j)
          BY <2>2, <3>1
        <4>2. Cardinality(M \cap (1 .. j)) \in Nat
          BY <3>4, FS_CardinalityType
        <4>3. QED
          BY <3>4, <4>1, <4>2, FS_EmptySet
      <3>6. Cardinality(M \cap (1 .. j)) \in 1 .. L
        BY <1>6, <3>4, <3>5
      <3>7. QED
        BY <1>6, <1>8, <2>2, <3>3, <3>6
    <2>3. QED
      BY <2>1, <2>2
  <1>10. PICK d : d = [e EXCEPT !.modules = f]
    OBVIOUS
  <1>11. /\ d.kernel = e.kernel /\ d.append = e.append
         /\ d.other = e.other /\ d.initrd = e.initrd /\ d.dtb = e.dtb
         /\ d.modules = f /\ d.device_type = e.device_type
         /\ d.device_num = e.device_num /\ d.partition = e.partition
    BY <1>10 DEF Entry
  <1>12. Len(f) = Cardinality(N)
    BY <1>4, <1>6, <1>8
  <1> HIDE DEF M, N
  <1>13. Described(d, a, u + 1)
    BY <1>1, <1>2, <1>9, <1>11, <1>12 DEF Described
  <1>14. QED
    BY <1>7, <1>10, <1>13

\* A root line sets the device; an ide one its numbers too.
LEMMA DescribedRoot ==
  ASSUME NEW e \in Entry, NEW a \in Nat, NEW u \in Nat, a <= u, Described(e, a, u),
         text[u + 1].word = "root", NEW x, x = text[u + 1].arg,
         x \in Args, RootKnown(x)
  PROVE  Described(Rooted(e, x), a, u + 1)
  <1> DEFINE S == Said(a, u, "root")
             I == IdeSaid(a, u)
  <1>1. /\ Said(a, u + 1, "root") = S \cup {u + 1}
        /\ \A w \in {"kernel", "other", "initrd", "dtb", "module"} :
             Said(a, u + 1, w) = Said(a, u, w)
        /\ \A j \in S : j \in Nat /\ j <= u
    BY SaidMore
  <1>2. LastSaid(Said(a, u + 1, "root")) = x
    BY <1>1, LastSaidMore
  <1>3. IdeSaid(a, u + 1) = IF x \in DOMAIN IdeRoots THEN I \cup {u + 1} ELSE I
    BY <1>1 DEF IdeSaid
  <1>4. LastSaid(I \cup {u + 1}) = x /\ I \cup {u + 1} # {}
    <2>1. \A j \in I : j \in Nat /\ j <= u
      BY <1>1 DEF IdeSaid
    <2> HIDE DEF I
    <2>2. QED
      BY <2>1, LastSaidMore
  <1>5. x # NoArg /\ {"tftp", "cdrom"} \cap DOMAIN IdeRoots = {}
    BY ArgAssumption
  <1>6. PICK d : d = Rooted(e, x)
    OBVIOUS
  <1>7. /\ d.kernel = e.kernel /\ d.append = e.append
        /\ d.other = e.other /\ d.initrd = e.initrd /\ d.dtb = e.dtb
        /\ d.modules = e.modules
    BY <1>6 DEF Rooted, Entry
  <1>8. /\ IF IdeSaid(a, u + 1) = {} THEN d.device_num = 0 /\ d.partition = 0
           ELSE /\ d.device_num = IdeRoots[LastSaid(IdeSaid(a, u + 1))][1]
                /\ d.partition = IdeRoots[LastSaid(IdeSaid(a, u + 1))][2] - 1
        /\ d.device_type = CASE x = NoArg -> "default"
                             [] x \in DOMAIN IdeRoots -> "ide"
                             [] OTHER -> x
    <2>1. CASE x \in DOMAIN IdeRoots
      <3>1. x \notin {"tftp", "cdrom"}
        BY <1>5, <2>1
      <3>2. d = [e EXCEPT !.device_type = "ide",
                          !.device_num = IdeRoots[x][1],
                          !.partition = IdeRoots[x][2] - 1]
        BY <1>6, <3>1 DEF Rooted
      <3>3. /\ d.device_type = "ide" /\ d.device_num = IdeRoots[x][1]
            /\ d.partition = IdeRoots[x][2] - 1
        BY <3>2 DEF Entry
      <3> HIDE DEF I
      <3>4. QED
        BY <1>3, <1>4, <1>5, <2>1, <3>3
    <2>2. CASE x \notin DOMAIN IdeRoots
      <3>1. x \in {"tftp", "cdrom"}
        BY <2>2 DEF RootKnown
      <3>2. d = [e EXCEPT !.device_type = x]
        BY <1>6, <3>1 DEF Rooted
      <3>3. /\ d.device_type = x /\ d.device_num = e.device_num
            /\ d.partition = e.partition
        BY <3>2 DEF Entry
      <3>4. IF I = {} THEN e.device_num = 0 /\ e.partition = 0
            ELSE /\ e.device_num = IdeRoots[LastSaid(I)][1]
                 /\ e.partition = IdeRoots[LastSaid(I)][2] - 1
        BY DEF Described
      <3> HIDE DEF I
      <3>5. QED
        BY <1>3, <1>5, <2>2, <3>3, <3>4
    <2>3. QED
      BY <2>1, <2>2
  <1> HIDE DEF S, I
  <1>9. Described(d, a, u + 1)
    BY <1>1, <1>2, <1>7, <1>8 DEF Described
  <1>10. QED
    BY <1>6, <1>9

-----------------------------------------------------------------------------

\* The text says the same in every state.
LEMMA SameText ==
  ASSUME UNCHANGED <<dialect, text>>
  PROVE  /\ Titles' = Titles /\ BodyWords' = BodyWords /\ HeadWords' = HeadWords
         /\ Bootable' = Bootable /\ AtRisk' = AtRisk
         /\ \A i : Block(i)' = Block(i)
         /\ \A l : WellFormed(l)' <=> WellFormed(l)
         /\ \A a, u : AllGood(a, u)' <=> AllGood(a, u)
         /\ \A a, u : AnyBoots(a, u)' <=> AnyBoots(a, u)
         /\ \A a, u : Starts(a, u)' <=> Starts(a, u)
         /\ \A u : Spoilt(u)' <=> Spoilt(u)
         /\ \A e, a, u : Described(e, a, u)' <=> Described(e, a, u)
         /\ \A e, i : DescribedBy(e, i)' <=> DescribedBy(e, i)
         /\ \A w : Outside(w)' = Outside(w)
         /\ \A L, o : LastNumber(L, o)' = LastNumber(L, o)
  <1>1. Titles' = Titles /\ BodyWords' = BodyWords /\ HeadWords' = HeadWords
    BY DEF Titles, BodyWords, HeadWords
  <1>2. AtRisk' = AtRisk
    BY <1>1 DEF AtRisk
  <1>3. \A i : Block(i)' = Block(i)
    BY <1>1 DEF Block
  <1>4. \A l : WellFormed(l)' <=> WellFormed(l)
    BY <1>1 DEF WellFormed
  <1>5. /\ \A a, u : AllGood(a, u)' <=> AllGood(a, u)
        /\ \A a, u : AnyBoots(a, u)' <=> AnyBoots(a, u)
    BY <1>4 DEF AllGood, AnyBoots
  <1>6. \A a, u : Starts(a, u)' <=> Starts(a, u)
    BY <1>1 DEF Starts
  <1>7. \A u : Spoilt(u)' <=> Spoilt(u)
    BY <1>1, <1>5, <1>6 DEF Spoilt
  <1>8. \A a, u, w : Said(a, u, w)' = Said(a, u, w)
    BY DEF Said
  <1>9. \A L : LastSaid(L)' = LastSaid(L)
    BY DEF LastSaid
  <1>10. \A a, u : IdeSaid(a, u)' = IdeSaid(a, u)
    BY <1>8 DEF IdeSaid
  <1>11. \A e, a, u : Described(e, a, u)' <=> Described(e, a, u)
    <2> SUFFICES ASSUME NEW e, NEW a, NEW u
                 PROVE  Described(e, a, u)' <=> Described(e, a, u)
      OBVIOUS
    <2>1. {j \in Said(a, u, "kernel")' : text'[j].rest}
            = {j \in Said(a, u, "kernel") : text[j].rest}
      BY <1>8
    <2>2. PICK r : r = LastSaid(Said(a, u, "root"))
      OBVIOUS
    <2>3. LastSaid(Said(a, u, "root"))' = r
      BY <1>8, <1>9, <2>2
    <2>4. /\ LastSaid({j \in Said(a, u, "kernel") : text[j].rest})'
               = LastSaid({j \in Said(a, u, "kernel") : text[j].rest})
      BY <1>9, <2>1
    <2>5. \A w : LastSaid(Said(a, u, w))' = LastSaid(Said(a, u, w))
      BY <1>8, <1>9
    <2>6. LastSaid(IdeSaid(a, u))' = LastSaid(IdeSaid(a, u))
      BY <1>9, <1>10
    <2>7. QED
      BY <1>8, <1>10, <2>2, <2>3, <2>4, <2>5, <2>6 DEF Described
  <1>12. \A i, w : Saying(i, w)' = Saying(i, w)
    BY <1>3 DEF Saying
  <1>13. \A e, i : DescribedBy(e, i)' <=> DescribedBy(e, i)
    <2> SUFFICES ASSUME NEW e, NEW i
                 PROVE  DescribedBy(e, i)' <=> DescribedBy(e, i)
      OBVIOUS
    <2>1. \A w : Saying(i, w)' = Saying(i, w)
      BY <1>12
    <2>2. QED
      BY <1>9, <2>1 DEF DescribedBy
  <1>14. \A w : Outside(w)' = Outside(w)
    BY <1>1, <1>3, <1>4 DEF Outside
  <1>15. \A L, o : LastNumber(L, o)' = LastNumber(L, o)
    BY <1>9 DEF LastNumber
  <1>16. Bootable' = Bootable
    BY <1>1, <1>3, <1>4 DEF Bootable
  <1>17. QED
    BY <1>1, <1>2, <1>3, <1>4, <1>5, <1>6, <1>7, <1>11, <1>13, <1>14, <1>15, <1>16

\* What every step does with the text and the line.
BodyAction == Kernel \/ Other \/ Root \/ Initrd \/ Dtb \/ Module

\* Reading a line passes it, unless its directive is next.
LEMMA ReadShape ==
  ASSUME TypeOK, ReadOutside \/ ReadBody
  PROVE  /\ pos \in Nat /\ pos >= 1 /\ pos <= Len(text) /\ pos' = pos + 1
         /\ line' = text[pos] /\ chopped' = FALSE
         /\ UNCHANGED <<dialect, text, entry, kernel, menu, freed, header>>
         /\ Passed = pos - 1
         /\ status' = IF status' \in Words THEN text[pos].word ELSE status'
         /\ Passed' = IF status' \in Words THEN pos - 1 ELSE pos
  <1>1. Read /\ UNCHANGED <<entry, kernel, output>> /\ status \in {"S", "IN"}
    BY DEF ReadOutside, ReadBody
  <1>2. /\ pos \in Nat /\ pos >= 1 /\ pos <= Len(text)
    BY <1>1, LineNumbers DEF Read, EndOfText
  <1>3. /\ pos' = pos + 1 /\ line' = text[pos] /\ chopped' = FALSE
        /\ UNCHANGED <<dialect, text, entry, kernel, menu, freed, header>>
    BY <1>1 DEF Read, output
  <1>4. Passed = pos - 1
    BY <1>1 DEF Passed, Words
  <1>5. Passed' = IF status' \in Words THEN pos - 1 ELSE pos
    BY <1>2, <1>3 DEF Passed
  <1>6. status' \in Words => status' = text[pos].word
    BY <1>3 DEF ReadOutside, ReadBody, Words
  <1>7. QED
    BY <1>2, <1>3, <1>4, <1>5, <1>6

\* A directive passes the line it was read from.
LEMMA DirectiveShape ==
  ASSUME TypeOK, LineInv, Title \/ Default \/ Delay \/ BodyAction
  PROVE  /\ status \in Words /\ status' \in {"S", "IN", "R"}
         /\ pos \in Nat /\ pos >= 2 /\ pos - 1 \in 1 .. Len(text)
         /\ line = text[pos - 1] /\ text[pos - 1].word = status
         /\ UNCHANGED <<dialect, text, pos, chopped, line, menu, freed>>
         /\ Passed = pos - 2 /\ Passed' = pos - 1
  <1>1. status \in Words /\ status' \in {"S", "IN", "R"} /\ UNCHANGED input
        /\ UNCHANGED <<menu, freed>>
    BY DEF Title, Default, Delay, Setting, BodyAction, Kernel, Other, Root,
       Initrd, Dtb, Module, Body, Words, output
  <1>2. /\ UNCHANGED <<dialect, text, pos, chopped, line>>
        /\ pos >= 2 /\ line = text[pos - 1] /\ text[pos - 1].word = status
    BY <1>1 DEF input, LineInv
  <1>3. pos \in Nat /\ pos - 1 \in 1 .. Len(text)
    BY <1>2, LineNumbers
  <1>4. Passed = pos - 2 /\ Passed' = pos - 1
    BY <1>1, <1>2 DEF Passed, Words
  <1>5. QED
    BY <1>1, <1>2, <1>3, <1>4

\* The other turns pass no line.
LEMMA TurnShape ==
  ASSUME TypeOK, \/ NextTitle \/ EndInBody \/ EndOutside
                 \/ Accept \/ AcceptLast \/ Reject \/ RejectLast
  PROVE  /\ pos \in Nat /\ pos >= 1 /\ pos <= Len(text) + 1
         /\ UNCHANGED <<dialect, text, pos, entry, kernel, header>>
         /\ status \notin Words /\ status' \notin Words
         /\ Passed = pos - 1 /\ Passed' = pos - 1
  <1>1. /\ UNCHANGED <<dialect, text, pos, entry, kernel, header>>
        /\ status \in {"IN", "S", "A", "R", "AQ", "RQ"}
        /\ status' \in {"S", "A", "R", "AQ", "RQ", "done"}
    BY DEF NextTitle, EndInBody, EndOutside, Accept, AcceptLast, Reject,
       RejectLast, PushBack, input, output
  <1>2. pos \in Nat /\ pos >= 1 /\ pos <= Len(text) + 1
    BY LineNumbers
  <1>3. QED
    BY <1>1, <1>2 DEF Passed, Words

\* The line at hand is the one before pos, and ends of blocks are ends.
LEMMA LineStep ==
  ASSUME IInv, TextInv, [Next]_vars
  PROVE  LineInv'
  <1>0. TypeOK /\ LineInv /\ OpenInv
    BY DEF IInv, TextInv
  <1>1. CASE ReadOutside \/ ReadBody
    <2>1. /\ pos \in Nat /\ pos >= 1 /\ pos' = pos + 1
          /\ line' = text[pos] /\ chopped' = FALSE /\ text' = text
          /\ status' \in Words => status' = text[pos].word
      BY <1>0, <1>1, ReadShape
    <2>2. status' \in {"S", "IN", "R"} \cup Words
      BY <1>1 DEF ReadOutside, ReadBody, HeadWords, BodyWords, Words
    <2>3. QED
      BY <2>1, <2>2 DEF LineInv, Words
  <1>2. CASE NextTitle
    <2>1. /\ pos \in Nat /\ pos >= 1
          /\ UNCHANGED <<dialect, text, pos, entry, kernel>>
          /\ Passed = pos - 1
      BY <1>0, <1>2, TurnShape
    <2>2. /\ pos \in 1 .. Len(text) /\ text[pos].word = "title"
          /\ chopped' = text[pos].cut
          /\ status = "IN" /\ status' = IF kernel THEN "A" ELSE "R"
      BY <1>0, <1>2, LineNumbers DEF NextTitle, PushBack, EndOfText
    <2>3. pos \in Titles
      BY <2>2 , <1>0, LineNumbers DEF Titles
    <2>4. entry.at \in Titles /\ entry.at < pos
      BY <1>0, <2>1, <2>2, LineNumbers DEF OpenInv, Starts
    <2>5. chopped' => pos \in AtRisk
      BY <2>2, <2>3, <2>4 DEF AtRisk
    <2>6. Titles' = Titles /\ AtRisk' = AtRisk
      BY <2>1, SameText
    <2>7. QED
      BY <2>1, <2>2, <2>3, <2>5, <2>6 DEF LineInv, Words
  <1>3. CASE EndInBody \/ EndOutside
    <2>1. /\ UNCHANGED <<dialect, text, pos, chopped, kernel>>
          /\ status' = "done" \/ status' = IF kernel THEN "AQ" ELSE "RQ"
          /\ EndOfText
      BY <1>3 DEF EndInBody, EndOutside, input
    <2>2. pos = Len(text) + 1
      BY <1>0, <2>1, LineNumbers DEF EndOfText
    <2>3. AtRisk' = AtRisk
      BY <2>1, SameText
    <2>4. QED
      BY <1>0, <2>1, <2>2, <2>3 DEF LineInv, Words
  <1>4. CASE Title \/ Default \/ Delay \/ BodyAction
    <2>1. /\ UNCHANGED <<dialect, text, pos, chopped>>
          /\ status' \in {"S", "IN", "R"}
      BY <1>0, <1>4, DirectiveShape
    <2>2. AtRisk' = AtRisk
      BY <2>1, SameText
    <2>3. QED
      BY <1>0, <2>1, <2>2 DEF LineInv, Words
  <1>5. CASE Accept \/ Reject \/ AcceptLast \/ RejectLast
    <2>1. /\ UNCHANGED <<dialect, text, pos, chopped>>
          /\ \/ status' = "S"
             \/ status' = "done" /\ status \in {"AQ", "RQ"}
      BY <1>5 DEF Accept, Reject, AcceptLast, RejectLast, input
    <2>2. AtRisk' = AtRisk
      BY <2>1, SameText
    <2>3. QED
      BY <1>0, <2>1, <2>2 DEF LineInv, Words
  <1>6. CASE UNCHANGED vars
    <2>1. UNCHANGED <<dialect, text, pos, chopped, status, line, kernel>>
      BY <1>6 DEF vars
    <2>2. AtRisk' = AtRisk /\ Titles' = Titles
      BY <2>1, SameText
    <2>3. QED
      BY <1>0, <2>1, <2>2 DEF LineInv
  <1>7. QED
    BY <1>1, <1>2, <1>3, <1>4, <1>5, <1>6 DEF Next, BodyAction

\* An entry that stays as it is while no line is dealt with.
LEMMA OpenSame ==
  ASSUME OpenInv, UNCHANGED <<dialect, text, entry, kernel>>,
         status' \in {"IN", "A", "AQ", "RQ"} \cup BodyWords
           => status \in {"IN", "A", "AQ", "RQ"} \cup BodyWords,
         Passed' = Passed
  PROVE  OpenInv'
  <1>1. PICK e, u : e = entry /\ u = Passed
    OBVIOUS
  <1>2. status \in {"IN", "A", "AQ", "RQ"} \cup BodyWords =>
          /\ Starts(e.at, u)' /\ AllGood(e.at, u)'
          /\ (kernel <=> AnyBoots(e.at, u)')
          /\ Described(e, e.at, u)'
    BY <1>1, SameText DEF OpenInv
  <1>3. entry' = e /\ Passed' = u /\ kernel' = kernel /\ BodyWords' = BodyWords
    BY <1>1, SameText
  <1>4. QED
    BY <1>2, <1>3 DEF OpenInv

\* One more line of a block.
LEMMA MoreLines ==
  ASSUME NEW a \in Nat, NEW u \in Nat, a <= u
  PROVE  /\ Starts(a, u + 1) <=> Starts(a, u) /\ u + 1 \notin Titles
         /\ AllGood(a, u + 1) <=> AllGood(a, u) /\ WellFormed(text[u + 1])
         /\ AnyBoots(a, u + 1) <=>
              AnyBoots(a, u) \/ text[u + 1].word \in {"kernel", "other"}
  <1>1. (a + 1) .. (u + 1) = ((a + 1) .. u) \cup {u + 1}
    OBVIOUS
  <1>2. a <= u + 1
    OBVIOUS
  <1>3. Starts(a, u + 1) <=> Starts(a, u) /\ u + 1 \notin Titles
    BY <1>1, <1>2 DEF Starts
  <1>4. AllGood(a, u + 1) <=> AllGood(a, u) /\ WellFormed(text[u + 1])
    BY <1>1 DEF AllGood
  <1>5. AnyBoots(a, u + 1) <=>
          AnyBoots(a, u) \/ text[u + 1].word \in {"kernel", "other"}
    BY <1>1 DEF AnyBoots
  <1>6. QED
    BY <1>3, <1>4, <1>5

\* An entry, with its title, a, and the lines dealt with.
LEMMA OpenEntry ==
  ASSUME TypeOK, OpenInv, status \in {"IN", "A", "AQ", "RQ"} \cup BodyWords
  PROVE  /\ entry.at \in Nat /\ Passed \in Nat /\ entry.at <= Passed
         /\ entry.at >= 1 /\ entry.at \in Titles
         /\ Starts(entry.at, Passed) /\ AllGood(entry.at, Passed)
         /\ kernel <=> AnyBoots(entry.at, Passed)
         /\ Described(entry, entry.at, Passed)
  <1>1. /\ Starts(entry.at, Passed) /\ AllGood(entry.at, Passed)
        /\ kernel <=> AnyBoots(entry.at, Passed)
        /\ Described(entry, entry.at, Passed)
    BY DEF OpenInv
  <1>2. entry.at \in 1 .. Len(text) /\ Len(text) \in Nat /\ entry.at <= Passed
        /\ entry.at \in Titles
    BY <1>1, LineNumbers DEF Starts
  <1>3. Passed \in Int
    BY LineNumbers DEF Passed
  <1>4. QED
    BY <1>1, <1>2, <1>3

\* What a directive with its argument makes of the entry.
LEMMA BodyMeans ==
  ASSUME TypeOK, LineInv, OpenInv, BodyAction, status' = "IN"
  PROVE  /\ WellFormed(line) /\ entry'.at = entry.at
         /\ kernel' <=> kernel \/ line.word \in {"kernel", "other"}
         /\ Described(entry', entry.at, Passed + 1)
  <1>1. /\ status \in BodyWords /\ line.arg # NoArg
    <2>1. status \in {"kernel", "other", "root", "initrd", "dtb", "module"} /\ line.arg # NoArg
      BY DEF BodyAction, Kernel, Other, Root, Initrd, Dtb, Module, Body
    <2>2. QED
      BY <2>1 DEF TypeOK, HeadWords
  <1>2. PICK a \in Nat, u \in Nat :
          /\ a = entry.at /\ u = Passed /\ a <= u /\ Described(entry, a, u)
    BY <1>1, OpenEntry
  <1>3. /\ line = text[u + 1] /\ line.word = status /\ entry \in Entry
        /\ line.arg \in Args /\ kernel \in BOOLEAN
    <2>1. pos \in Nat /\ Passed = pos - 2 /\ line = text[pos - 1]
          /\ text[pos - 1].word = status
      BY DirectiveShape
    <2>2. entry \in Entry /\ line.arg \in Args \cup {NoArg} /\ kernel \in BOOLEAN
      BY Types DEF TypeOK
    <2>3. u + 1 = pos - 1
      BY <1>2, <2>1
    <2>4. QED
      BY <1>1, <2>1, <2>2, <2>3
  <1>4. CASE Kernel
    <2>1. /\ status = "kernel" /\ kernel' = TRUE
          /\ entry' = [entry EXCEPT !.kernel = line.arg,
                                    !.append = IF line.rest THEN line.arg ELSE @]
      BY <1>1, <1>4 DEF Kernel, Body
    <2>2. Described(entry', a, u + 1)
      BY <1>2, <1>3, <2>1, DescribedKernel
    <2>3. entry'.at = entry.at
      BY <1>3, <2>1 DEF Entry
    <2>4. QED
      BY <1>1, <1>2, <1>3, <2>1, <2>2, <2>3 DEF WellFormed
  <1>5. CASE Other \/ Initrd \/ Dtb
    <2>1. \/ /\ status = "other" /\ kernel' = TRUE
             /\ entry' = [entry EXCEPT !.other = line.arg]
          \/ /\ status = "initrd" /\ kernel' = kernel
             /\ entry' = [entry EXCEPT !.initrd = line.arg]
          \/ /\ status = "dtb" /\ kernel' = kernel
             /\ entry' = [entry EXCEPT !.dtb = line.arg]
      BY <1>1, <1>3, <1>5 DEF Other, Initrd, Dtb, Body
    <2>2. Described(entry', a, u + 1)
      <3>1. PICK e, x : e = entry /\ x = line.arg /\ e \in Entry
        BY <1>3
      <3>2. /\ status = "other" => Described([e EXCEPT !.other = x], a, u + 1)
            /\ status = "initrd" => Described([e EXCEPT !.initrd = x], a, u + 1)
            /\ status = "dtb" => Described([e EXCEPT !.dtb = x], a, u + 1)
        BY <1>2, <1>3, <3>1, DescribedField
      <3>3. QED
        BY <2>1, <3>1, <3>2
    <2>3. entry'.at = entry.at
      BY <1>3, <2>1 DEF Entry
    <2>4. QED
      BY <1>1, <1>2, <1>3, <2>1, <2>2, <2>3 DEF WellFormed
  <1>6. CASE Module
    <2>1. /\ status = "module" /\ kernel' = kernel
          /\ entry' = [entry EXCEPT !.modules = Append(@, line.arg)]
      BY <1>1, <1>3, <1>6 DEF Module, Body
    <2>2. Described(entry', a, u + 1)
      BY <1>2, <1>3, <2>1, DescribedModule
    <2>3. entry'.at = entry.at
      BY <1>3, <2>1 DEF Entry
    <2>4. QED
      BY <1>1, <1>2, <1>3, <2>1, <2>2, <2>3 DEF WellFormed
  <1>7. CASE Root
    <2>1. /\ status = "root" /\ kernel' = kernel /\ RootKnown(line.arg)
          /\ entry' = Rooted(entry, line.arg)
      BY <1>1, <1>7 DEF Root, output
    <2>2. Described(entry', a, u + 1)
      BY <1>2, <1>3, <2>1, DescribedRoot
    <2>3. entry'.at = entry.at
      BY <1>3, <2>1 DEF Rooted, Entry
    <2>4. QED
      BY <1>1, <1>2, <1>3, <2>1, <2>2, <2>3 DEF WellFormed
  <1>8. QED
    BY <1>4, <1>5, <1>6, <1>7 DEF BodyAction

\* An open entry keeps to what its lines said.
LEMMA OpenStep ==
  ASSUME IInv, TextInv, [Next]_vars
  PROVE  OpenInv'
  <1>0. TypeOK /\ LineInv /\ OpenInv
    BY DEF IInv, TextInv
  <1> DEFINE Open == {"IN", "A", "AQ", "RQ"} \cup BodyWords
  <1>1. CASE ReadOutside
    <2>1. status' \in HeadWords \cup {"S"} /\ UNCHANGED <<dialect, text>>
      BY <1>1 DEF ReadOutside, Read
    <2>2. BodyWords' = BodyWords
      BY <2>1, SameText
    <2>3. QED
      BY <2>1, <2>2 DEF OpenInv, HeadWords, BodyWords
  <1>2. CASE ReadBody
    <2>1. /\ pos \in Nat /\ pos >= 1 /\ pos <= Len(text)
          /\ UNCHANGED <<dialect, text, entry, kernel>>
          /\ Passed = pos - 1
          /\ Passed' = IF status' \in Words THEN pos - 1 ELSE pos
      BY <1>0, <1>2, ReadShape
    <2>2. /\ status = "IN" /\ text[pos].word # "title"
          /\ status' \in BodyWords \cup {"IN", "R"}
          /\ status' = "IN" => text[pos].word = "blank"
      BY <1>2 DEF ReadBody, Read, BodyWords
    <2>3. CASE status' \in BodyWords \cup {"R"}
      <3>1. CASE status' = "R"
        <4>1. BodyWords' = BodyWords
          BY <2>1, SameText
        <4>2. QED
          BY <3>1, <4>1 DEF OpenInv, BodyWords
      <3>2. CASE status' \in BodyWords
        <4>1. status' \in Words
          BY <3>2 DEF BodyWords, Words
        <4>2. Passed' = Passed
          BY <2>1, <4>1
        <4>3. QED
          BY <1>0, <2>1, <2>2, <4>2, OpenSame
      <3>3. QED
        BY <2>3, <3>1, <3>2
    <2>4. CASE status' = "IN"
      <3>0. PICK e, a, u : e = entry /\ a = entry.at /\ u = Passed
        OBVIOUS
      <3>1. /\ a \in Nat /\ u \in Nat /\ a <= u /\ e = entry /\ a = e.at /\ u = Passed
            /\ Starts(a, u) /\ AllGood(a, u) /\ (kernel <=> AnyBoots(a, u))
            /\ Described(e, a, u)
        <4>1. status \in Open
          BY <2>2
        <4>2. QED
          BY <1>0, <3>0, <4>1, OpenEntry
      <3>2. u + 1 = pos /\ text[u + 1].word = "blank"
        BY <2>1, <2>2, <2>4, <3>1
      <3>3. u + 1 \notin Titles /\ WellFormed(text[u + 1])
        BY <3>2 DEF Titles, WellFormed
      <3>4. Starts(a, u + 1) /\ AllGood(a, u + 1) /\ (kernel <=> AnyBoots(a, u + 1))
        BY <3>1, <3>2, <3>3, MoreLines
      <3>5. Described(e, a, u + 1)
        BY <3>1, <3>2, DescribedBlank
      <3>6. Passed' = u + 1 /\ entry' = e /\ kernel' = kernel
        BY <2>1, <2>4, <3>1, <3>2 DEF Words
      <3>7. PICK v : v = u + 1
        OBVIOUS
      <3>8. /\ Starts(a, v)' /\ AllGood(a, v)' /\ (kernel <=> AnyBoots(a, v)')
            /\ Described(e, a, v)'
        BY <2>1, <3>4, <3>5, <3>7, SameText
      <3>9. QED
        BY <3>1, <3>6, <3>7, <3>8 DEF OpenInv
    <2>5. QED
      BY <2>2, <2>3, <2>4
  <1>3. CASE NextTitle \/ EndInBody
    <2>1. UNCHANGED <<dialect, text, entry, kernel>> /\ Passed' = Passed
      BY <1>0, <1>3, TurnShape
    <2>2. status = "IN"
      BY <1>3 DEF NextTitle, EndInBody
    <2>3. QED
      BY <1>0, <2>1, <2>2, OpenSame
  <1>4. CASE EndOutside \/ Accept \/ AcceptLast \/ Reject \/ RejectLast \/ Default \/ Delay
    <2>1. status' \in {"S", "done"} /\ UNCHANGED <<dialect, text>>
      BY <1>4 DEF EndOutside, Accept, AcceptLast, Reject, RejectLast, Default,
         Delay, Setting, input
    <2>2. BodyWords' = BodyWords
      BY <2>1, SameText
    <2>3. QED
      BY <2>1, <2>2 DEF OpenInv, BodyWords
  <1>5. CASE Title
    <2>1. /\ pos \in Nat /\ pos >= 2 /\ pos - 1 \in 1 .. Len(text)
          /\ line = text[pos - 1] /\ text[pos - 1].word = status
          /\ UNCHANGED <<dialect, text>> /\ Passed' = pos - 1
      BY <1>0, <1>5, DirectiveShape
    <2>2. BodyWords' = BodyWords
      BY <2>1, SameText
    <2>3. CASE status' = "S"
      BY <2>2, <2>3 DEF OpenInv, BodyWords
    <2>4. CASE status' # "S"
      <3>1. /\ status = "title" /\ status' = "IN" /\ line.arg # NoArg
            /\ entry' = NewEntry(pos - 1) /\ kernel' = FALSE
        BY <1>5, <2>4 DEF Title
      <3>2. PICK a, e : a = pos - 1 /\ e = NewEntry(a) /\ a \in Nat
        BY <2>1
      <3>3. e.at = a /\ entry' = e
        BY <3>1, <3>2 DEF NewEntry
      <3>4. a \in Titles
        BY <1>0, <2>1, <3>1, <3>2, LineNumbers DEF Titles
      <3>5. (a + 1) .. a = {}
        BY <3>2
      <3>6. Starts(a, a) /\ AllGood(a, a) /\ ~AnyBoots(a, a)
        BY <2>1, <3>1, <3>2, <3>4, <3>5 DEF Starts, AllGood, AnyBoots
      <3>7. Described(e, a, a)
        BY <3>2, DescribedFirst
      <3>8. Starts(a, a)' /\ AllGood(a, a)' /\ ~AnyBoots(a, a)' /\ Described(e, a, a)'
        BY <2>1, <3>6, <3>7, SameText
      <3>9. QED
        BY <2>1, <3>1, <3>2, <3>3, <3>8 DEF OpenInv
    <2>5. QED
      BY <2>3, <2>4
  <1>6. CASE BodyAction
    <2>1. /\ pos \in Nat /\ pos >= 2 /\ pos - 1 \in 1 .. Len(text)
          /\ line = text[pos - 1] /\ text[pos - 1].word = status
          /\ UNCHANGED <<dialect, text>> /\ Passed = pos - 2 /\ Passed' = pos - 1
      BY <1>0, <1>6, DirectiveShape
    <2>2. status' \in {"IN", "R"} /\ status \in BodyWords
      <3>1. /\ status' \in {"IN", "R"}
            /\ status \in {"kernel", "other", "root", "initrd", "dtb", "module"}
        BY <1>6 DEF BodyAction, Kernel, Other, Root, Initrd, Dtb, Module, Body
      <3>2. QED
        BY <1>0, <3>1 DEF TypeOK, HeadWords
    <2>3. CASE status' = "R"
      <3>1. BodyWords' = BodyWords
        BY <2>1, SameText
      <3>2. QED
        BY <2>3, <3>1 DEF OpenInv, BodyWords
    <2>4. CASE status' = "IN"
      <3>0. PICK e, a, u : e = entry' /\ a = entry.at /\ u = Passed
        OBVIOUS
      <3>1. /\ a \in Nat /\ u \in Nat /\ a <= u
            /\ e = entry' /\ a = entry.at /\ u = Passed
            /\ Starts(a, u) /\ AllGood(a, u) /\ (kernel <=> AnyBoots(a, u))
        <4>1. status \in Open
          BY <2>2
        <4>2. QED
          BY <1>0, <3>0, <4>1, OpenEntry
      <3>2. /\ WellFormed(line) /\ e.at = a
            /\ kernel' <=> kernel \/ line.word \in {"kernel", "other"}
            /\ Described(e, a, u + 1)
        BY <1>0, <1>6, <2>4, <3>1, BodyMeans
      <3>3. u + 1 = pos - 1 /\ line = text[u + 1]
        BY <2>1, <3>1
      <3>4. u + 1 \notin Titles
        <4>1. text[u + 1].word # "title"
          BY <2>1, <2>2, <3>3 DEF BodyWords
        <4>2. QED
          BY <4>1 DEF Titles
      <3>5. /\ Starts(a, u + 1) /\ AllGood(a, u + 1)
            /\ (kernel' <=> AnyBoots(a, u + 1))
        BY <3>1, <3>2, <3>3, <3>4, MoreLines
      <3>6. PICK v : v = u + 1
        OBVIOUS
      <3>7. /\ Starts(a, v)' /\ AllGood(a, v)' /\ (kernel' <=> AnyBoots(a, v)')
            /\ Described(e, a, v)'
        BY <2>1, <3>2, <3>5, <3>6, SameText
      <3>8. QED
        BY <2>1, <3>1, <3>2, <3>3, <3>6, <3>7 DEF OpenInv
    <2>5. QED
      BY <2>2, <2>3, <2>4
  <1>7. CASE UNCHANGED vars
    <2>1. UNCHANGED <<dialect, text, entry, kernel, status, pos>>
      BY <1>7 DEF vars
    <2>2. Passed' = Passed
      BY <2>1 DEF Passed
    <2>3. QED
      BY <1>0, <2>1, <2>2, OpenSame
  <1>8. QED
    BY <1>1, <1>2, <1>3, <1>4, <1>5, <1>6, <1>7 DEF Next, BodyAction
\* The text is never written.
LEMMA TextStays ==
  ASSUME [Next]_vars
  PROVE  UNCHANGED <<dialect, text>>
  BY DEF Next, ReadOutside, ReadBody, NextTitle, EndInBody, EndOutside, Read,
     PushBack, Title, Default, Delay, Setting, Kernel, Other, Root, Initrd,
     Dtb, Module, Body, Accept, AcceptLast, Reject, RejectLast, input, vars

\* A directive of the body that drops the entry is not well formed.
LEMMA BodyDrops ==
  ASSUME TypeOK, LineInv, BodyAction, status' = "R"
  PROVE  ~WellFormed(line)
  <1>1. line.word = status
    BY DirectiveShape
  <1>2. \/ line.arg = NoArg /\ status # "blank"
        \/ status = "root" /\ ~RootKnown(line.arg)
    BY DEF BodyAction, Kernel, Other, Root, Initrd, Dtb, Module, Body
  <1>3. QED
    BY <1>1, <1>2 DEF WellFormed

\* A dropped entry deserves it.
LEMMA RejectStep ==
  ASSUME IInv, TextInv, [Next]_vars
  PROVE  RejectInv'
  <1>0. TypeOK /\ LineInv /\ OpenInv /\ RejectInv
    BY DEF IInv, TextInv
  <1>1. UNCHANGED <<dialect, text>>
    BY TextStays
  <1>2. PICK a, q, p : a = entry'.at /\ q = pos' - 1 /\ p = pos'
    OBVIOUS
  <1>3. ASSUME status' = "R"
        PROVE  /\ Starts(a, q)
               /\ ~AllGood(a, q) \/ (p \in Titles /\ ~AnyBoots(a, q))
    <2>1. CASE ReadBody
      <3>1. /\ pos \in Nat /\ pos' = pos + 1 /\ entry' = entry /\ Passed = pos - 1
            /\ text[pos] = line'
        BY <1>0, <2>1, ReadShape
      <3>2. PICK u : u = Passed
        OBVIOUS
      <3>3. /\ status = "IN" /\ line'.word # "title" /\ line'.word # "blank"
            /\ line'.word \notin BodyWords
        BY <1>3, <2>1 DEF ReadBody, BodyWords
      <3>4. /\ a \in Nat /\ u \in Nat /\ a <= u /\ Starts(a, u)
        BY <1>0, <1>2, <3>1, <3>2, <3>3, OpenEntry
      <3>5. q = u + 1 /\ u + 1 = pos
        BY <1>2, <3>1, <3>2
      <3>6. ~WellFormed(text[u + 1]) /\ u + 1 \notin Titles
        BY <3>1, <3>3, <3>5 DEF WellFormed, Titles
      <3>7. QED
        BY <3>4, <3>5, <3>6, MoreLines
    <2>2. CASE BodyAction
      <3>1. /\ pos \in Nat /\ pos' = pos /\ Passed = pos - 2
            /\ text[pos - 1] = line /\ line.word = status
        BY <1>0, <2>2, DirectiveShape
      <3>2. PICK u : u = Passed
        OBVIOUS
      <3>3. status \in BodyWords /\ entry' = entry
        <4>1. /\ status \in {"kernel", "other", "root", "initrd", "dtb", "module"}
              /\ entry' = entry
          BY <1>3, <2>2 DEF BodyAction, Kernel, Other, Root, Initrd, Dtb, Module, Body
        <4>2. QED
          BY <1>0, <4>1 DEF TypeOK, HeadWords
      <3>4. /\ a \in Nat /\ u \in Nat /\ a <= u /\ Starts(a, u)
        BY <1>0, <1>2, <3>1, <3>2, <3>3, OpenEntry
      <3>5. q = u + 1 /\ u + 1 = pos - 1
        BY <1>2, <3>1, <3>2
      <3>6. ~WellFormed(text[u + 1])
        BY <1>0, <1>3, <2>2, <3>1, <3>5, BodyDrops
      <3>7. u + 1 \notin Titles
        BY <3>1, <3>3, <3>5 DEF Titles, BodyWords
      <3>8. QED
        BY <3>4, <3>5, <3>6, <3>7, MoreLines
    <2>3. CASE NextTitle
      <3>1. /\ pos \in Nat /\ pos' = pos /\ entry' = entry /\ Passed = pos - 1
        BY <1>0, <2>3, TurnShape
      <3>2. /\ status = "IN" /\ ~kernel /\ pos \in DOMAIN text
            /\ text[pos].word = "title"
        BY <1>0, <1>3, <2>3, LineNumbers DEF NextTitle, PushBack, EndOfText
      <3>3. pos \in Titles
        BY <3>2 DEF Titles
      <3>4. Starts(a, q) /\ ~AnyBoots(a, q)
        BY <1>0, <1>2, <3>1, <3>2, OpenEntry
      <3>5. QED
        BY <1>2, <3>1, <3>3, <3>4
    <2>4. CASE UNCHANGED vars
      BY <1>0, <1>2, <1>3, <2>4 DEF vars, RejectInv
    <2>5. CASE \/ ReadOutside \/ EndOutside \/ EndInBody \/ Title \/ Default \/ Delay
               \/ Accept \/ AcceptLast \/ Reject \/ RejectLast
      BY <1>3, <2>5 DEF ReadOutside, EndOutside, EndInBody, Title, Default, Delay,
         Setting, Accept, AcceptLast, Reject, RejectLast, HeadWords
    <2>6. QED
      BY <2>1, <2>2, <2>3, <2>4, <2>5 DEF Next, BodyAction
  <1>4. status' = "R" =>
          /\ Starts(a, q)'
          /\ ~AllGood(a, q)' \/ (p \in Titles' /\ ~AnyBoots(a, q)')
    BY <1>1, <1>3, SameText
  <1>5. QED
    BY <1>2, <1>4 DEF RejectInv

-----------------------------------------------------------------------------

\* The end of a bootable block.
LEMMA BlockBoots ==
  ASSUME TypeOK, NEW a, NEW u \in Nat, Starts(a, u), u <= Len(text),
         u = Len(text) \/ u + 1 \in Titles
  PROVE  a \in Bootable <=> AllGood(a, u) /\ AnyBoots(a, u)
  <1>1. Block(a) = (a + 1) .. u
    BY BlockEnd
  <1>2. a \in Titles /\ text[a].arg # NoArg
    BY DEF Starts
  <1>3. QED
    BY <1>1, <1>2 DEF Bootable, AllGood, AnyBoots

\* A bad line spoils its block wherever the block ends.
LEMMA BlockSpoilt ==
  ASSUME TypeOK, NEW a, NEW u \in Nat, Starts(a, u), u <= Len(text), ~AllGood(a, u)
  PROVE  a \notin Bootable
  <1>1. /\ Len(text) \in Nat /\ Titles \subseteq 1 .. Len(text) /\ a \in Nat
        /\ a <= u /\ \A j \in (a + 1) .. u : j \notin Titles
    BY LineNumbers DEF Starts
  <1>2. PICK b \in (a + 1) .. u : ~WellFormed(text[b])
    BY DEF AllGood
  <1>3. b \in Block(a)
    <2>1. b \in (a + 1) .. Len(text)
      BY <1>1
    <2>2. Titles \cap (a + 1) .. b = {}
      BY <1>1
    <2>3. QED
      BY <2>1, <2>2 DEF Block
  <1>4. QED
    BY <1>2, <1>3 DEF Bootable

\* What is linked when an entry is accepted.
LEMMA AcceptMeans ==
  ASSUME IInv, TextInv, Accept \/ AcceptLast
  PROVE  /\ entry.at \in Bootable /\ DescribedBy(entry, entry.at)
         /\ Len(menu) \in Nat /\ Len(menu') = Len(menu) + 1
         /\ \A m \in 1 .. Len(menu) : menu'[m] = menu[m]
         /\ menu'[Len(menu) + 1] = entry
         /\ DOMAIN menu = 1 .. Len(menu) /\ DOMAIN menu' = 1 .. (Len(menu) + 1)
  <1>0. TypeOK /\ LineInv /\ OpenInv
    BY DEF IInv, TextInv
  <1>1. status \in {"A", "AQ"} /\ menu' = Append(menu, entry)
    BY DEF Accept, AcceptLast
  <1>2. PICK a, u : a = entry.at /\ u = Passed
    OBVIOUS
  <1>3. /\ a \in Nat /\ u \in Nat /\ a <= u /\ Starts(a, u) /\ AllGood(a, u)
        /\ (kernel <=> AnyBoots(a, u)) /\ Described(entry, a, u)
    BY <1>0, <1>1, <1>2, OpenEntry
  <1>4. u = pos - 1
    BY <1>1, <1>2 DEF Passed, Words
  <1>5. /\ kernel /\ u <= Len(text)
        /\ u = Len(text) \/ u + 1 \in Titles
    BY <1>0, <1>1, <1>4, LineNumbers DEF LineInv
  <1>6. a \in Bootable
    BY <1>0, <1>3, <1>5, BlockBoots
  <1>7. Block(a) = (a + 1) .. u
    BY <1>0, <1>3, <1>5, BlockEnd
  <1>8. DescribedBy(entry, a)
    <2>1. PICK e : e = entry
      OBVIOUS
    <2>2. QED
      BY <1>2, <1>3, <1>7, <2>1, DescribedAll
  <1>9. /\ Len(menu) \in Nat /\ Len(menu') = Len(menu) + 1
        /\ \A m \in 1 .. Len(menu) : menu'[m] = menu[m]
        /\ menu'[Len(menu) + 1] = entry
        /\ DOMAIN menu = 1 .. Len(menu) /\ DOMAIN menu' = 1 .. (Len(menu) + 1)
    <2>1. menu \in Seq(Entry) /\ entry \in Entry
      BY <1>0, Types
    <2>2. QED
      BY <1>1, <2>1
  <1>10. QED
    BY <1>2, <1>6, <1>8, <1>9

\* The list holds bootable blocks only, as they are.
LEMMA MenuStep ==
  ASSUME IInv, TextInv, [Next]_vars
  PROVE  MenuInv'
  <1>0. TypeOK /\ MenuInv
    BY DEF IInv, TextInv
  <1>1. UNCHANGED <<dialect, text>>
    BY TextStays
  <1>2. \A m \in DOMAIN menu' : \E i \in Bootable : DescribedBy(menu'[m], i)
    <2>1. CASE Accept \/ AcceptLast
      <3> SUFFICES ASSUME NEW m \in DOMAIN menu'
                   PROVE  \E i \in Bootable : DescribedBy(menu'[m], i)
        OBVIOUS
      <3>1. /\ entry.at \in Bootable /\ DescribedBy(entry, entry.at)
            /\ Len(menu) \in Nat
            /\ \A k \in 1 .. Len(menu) : menu'[k] = menu[k]
            /\ menu'[Len(menu) + 1] = entry
            /\ DOMAIN menu = 1 .. Len(menu) /\ DOMAIN menu' = 1 .. (Len(menu) + 1)
        BY <2>1, AcceptMeans
      <3>2. m \in 1 .. Len(menu) \/ m = Len(menu) + 1
        BY <3>1
      <3>3. CASE m = Len(menu) + 1
        BY <3>1, <3>3
      <3>4. CASE m \in 1 .. Len(menu)
        BY <1>0, <3>1, <3>4 DEF MenuInv
      <3>5. QED
        BY <3>2, <3>3, <3>4
    <2>2. CASE ~(Accept \/ AcceptLast)
      <3>1. menu' = menu
        BY <2>2 DEF Next, ReadOutside, ReadBody, NextTitle, EndInBody, EndOutside,
           Title, Default, Delay, Setting, Kernel, Other, Root, Initrd, Dtb,
           Module, Body, Reject, RejectLast, output, vars
      <3>2. QED
        BY <1>0, <3>1 DEF MenuInv
    <2>3. QED
      BY <2>1, <2>2
  <1>3. \A e, i : DescribedBy(e, i)' <=> DescribedBy(e, i)
    BY <1>1, SameText
  <1>4. Bootable' = Bootable
    BY <1>1, SameText
  <1>5. QED
    BY <1>2, <1>3, <1>4 DEF MenuInv
\* An entry dropped is no bootable block.
LEMMA RejectMeans ==
  ASSUME IInv, TextInv, Reject \/ RejectLast
  PROVE  entry.at \notin Bootable
  <1>0. TypeOK /\ LineInv /\ OpenInv /\ RejectInv
    BY DEF IInv, TextInv
  <1>1. PICK a, u : a = entry.at /\ u = pos - 1
    OBVIOUS
  <1>2. u \in Nat /\ u <= Len(text) /\ pos = u + 1
    BY <1>0, <1>1, LineNumbers
  <1>3. CASE Reject
    <2>1. status = "R"
      BY <1>3 DEF Reject
    <2>2. /\ Starts(a, u)
          /\ ~AllGood(a, u) \/ (u + 1 \in Titles /\ ~AnyBoots(a, u))
      BY <1>0, <1>1, <1>2, <2>1 DEF RejectInv
    <2>3. QED
      BY <1>0, <1>1, <1>2, <2>2, BlockBoots, BlockSpoilt
  <1>4. CASE RejectLast
    <2>1. status = "RQ" /\ ~kernel /\ pos = Len(text) + 1
      BY <1>0, <1>4 DEF RejectLast, LineInv
    <2>2. Passed = u
      BY <1>1, <2>1 DEF Passed, Words
    <2>3. Starts(a, u) /\ ~AnyBoots(a, u)
      BY <1>0, <1>1, <2>1, <2>2, OpenEntry
    <2>4. u = Len(text)
      BY <1>0, <1>1, <2>1, LineNumbers
    <2>5. QED
      BY <1>0, <1>1, <1>2, <2>3, <2>4, BlockBoots
  <1>5. QED
    BY <1>3, <1>4

\* The entry's title stays while its block is read.
LEMMA EntryStays ==
  ASSUME TypeOK, LineInv, OpenInv, BodyAction
  PROVE  /\ status \in BodyWords /\ status' \in {"IN", "R"}
         /\ entry'.at = entry.at
  <1>1. /\ status' \in {"IN", "R"}
        /\ status \in {"kernel", "other", "root", "initrd", "dtb", "module"}
        /\ status' = "R" => entry' = entry
    BY DEF BodyAction, Kernel, Other, Root, Initrd, Dtb, Module, Body
  <1>2. status \in BodyWords
    BY <1>1 DEF TypeOK, HeadWords
  <1>3. QED
    BY <1>1, <1>2, BodyMeans

\* No title is passed without being linked, at risk or no bootable block.
LEMMA TitlesStep ==
  ASSUME IInv, TextInv, [Next]_vars
  PROVE  TitlesInv'
  <1>0. TypeOK /\ LineInv /\ OpenInv /\ TitlesInv
    BY DEF IInv, TextInv
  <1>1. UNCHANGED <<dialect, text>>
    BY TextStays
  <1>2. InEntry' = InEntry /\ Titles' = Titles /\ Bootable' = Bootable /\ AtRisk' = AtRisk
    BY <1>1, SameText DEF InEntry
  <1>3. ASSUME NEW i \in Titles, i <= Passed'
        PROVE  \/ i \in Linked' \/ i \in AtRisk \/ i \notin Bootable
               \/ status' \in InEntry /\ i = entry'.at
    <2>0. i \in Nat /\ i \in 1 .. Len(text) /\ text[i].word = "title"
          /\ Len(text) \in Nat
      BY <1>0, LineNumbers DEF Titles
    <2>1. CASE ReadOutside \/ ReadBody
      <3>1. /\ pos \in Nat /\ pos >= 1 /\ line' = text[pos]
            /\ UNCHANGED <<entry, menu>>
            /\ Passed = pos - 1
            /\ Passed' = IF status' \in Words THEN pos - 1 ELSE pos
        BY <1>0, <2>1, ReadShape
      <3>2. Linked' = Linked
        BY <3>1 DEF Linked
      <3>3. status \in InEntry => status' \in InEntry
        BY <2>1 DEF ReadOutside, ReadBody, InEntry, BodyWords
      <3>4. CASE i <= pos - 1
        BY <1>0, <3>1, <3>2, <3>3, <3>4 DEF TitlesInv
      <3>5. CASE i = pos /\ status' \notin Words
        <4>1. ReadOutside /\ status' = "S"
          BY <2>0, <2>1, <3>1, <3>5 DEF ReadOutside, ReadBody, HeadWords, Words
        <4>2. chopped
          BY <2>0, <3>1, <3>5, <4>1 DEF ReadOutside, HeadWords
        <4>3. QED
          BY <1>0, <3>5, <4>2 DEF LineInv
      <3>6. QED
        BY <1>3, <2>0, <3>1, <3>4, <3>5
    <2>2. CASE NextTitle \/ EndInBody \/ EndOutside
      <3>1. /\ UNCHANGED <<entry, menu>> /\ Passed' = Passed
        BY <1>0, <2>2, TurnShape DEF NextTitle, EndInBody, EndOutside, output
      <3>2. Linked' = Linked
        BY <3>1 DEF Linked
      <3>3. status \in InEntry => status' \in InEntry
        BY <2>2 DEF NextTitle, EndInBody, EndOutside, InEntry, BodyWords
      <3>4. QED
        BY <1>0, <1>3, <3>1, <3>2, <3>3 DEF TitlesInv
    <2>3. CASE Title \/ Default \/ Delay
      <3>1. /\ pos \in Nat /\ line = text[pos - 1] /\ text[pos - 1].word = status
            /\ menu' = menu /\ Passed = pos - 2 /\ Passed' = pos - 1
        BY <1>0, <2>3, DirectiveShape
      <3>2. Linked' = Linked
        BY <3>1 DEF Linked
      <3>3. status \in {"title", "default", "delay"}
        BY <2>3 DEF Title, Default, Delay, Setting
      <3>4. CASE i <= pos - 2
        BY <1>0, <3>1, <3>2, <3>3, <3>4 DEF TitlesInv, InEntry, BodyWords
      <3>5. CASE i = pos - 1
        <4>1. Title
          BY <2>0, <2>3, <3>1, <3>5 DEF Default, Delay, Setting
        <4>2. CASE line.arg = NoArg
          BY <3>1, <3>5, <4>2 DEF Bootable
        <4>3. CASE line.arg # NoArg
          BY <3>5, <4>1, <4>3 DEF Title, NewEntry, InEntry
        <4>4. QED
          BY <4>2, <4>3
      <3>6. QED
        BY <1>3, <2>0, <3>1, <3>4, <3>5
    <2>4. CASE BodyAction
      <3>1. /\ pos \in Nat /\ text[pos - 1].word = status
            /\ menu' = menu /\ Passed = pos - 2 /\ Passed' = pos - 1
        BY <1>0, <2>4, DirectiveShape
      <3>2. status \in BodyWords /\ status' \in InEntry /\ entry'.at = entry.at
        BY <1>0, <2>4, EntryStays DEF InEntry
      <3>3. Linked' = Linked
        BY <3>1 DEF Linked
      <3>4. i # pos - 1
        BY <2>0, <3>1, <3>2 DEF BodyWords
      <3>5. i <= Passed
        BY <1>3, <2>0, <3>1, <3>4
      <3>6. QED
        BY <1>0, <3>2, <3>3, <3>5 DEF TitlesInv
    <2>5. CASE Accept \/ AcceptLast
      <3>1. Passed' = Passed
        BY <1>0, <2>5, TurnShape
      <3>2. /\ Len(menu) \in Nat
            /\ \A m \in 1 .. Len(menu) : menu'[m] = menu[m]
            /\ menu'[Len(menu) + 1] = entry
            /\ DOMAIN menu = 1 .. Len(menu) /\ DOMAIN menu' = 1 .. (Len(menu) + 1)
        BY <2>5, AcceptMeans
      <3>3. \A m \in 1 .. Len(menu) : m \in DOMAIN menu'
        BY <3>2
      <3>4. Len(menu) + 1 \in DOMAIN menu'
        BY <3>2
      <3>5. entry.at \in Linked'
        BY <3>2, <3>4 DEF Linked
      <3>6. Linked \subseteq Linked'
        BY <3>2, <3>3 DEF Linked
      <3>7. QED
        BY <1>0, <1>3, <3>1, <3>5, <3>6 DEF TitlesInv
    <2>6. CASE Reject \/ RejectLast
      <3>1. Passed' = Passed /\ menu' = menu
        BY <1>0, <2>6, TurnShape DEF Reject, RejectLast
      <3>2. entry.at \notin Bootable
        BY <2>6, RejectMeans
      <3>3. Linked' = Linked
        BY <3>1 DEF Linked
      <3>4. QED
        BY <1>0, <1>3, <3>1, <3>2, <3>3 DEF TitlesInv
    <2>7. CASE UNCHANGED vars
      <3>1. UNCHANGED <<pos, status, entry, menu>>
        BY <2>7 DEF vars
      <3>2. Passed' = Passed /\ Linked' = Linked
        BY <3>1 DEF Passed, Linked
      <3>3. QED
        BY <1>0, <1>3, <3>1, <3>2 DEF TitlesInv
    <2>8. QED
      BY <2>1, <2>2, <2>3, <2>4, <2>5, <2>6, <2>7 DEF Next, BodyAction
  <1>4. QED
    BY <1>2, <1>3 DEF TitlesInv

-----------------------------------------------------------------------------

\* The block at hand has one title.
LEMMA StartsOne ==
  ASSUME TypeOK, NEW a, NEW b, NEW u \in Nat, Starts(a, u), Starts(b, u)
  PROVE  a = b
  <1>1. /\ a \in Nat /\ b \in Nat /\ a \in Titles /\ b \in Titles
        /\ a <= u /\ b <= u
        /\ \A j \in (a + 1) .. u : j \notin Titles
        /\ \A j \in (b + 1) .. u : j \notin Titles
    BY LineNumbers DEF Starts
  <1>2. ~(a < b)
    BY <1>1
  <1>3. ~(b < a)
    BY <1>1
  <1>4. QED
    BY <1>1, <1>2, <1>3

\* What is spoilt stays so until the next title.
LEMMA SpoiltMore ==
  ASSUME TypeOK, NEW u \in Nat, Spoilt(u), u + 1 \notin Titles
  PROVE  Spoilt(u + 1)
  <1> SUFFICES ASSUME NEW t \in Titles, Starts(t, u + 1)
               PROVE  ~AllGood(t, u + 1)
    BY DEF Spoilt
  <1>1. t \in Nat /\ t <= u + 1 /\ t # u + 1
    BY LineNumbers DEF Starts
  <1>2. t <= u
    BY <1>1
  <1>3. Starts(t, u)
    BY <1>1, <1>2, MoreLines
  <1>4. ~AllGood(t, u)
    BY <1>3 DEF Spoilt
  <1>5. QED
    BY <1>1, <1>2, <1>4, MoreLines

\* Between entries the block at hand is spoilt, or there is none.
LEMMA SpoiltStep ==
  ASSUME IInv, TextInv, [Next]_vars
  PROVE  SpoiltInv'
  <1>0. TypeOK /\ LineInv /\ OpenInv /\ RejectInv /\ SpoiltInv
    BY DEF IInv, TextInv
  <1>1. UNCHANGED <<dialect, text>>
    BY TextStays
  <1>2. PICK v, p : v = Passed' /\ p = pos'
    OBVIOUS
  <1>3. ASSUME AtRisk = {}, status' \in {"S", "default", "delay"}
        PROVE  (status' = "S" /\ p \in Titles) \/ Spoilt(v)
    <2>0. ~chopped
      BY <1>0, <1>3 DEF LineInv
    <2>1. CASE ReadOutside
      <3>1. /\ pos \in Nat /\ pos >= 1 /\ pos <= Len(text) /\ line' = text[pos]
            /\ Passed = pos - 1
            /\ Passed' = IF status' \in Words THEN pos - 1 ELSE pos
        BY <1>0, <2>1, ReadShape
      <3>2. PICK u \in Nat : u = pos - 1
        BY <3>1
      <3>3. u + 1 \notin Titles
        BY <1>3, <2>0, <2>1, <3>1, <3>2 DEF ReadOutside, HeadWords, Titles
      <3>4. status = "S"
        BY <2>1 DEF ReadOutside
      <3>5. Spoilt(u)
        BY <1>0, <1>3, <3>1, <3>2, <3>3, <3>4 DEF SpoiltInv
      <3>6. Spoilt(u + 1)
        BY <1>0, <3>3, <3>5, SpoiltMore
      <3>7. v = u \/ v = u + 1
        BY <1>2, <3>1, <3>2
      <3>8. QED
        BY <3>5, <3>6, <3>7
    <2>2. CASE Title
      <3>1. /\ pos \in Nat /\ pos >= 2 /\ pos - 1 \in 1 .. Len(text)
            /\ line = text[pos - 1] /\ text[pos - 1].word = status
            /\ Passed' = pos - 1
        BY <1>0, <2>2, DirectiveShape
      <3>2. status = "title" /\ line.arg = NoArg
        BY <1>3, <2>2 DEF Title
      <3>3. v \in Titles /\ text[v].arg = NoArg /\ v \in Nat
        BY <1>0, <1>2, <3>1, <3>2, LineNumbers DEF Titles
      <3>4. ASSUME NEW t \in Titles, Starts(t, v)
            PROVE  FALSE
        <4>1. /\ t \in Nat /\ t <= v /\ text[t].arg # NoArg
              /\ \A j \in (t + 1) .. v : j \notin Titles
          BY <1>0, <3>4, LineNumbers DEF Starts
        <4>2. t # v
          BY <3>3, <4>1
        <4>3. v \in (t + 1) .. v
          BY <3>3, <4>1, <4>2
        <4>4. QED
          BY <3>3, <4>1, <4>3
      <3>5. QED
        BY <3>4 DEF Spoilt
    <2>3. CASE Default \/ Delay
      <3>1. /\ pos \in Nat /\ pos >= 2 /\ text[pos - 1].word = status
            /\ Passed = pos - 2 /\ Passed' = pos - 1
        BY <1>0, <2>3, DirectiveShape
      <3>2. PICK u \in Nat : u = pos - 2
        BY <3>1
      <3>3. status \in {"default", "delay"}
        BY <2>3 DEF Default, Delay, Setting
      <3>4. Spoilt(u)
        BY <1>0, <1>3, <3>1, <3>2, <3>3 DEF SpoiltInv
      <3>5. u + 1 = pos - 1
        BY <3>1, <3>2
      <3>6. u + 1 \notin Titles
        BY <3>1, <3>3, <3>5 DEF Titles
      <3>7. v = u + 1
        BY <1>2, <3>1, <3>5
      <3>8. QED
        BY <1>0, <3>4, <3>6, <3>7, SpoiltMore
    <2>4. CASE Accept
      <3>1. status = "A" /\ status' = "S" /\ pos' = pos
        BY <2>4 DEF Accept, input
      <3>2. QED
        BY <1>0, <1>2, <3>1 DEF LineInv
    <2>5. CASE Reject
      <3>1. status = "R" /\ status' = "S" /\ pos' = pos /\ pos \in Nat /\ pos >= 1
            /\ Passed' = pos - 1
        BY <1>0, <2>5, TurnShape DEF Reject
      <3>2. PICK a : a = entry.at
        OBVIOUS
      <3>3. v \in Nat /\ v = pos - 1
        BY <1>2, <3>1
      <3>4. Starts(a, v) /\ (~AllGood(a, v) \/ pos \in Titles)
        BY <1>0, <3>1, <3>2, <3>3 DEF RejectInv
      <3>5. CASE pos \in Titles
        BY <1>2, <3>1, <3>5
      <3>6. CASE ~AllGood(a, v)
        <4>1. \A t : Starts(t, v) => t = a
          BY <1>0, <3>3, <3>4, StartsOne
        <4>2. QED
          BY <3>6, <4>1 DEF Spoilt
      <3>7. QED
        BY <3>4, <3>5, <3>6
    <2>6. CASE UNCHANGED vars
      <3>1. UNCHANGED <<pos, status>>
        BY <2>6 DEF vars
      <3>2. Passed' = Passed
        BY <3>1 DEF Passed
      <3>3. QED
        BY <1>0, <1>2, <1>3, <3>1, <3>2 DEF SpoiltInv
    <2>7. CASE \/ ReadBody \/ NextTitle \/ EndInBody \/ EndOutside \/ BodyAction
               \/ AcceptLast \/ RejectLast
      BY <1>3, <2>7 DEF ReadBody, NextTitle, EndInBody, EndOutside, BodyAction,
         Kernel, Other, Root, Initrd, Dtb, Module, Body, AcceptLast, RejectLast,
         BodyWords
    <2>8. QED
      BY <2>1, <2>2, <2>3, <2>4, <2>5, <2>6, <2>7 DEF Next, BodyAction
  <1>4. (AtRisk' = {} /\ status' \in {"S", "default", "delay"}) =>
          (status' = "S" /\ p \in Titles') \/ Spoilt(v)'
    BY <1>1, <1>3, SameText
  <1>5. QED
    BY <1>2, <1>4 DEF SpoiltInv
-----------------------------------------------------------------------------

\* A setting counts where no good block is open.
LEMMA OutsideSpoilt ==
  ASSUME TypeOK, NEW u \in Nat, u + 1 \in DOMAIN text, NEW w,
         w \in {"default", "delay"}, text[u + 1].word = w
  PROVE  u + 1 \in Outside(w) <=>
           text[u + 1].arg # NoArg /\ w \in HeadWords /\ Spoilt(u)
  <1>1. u + 1 \notin Titles
    BY DEF Titles
  <1>2. ASSUME NEW t \in Titles
        PROVE  (u + 1 \in Block(t) /\ text[t].arg # NoArg) <=> Starts(t, u)
    <2>1. t \in Nat /\ u + 1 \in 1 .. Len(text) /\ Len(text) \in Nat
      BY LineNumbers
    <2>2. CASE t <= u
      <3>1. u + 1 \in (t + 1) .. Len(text)
        BY <2>1, <2>2
      <3>2. (t + 1) .. (u + 1) = ((t + 1) .. u) \cup {u + 1}
        BY <2>1, <2>2
      <3>3. u + 1 \in Block(t) <=> \A j \in (t + 1) .. u : j \notin Titles
        BY <1>1, <3>1, <3>2 DEF Block
      <3>4. QED
        BY <2>2, <3>3 DEF Starts
    <2>3. CASE ~(t <= u)
      <3>1. u + 1 \notin (t + 1) .. Len(text)
        BY <2>1, <2>3
      <3>2. QED
        BY <2>3, <3>1 DEF Block, Starts
    <2>4. QED
      BY <2>2, <2>3
  <1>3. \A t : AllGood(t, u) <=> ~(\E j \in (t + 1) .. (u + 1 - 1) : ~WellFormed(text[j]))
    <2>1. u + 1 - 1 = u
      OBVIOUS
    <2>2. QED
      BY <2>1 DEF AllGood
  <1>4. QED
    BY <1>2, <1>3 DEF Outside, Spoilt

\* The settings of the lines up to u.
Given(w, u) == {j \in Outside(w) : j <= u}

\* One line more among the settings that count.
LEMMA GivenMore ==
  ASSUME TypeOK, NEW u \in Nat, NEW w
  PROVE  /\ Given(w, u + 1) = IF u + 1 \in Outside(w) THEN Given(w, u) \cup {u + 1}
                              ELSE Given(w, u)
         /\ \A j \in Given(w, u) : j \in Nat /\ j <= u
  <1>1. Outside(w) \subseteq Nat
    BY LineNumbers DEF Outside
  <1>2. \A j \in Nat : j <= u + 1 <=> j <= u \/ j = u + 1
    OBVIOUS
  <1>3. QED
    BY <1>1, <1>2 DEF Given

\* The header through a step that passes no setting that counts.
LEMMA SettingsKept ==
  ASSUME TypeOK, SettingsInv, UNCHANGED <<dialect, text, header>>,
         NEW u \in Nat, u = Passed, NEW v, v = Passed',
         \/ v = u
         \/ v = u + 1 /\ (AtRisk = {} => u + 1 \notin Outside("default") \cup Outside("delay"))
  PROVE  SettingsInv'
  <1>1. AtRisk = {} => /\ Given("default", v) = Given("default", u)
                       /\ Given("delay", v) = Given("delay", u)
    BY GivenMore
  <1>2. PICK d1, d2 : d1 = Given("default", v) /\ d2 = Given("delay", v)
    OBVIOUS
  <1>3. AtRisk = {} => /\ header.default_os = LastNumber(d1, 0)
                       /\ header.delay = LastNumber(d2, 5)
    BY <1>1, <1>2 DEF SettingsInv, Given
  <1>4. /\ AtRisk' = AtRisk
        /\ LastNumber(d1, 0)' = LastNumber(d1, 0)
        /\ LastNumber(d2, 5)' = LastNumber(d2, 5)
    BY SameText
  <1>5. /\ {j \in Outside("default") : j <= Passed}' = d1
        /\ {j \in Outside("delay") : j <= Passed}' = d2
    BY <1>2, SameText DEF Given
  <1>6. QED
    BY <1>3, <1>4, <1>5 DEF SettingsInv

\* No setting counts inside a block that is still good.
LEMMA InsideGood ==
  ASSUME TypeOK, OpenInv, status = "IN", NEW u \in Nat, u = Passed,
         u + 1 \in DOMAIN text
  PROVE  u + 1 \notin Outside("default") \cup Outside("delay")
  <1>1. PICK a : a = entry.at
    OBVIOUS
  <1>2. a \in Titles /\ Starts(a, u) /\ AllGood(a, u)
    BY <1>1, OpenEntry
  <1>3. ~Spoilt(u)
    BY <1>2 DEF Spoilt
  <1>4. \A w : u + 1 \in Outside(w) => text[u + 1].word = w
    BY DEF Outside
  <1>5. QED
    BY <1>3, <1>4, OutsideSpoilt

\* The header holds the last settings given outside the good blocks.
LEMMA SettingsStep ==
  ASSUME IInv, TextInv, [Next]_vars
  PROVE  SettingsInv'
  <1>0. TypeOK /\ LineInv /\ OpenInv /\ SpoiltInv /\ SettingsInv
    BY DEF IInv, TextInv
  <1>1. UNCHANGED <<dialect, text>>
    BY TextStays
  <1>2. CASE ReadOutside \/ ReadBody
    <2>1. /\ pos \in Nat /\ pos >= 1 /\ pos <= Len(text) /\ line' = text[pos]
          /\ header' = header /\ Passed = pos - 1
          /\ Passed' = IF status' \in Words THEN pos - 1 ELSE pos
      BY <1>0, <1>2, ReadShape
    <2>2. PICK u \in Nat : u = pos - 1 /\ u + 1 = pos
      BY <2>1
    <2>3. PICK v : v = Passed'
      OBVIOUS
    <2>4. CASE status' \in Words
      BY <1>0, <1>1, <2>1, <2>2, <2>3, <2>4, SettingsKept
    <2>5. CASE status' \notin Words
      <3>1. CASE ReadOutside
        <4>1. ~chopped => text[u + 1].word \notin HeadWords
          BY <2>1, <2>2, <2>5, <3>1 DEF ReadOutside, HeadWords, Words
        <4>2. AtRisk = {} => ~chopped
          BY <1>0 DEF LineInv
        <4>3. AtRisk = {} => u + 1 \notin Outside("default") \cup Outside("delay")
          BY <4>1, <4>2 DEF Outside
        <4>4. QED
          BY <1>0, <1>1, <2>1, <2>2, <2>3, <2>5, <4>3, SettingsKept
      <3>2. CASE ReadBody
        <4>1. status = "IN" /\ u = Passed /\ u + 1 \in DOMAIN text
          BY <1>0, <2>1, <2>2, <3>2, LineNumbers DEF ReadBody
        <4>2. u + 1 \notin Outside("default") \cup Outside("delay")
          BY <1>0, <4>1, InsideGood
        <4>3. QED
          BY <1>0, <1>1, <2>1, <2>2, <2>3, <2>5, <4>2, SettingsKept
      <3>3. QED
        BY <1>2, <3>1, <3>2
    <2>6. QED
      BY <2>4, <2>5
  <1>3. CASE \/ NextTitle \/ EndInBody \/ EndOutside
             \/ Accept \/ AcceptLast \/ Reject \/ RejectLast
    <2>1. pos \in Nat /\ pos >= 1 /\ header' = header /\ Passed = pos - 1 /\ Passed' = pos - 1
      BY <1>0, <1>3, TurnShape
    <2>2. PICK u \in Nat : u = pos - 1
      BY <2>1
    <2>3. QED
      BY <1>0, <1>1, <2>1, <2>2, SettingsKept
  <1>4. CASE Title \/ BodyAction
    <2>1. /\ pos \in Nat /\ pos >= 2 /\ pos - 1 \in 1 .. Len(text)
          /\ text[pos - 1].word = status
          /\ Passed = pos - 2 /\ Passed' = pos - 1
      BY <1>0, <1>4, DirectiveShape
    <2>2. header' = header
      BY <1>4 DEF Title, BodyAction, Kernel, Other, Root, Initrd, Dtb, Module,
         Body, output
    <2>3. status \notin {"default", "delay"}
      BY <1>0, <1>4, EntryStays DEF Title, BodyWords
    <2>4. PICK u \in Nat, v \in Nat :
                       u = pos - 2 /\ u + 1 = pos - 1 /\ v = pos - 1
      BY <2>1
    <2>5. u + 1 \notin Outside("default") \cup Outside("delay")
      BY <2>1, <2>3, <2>4 DEF Outside
    <2>6. QED
      BY <1>0, <1>1, <2>1, <2>2, <2>4, <2>5, SettingsKept
  <1>5. CASE Default \/ Delay
    <2>1. /\ pos \in Nat /\ pos >= 2 /\ pos - 1 \in 1 .. Len(text)
          /\ line = text[pos - 1] /\ text[pos - 1].word = status
          /\ Passed = pos - 2 /\ Passed' = pos - 1
      BY <1>0, <1>5, DirectiveShape
    <2>2. PICK u \in Nat, v \in Nat :
                       u = pos - 2 /\ u + 1 = pos - 1 /\ v = u + 1
      BY <2>1
    <2>3. /\ u + 1 \in DOMAIN text /\ text[u + 1] = line
          /\ line.word = status /\ status \in {"default", "delay"}
      BY <1>0, <1>5, <2>1, <2>2, LineNumbers DEF Default, Delay, Setting
    <2>4. status \in HeadWords
      BY <1>0, <2>3 DEF TypeOK, BodyWords
    <2>5. AtRisk = {} => Spoilt(u)
      BY <1>0, <2>1, <2>2, <2>3 DEF SpoiltInv
    <2>6. AtRisk = {} => (u + 1 \in Outside(status) <=> line.arg # NoArg)
      BY <1>0, <2>3, <2>4, <2>5, OutsideSpoilt
    <2>7. \A w : w # status => u + 1 \notin Outside(w)
      BY <2>3 DEF Outside
    <2>8. CASE line.arg = NoArg
      <3>1. header' = header
        BY <1>5, <2>8 DEF Default, Delay, Setting
      <3>2. AtRisk = {} => u + 1 \notin Outside("default") \cup Outside("delay")
        BY <2>3, <2>6, <2>7, <2>8
      <3>3. QED
        BY <1>0, <1>1, <2>1, <2>2, <3>1, <3>2, SettingsKept
    <2>9. CASE line.arg # NoArg
      <3>1. PICK d1, d2 : d1 = Given("default", v) /\ d2 = Given("delay", v)
        OBVIOUS
      <3>2. /\ {j \in Outside("default") : j <= Passed}' = d1
            /\ {j \in Outside("delay") : j <= Passed}' = d2
        <4>1. Passed' = v
          BY <2>1, <2>2
        <4>2. QED
          BY <1>1, <3>1, <4>1, SameText DEF Given
      <3>3. /\ AtRisk' = AtRisk
            /\ LastNumber(d1, 0)' = LastNumber(d1, 0)
            /\ LastNumber(d2, 5)' = LastNumber(d2, 5)
        BY <1>1, SameText
      <3>4. /\ AtRisk = {} => Given(status, v) = Given(status, u) \cup {u + 1}
            /\ \A w : w # status => Given(w, v) = Given(w, u)
        BY <1>0, <2>2, <2>6, <2>7, <2>9, GivenMore
      <3>5. AtRisk = {} => \A o : LastNumber(Given(status, v), o) = Strtol[line.arg]
        <4>1. LastSaid(Given(status, u) \cup {u + 1}) = line.arg
          <5>1. \A j \in Given(status, u) : j \in Nat /\ j <= u
            BY <1>0, GivenMore
          <5>2. QED
            BY <2>3, <5>1, LastSaidMore
        <4>2. QED
          BY <3>4, <4>1 DEF LastNumber
      <3>6. AtRisk = {} => /\ header.default_os = LastNumber(Given("default", u), 0)
                           /\ header.delay = LastNumber(Given("delay", u), 5)
        <4>1. Passed = u
          BY <2>1, <2>2
        <4>2. QED
          BY <1>0, <4>1 DEF SettingsInv, Given
      <3>7. header \in [default_os : Int, delay : Int]
        BY <1>0, Types
      <3>8. CASE Default
        <4>1. /\ status = "default"
              /\ header'.default_os = Strtol[line.arg] /\ header'.delay = header.delay
          BY <2>9, <3>7, <3>8 DEF Default, Setting
        <4>2. AtRisk = {} => /\ header'.default_os = LastNumber(d1, 0)
                             /\ header'.delay = LastNumber(d2, 5)
          BY <3>1, <3>4, <3>5, <3>6, <4>1
        <4>3. QED
          BY <3>2, <3>3, <4>2 DEF SettingsInv
      <3>9. CASE Delay
        <4>1. /\ status = "delay"
              /\ header'.delay = Strtol[line.arg]
              /\ header'.default_os = header.default_os
          BY <2>9, <3>7, <3>9 DEF Delay, Setting
        <4>2. AtRisk = {} => /\ header'.default_os = LastNumber(d1, 0)
                             /\ header'.delay = LastNumber(d2, 5)
          BY <3>1, <3>4, <3>5, <3>6, <4>1
        <4>3. QED
          BY <3>2, <3>3, <4>2 DEF SettingsInv
      <3>10. QED
        BY <1>5, <3>8, <3>9
    <2>10. QED
      BY <2>8, <2>9
  <1>6. CASE UNCHANGED vars
    <2>1. UNCHANGED <<pos, status, header>>
      BY <1>6 DEF vars
    <2>2. Passed' = Passed
      BY <2>1 DEF Passed
    <2>3. PICK u \in Nat : u = Passed
      BY <1>0, LineNumbers DEF Passed, LineInv
    <2>4. QED
      BY <1>0, <1>1, <2>1, <2>2, <2>3, SettingsKept
  <1>7. QED
    BY <1>2, <1>3, <1>4, <1>5, <1>6 DEF Next, BodyAction

-----------------------------------------------------------------------------

\* Nothing is read and nothing linked at first.
LEMMA InitTextInv == Init => TextInv
  <1> SUFFICES ASSUME Init PROVE TextInv
    OBVIOUS
  <1>0. /\ TypeOK /\ status = "S" /\ pos = 1 /\ chopped = FALSE /\ menu = <<>>
        /\ header = [default_os |-> 0, delay |-> 5]
    BY InitIInv DEF Init, IInv
  <1>1. Passed = 0 /\ \A t \in Titles : t \in Nat /\ ~(t <= 0)
    BY <1>0, LineNumbers DEF Passed, Words
  <1>2. LineInv /\ OpenInv /\ RejectInv
    BY <1>0 DEF LineInv, OpenInv, RejectInv, Words, BodyWords
  <1>3. TitlesInv /\ SpoiltInv
    BY <1>1 DEF TitlesInv, SpoiltInv, Spoilt, Starts
  <1>4. MenuInv
    BY <1>0 DEF MenuInv
  <1>5. SettingsInv
    <2>1. \A w : {j \in Outside(w) : j <= 0} = {}
      BY <1>0, LineNumbers DEF Outside
    <2>2. \A o : LastNumber({}, o) = o
      BY DEF LastNumber
    <2>3. QED
      BY <1>0, <1>1, <2>1, <2>2 DEF SettingsInv
  <1>6. QED
    BY <1>2, <1>3, <1>4, <1>5 DEF TextInv

\* The reader follows the blocks of the text in every reachable state.
LEMMA TextInductive == Spec => [](IInv /\ TextInv)
  <1>1. Init => IInv /\ TextInv
    BY InitIInv, InitTextInv
  <1>2. IInv /\ TextInv /\ [Next]_vars => (IInv /\ TextInv)'
    <2> SUFFICES ASSUME IInv, TextInv, [Next]_vars
                 PROVE  IInv' /\ TextInv'
      OBVIOUS
    <2>1. IInv'
      BY NextIInv
    <2>2. LineInv' /\ OpenInv' /\ RejectInv'
      BY LineStep, OpenStep, RejectStep
    <2>3. TitlesInv' /\ MenuInv' /\ SpoiltInv' /\ SettingsInv'
      BY TitlesStep, MenuStep, SpoiltStep, SettingsStep
    <2>4. QED
      BY <2>1, <2>2, <2>3 DEF TextInv
  <1>3. QED
    BY <1>1, <1>2, PTL DEF Spec

\* Every entry in the list is a bootable block of the text, field by field,
\* and the list is in the order of the text, for every text and in both
\* dialects: no case of the switch leaks a field from one entry to the next.
THEOREM MenuHoldsBlocks == Spec => []MenuIsBlocks
  <1>1. IInv /\ TextInv => MenuIsBlocks
    <2> SUFFICES ASSUME IInv, TextInv PROVE MenuIsBlocks
      OBVIOUS
    <2>1. TypeOK /\ OrderInv /\ MenuInv
      BY DEF IInv, TextInv
    <2>2. \A k \in DOMAIN menu : k > 1 => k - 1 \in DOMAIN menu /\ k - 1 < k
      BY <2>1, Types
    <2>3. \A k \in DOMAIN menu : k > 1 => menu[k - 1].at < menu[k].at
      BY <2>1, <2>2 DEF OrderInv
    <2>4. QED
      BY <2>1, <2>3 DEF MenuInv, MenuIsBlocks
  <1>2. QED
    BY <1>1, TextInductive, PTL

\* When the reader returns every bootable block was linked, whatever lay
\* before it, unless its title was pushed back with something cut off it.
THEOREM BlocksAreLinked == Spec => []NothingLost
  <1>1. IInv /\ TextInv => NothingLost
    <2> SUFFICES ASSUME IInv, TextInv, status = "done", NEW i \in Bootable
                 PROVE  i \in Linked \cup AtRisk
      BY DEF NothingLost
    <2>1. TypeOK /\ LineInv /\ TitlesInv
      BY DEF IInv, TextInv
    <2>2. Passed = pos - 1 /\ status \notin InEntry
      BY DEF Passed, Words, InEntry, BodyWords
    <2>3. i \in Titles
      BY DEF Bootable
    <2>4. i <= Passed
      BY <2>1, <2>2, <2>3, LineNumbers DEF LineInv
    <2>5. QED
      BY <2>1, <2>2, <2>3, <2>4 DEF TitlesInv
  <1>2. QED
    BY <1>1, TextInductive, PTL

\* The header holds the last default and delay given outside the blocks that
\* are still good there: a setting after a title drops the entry instead.
THEOREM SettingsAreOutside == Spec => []SettingsOutsideBlocks
  <1>1. IInv /\ TextInv => SettingsOutsideBlocks
    <2> SUFFICES ASSUME IInv, TextInv, status = "done", AtRisk = {}
                 PROVE  /\ header.default_os = LastNumber(Outside("default"), 0)
                        /\ header.delay = LastNumber(Outside("delay"), 5)
      BY DEF SettingsOutsideBlocks
    <2>1. TypeOK /\ LineInv /\ SettingsInv
      BY DEF IInv, TextInv
    <2>2. Passed = pos - 1
      BY DEF Passed, Words
    <2>3. \A w : {j \in Outside(w) : j <= Passed} = Outside(w)
      BY <2>1, <2>2, LineNumbers DEF LineInv, Outside
    <2>4. QED
      BY <2>1, <2>3 DEF SettingsInv
  <1>2. QED
    BY <1>1, TextInductive, PTL


-----------------------------------------------------------------------------
(* The safety half of Returns: a measure of the turns a reader has left.   *)

\* What the state still asks for before the next line is read.
Depth ==
  CASE status = "done"                      -> 0
    [] status = "S"                         -> 1
    [] status \in {"A", "R", "AQ", "RQ"}    -> 2
    [] status = "IN"                        -> 3
    [] OTHER                                -> 4

\* An upper bound of the turns left: four for every line not yet read.
Left == 4 * ((Len(text) + 1) - pos) + Depth

\* Every turn of the loop brings Left down, whatever the text says and
\* however often a title is pushed back: after at most four turns a line and
\* one more fsm() and kick_fsm() have returned.
THEOREM ReadersAreShort ==
  Spec => [](Left \in Nat) /\ [][Left' < Left]_vars
  <1>0. ASSUME TypeOK
        PROVE  Len(text) \in Nat /\ pos \in 1 .. (Len(text) + 1) /\ Depth \in 0 .. 4
    BY <1>0, Types DEF Depth
  <1>1. ASSUME NEW l \in Nat, NEW p \in 1 .. (l + 1), NEW d \in 0 .. 4
        PROVE  4 * ((l + 1) - p) + d \in Nat
    OBVIOUS
  <1>2. IInv => Left \in Nat
    BY <1>0, <1>1 DEF Left, IInv
  <1>3. ASSUME IInv, Next PROVE Left' < Left
    <2>1. PICK l \in Nat, p \in Nat : l = Len(text) /\ p = pos /\ p \in 1 .. (l + 1)
      BY <1>0, <1>3 DEF IInv
    <2>2. Left = 4 * ((l + 1) - p) + Depth /\ text' = text
      BY <1>3, <2>1
      DEF Left, Next, ReadOutside, EndOutside, ReadBody, NextTitle, EndInBody,
          Read, PushBack, input, Title, Default, Delay, Setting, Kernel, Other,
          Root, Initrd, Dtb, Module, Body, Accept, Reject, AcceptLast,
          RejectLast
    <2>3. Left' = 4 * ((l + 1) - pos') + Depth'
      BY <2>1, <2>2 DEF Left
    <2>4. CASE ReadOutside \/ ReadBody
      <3>1. pos' = p + 1 /\ status \in {"S", "IN"}
        BY <2>1, <2>4 DEF ReadOutside, ReadBody, Read
      <3>2. Depth \in {1, 3} /\ Depth' \in 0 .. 4
        BY <3>1 DEF Depth
      <3>3. QED
        BY ONLY <2>1, <2>2, <2>3, <3>1, <3>2
    <2>5. CASE EndOutside \/ Accept \/ Reject \/ AcceptLast \/ RejectLast
               \/ NextTitle \/ EndInBody \/ Title \/ Default \/ Delay
               \/ Kernel \/ Other \/ Root \/ Initrd \/ Dtb \/ Module
      <3>1. pos' = p
        BY <2>1, <2>5
        DEF EndOutside, NextTitle, EndInBody, PushBack, input, Title, Default,
            Delay, Setting, Kernel, Other, Root, Initrd, Dtb, Module, Body,
            Accept, Reject, AcceptLast, RejectLast
      <3>2. \/ status = "S" /\ status' = "done"
            \/ /\ status \in {"A", "R", "AQ", "RQ"}
               /\ status' \in {"S", "done"}
            \/ status = "IN" /\ status' \in {"A", "R", "AQ", "RQ"}
            \/ /\ status \in {"title", "default", "delay", "kernel", "other",
                              "root", "initrd", "dtb", "module"}
               /\ status' \in {"S", "IN", "R"}
        BY <2>5
        DEF EndOutside, NextTitle, EndInBody, Title, Default, Delay, Setting,
            Kernel, Other, Root, Initrd, Dtb, Module, Body, Accept, Reject,
            AcceptLast, RejectLast
      <3>3. Depth \in 0 .. 4 /\ Depth' \in 0 .. 4 /\ Depth' < Depth
        BY <3>2 DEF Depth
      <3>4. QED
        BY ONLY <2>1, <2>2, <2>3, <3>1, <3>3
    <2>6. QED
      BY <1>3, <2>4, <2>5 DEF Next
  <1>4. IInv /\ [Next]_vars => [Left' < Left]_vars
    BY <1>3
  <1>5. QED
    BY <1>2, <1>4, Inductive, PTL DEF Spec
=============================================================================
