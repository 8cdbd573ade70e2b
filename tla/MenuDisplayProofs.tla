------------------------- MODULE MenuDisplayProofs -------------------------
(***************************************************************************)
(* Theorems about MenuDisplay, for every window height, menu length,       *)
(* default entry, delay and set of keys.                                   *)
(***************************************************************************)
EXTENDS MenuDisplay, TLAPS

\* The last value `first' may take: the one that shows the last page.
LastPage == IF entries > Rows THEN entries - Rows ELSE 0

\* `last' is the initial value or the last row drawn, and the window stays
\* on the list.
WindowInv ==
  /\ first <= LastPage
  /\ \/ first = 0 /\ last = Rows - 1
     \/ last = first + Drawn(first) - 1
  /\ (console = "vga" /\ pc = "start") => first = 0 /\ last = Rows - 1

\* The screen menu's selection, for a default entry that is not negative:
\* what display() returned is the selection or nothing.
SelectionInv ==
  (console = "vga" /\ pc # "start" /\ default_os >= 0) =>
    /\ entries > 0 => selected >= 0 /\ first >= 0
    /\ entries = 0 => selected = NoEntry
    /\ pc \in {"countdown", "key"} => entry \in {selected, NoEntry}

\* One call of display() is enough to bring the selection into the window,
\* and after it the selection is highlighted.
VisibleInv ==
  (/\ console = "vga" /\ entries > 0 /\ default_os \in 0 .. Rows) =>
    /\ pc \in {"countdown", "key"} =>
         first <= selected /\ selected <= last /\ entry = selected
    /\ pc = "draw" => first - 1 <= selected /\ selected <= last + 1

\* The countdown of either console holds the default selection, and on the
\* serial line only that console's states occur.
CountdownInv ==
  /\ pc = "countdown" => selected = DefaultSelection
  /\ pc = "getc" => console = "serial"
  /\ pc \in {"draw", "key"} => console = "vga"
  /\ pc = "getc" => key # NoKey
  /\ pc # "done" => result = NoEntry
  /\ pc = "start" => selected = NoEntry

IInv == TypeOK /\ WindowInv /\ SelectionInv /\ VisibleInv /\ CountdownInv

-----------------------------------------------------------------------------

\* Init establishes the inductive invariant.
LEMMA InitIInv == Init => IInv
  <1> SUFFICES ASSUME Init PROVE IInv
    OBVIOUS
  <1> USE RowsAssumption, MenuAssumption, DelayAssumption, ConsoleAssumption
      DEF Init, NoEntry, NoKey
  <1>1. TypeOK
    BY DEF TypeOK, LastIndex
  <1>2. WindowInv
    BY DEF WindowInv, LastPage
  <1>3. SelectionInv /\ VisibleInv /\ CountdownInv
    BY DEF SelectionInv, VisibleInv, CountdownInv
  <1>4. QED
    BY <1>1, <1>2, <1>3 DEF IInv

\* What one call of display() does to the window when the selection is at
\* most the last entry: it stays on the list, and a selection at most one
\* row outside the window ends up highlighted.
LEMMA DisplayStep ==
  ASSUME NEW sel \in Int, sel <= LastIndex, entries \in Nat,
         first \in Int, last \in Int, WindowInv, Display(sel)
  PROVE  /\ first' \in Int /\ last' \in Int
         /\ first' <= LastPage
         /\ last' = first' + Drawn(first') - 1
         /\ entry' \in -1 .. LastIndex
         /\ (sel >= 0 /\ first >= 0) =>
              first' >= 0 /\ entry' \in {sel, NoEntry}
         /\ (/\ sel >= 0 /\ first >= 0
             /\ first - 1 <= sel /\ sel <= last + 1) =>
              first' <= sel /\ sel <= last' /\ entry' = sel
         /\ (sel = NoEntry /\ entries = 0) => entry' = NoEntry
  <1> USE RowsAssumption
      DEF Display, Scrolled, Drawn, Skipped, Highlighted, NoEntry, LastIndex
  <1>1. first' \in Int /\ first' <= LastPage
    BY DEF WindowInv, LastPage
  <1>2. /\ last' \in Int /\ last' = first' + Drawn(first') - 1
        /\ entry' \in -1 .. LastIndex
    BY <1>1 DEF LastPage
  <1>3. (sel >= 0 /\ first >= 0) =>
              first' >= 0 /\ entry' \in {sel, NoEntry}
    BY <1>1, <1>2 DEF LastPage
  <1>4. ASSUME sel >= 0, first >= 0, first - 1 <= sel, sel <= last + 1
        PROVE  first' <= sel /\ sel <= last' /\ entry' = sel
    BY <1>1, <1>2, <1>3, <1>4 DEF LastPage, WindowInv
  <1>5. (sel = NoEntry /\ entries = 0) => entry' = NoEntry
    BY <1>1, <1>2
  <1>6. QED
    BY <1>1, <1>2, <1>3, <1>4, <1>5

-----------------------------------------------------------------------------

\* The rewriting of the primed state functions when the configuration stays.
LEMMA SameConfig ==
  ASSUME UNCHANGED config
  PROVE  /\ LastIndex' = LastIndex /\ LastPage' = LastPage
         /\ DefaultSelection' = DefaultSelection
         /\ UNCHANGED <<console, entries, default_os, seconds>>
  BY DEF config, LastIndex, LastPage, DefaultSelection

\* A step that keeps the window and the configuration keeps WindowInv.
LEMMA SameWindow ==
  ASSUME WindowInv, UNCHANGED config, UNCHANGED window,
         pc' # "start"
  PROVE  WindowInv'
  BY DEF WindowInv, config, window, LastPage, Drawn, Skipped

\* A step that draws keeps the window on the list.
LEMMA DrawnWindow ==
  ASSUME UNCHANGED config, pc' # "start",
         first' <= LastPage, last' = first' + Drawn(first') - 1
  PROVE  WindowInv'
  BY DEF WindowInv, config, LastPage, Drawn, Skipped

\* Starting the screen menu.
LEMMA VgaStartInv == IInv /\ VgaStart => IInv'
  <1> SUFFICES ASSUME IInv, VgaStart PROVE IInv'
    OBVIOUS
  <1> USE RowsAssumption, MenuAssumption, DelayAssumption, ConsoleAssumption
      DEF NoEntry, NoKey
  <1>0. /\ TypeOK /\ WindowInv /\ CountdownInv /\ UNCHANGED config
        /\ entries \in Nat /\ default_os \in Int /\ seconds \in Int
        /\ first = 0 /\ last = Rows - 1
    BY DEF IInv, TypeOK, VgaStart, WindowInv
  <1>1. /\ DefaultSelection \in Int /\ DefaultSelection <= LastIndex
        /\ default_os >= 0 => IF entries > 0 THEN DefaultSelection >= 0
                              ELSE DefaultSelection = NoEntry
        /\ default_os \in 0 .. Rows => DefaultSelection <= Rows
    BY <1>0 DEF DefaultSelection, LastIndex
  <1>2. /\ selected' = DefaultSelection /\ delay' \in Int
        /\ key' = key /\ result' = result /\ console = "vga"
        /\ pc = "start"
    BY <1>0 DEF VgaStart
  <1>3. CASE pc' = "draw" /\ UNCHANGED window
    <2>1. TypeOK'
      BY <1>0, <1>1, <1>2, <1>3, SameConfig DEF TypeOK, window
    <2>2. WindowInv'
      BY <1>0, <1>3, SameWindow
    <2>3. UNCHANGED <<console, entries, default_os>>
      BY <1>0, SameConfig
    <2>4. SelectionInv'
      BY <1>0, <1>1, <1>2, <1>3, <2>3 DEF SelectionInv, window
    <2>5. VisibleInv'
      BY <1>0, <1>1, <1>2, <1>3, <2>3 DEF VisibleInv, window
    <2>6. CountdownInv'
      BY <1>0, <1>2, <1>3, <2>3 DEF CountdownInv
    <2>7. QED
      BY <2>1, <2>2, <2>4, <2>5, <2>6 DEF IInv
  <1>4. CASE pc' = "countdown" /\ Display(DefaultSelection)
    <2>1. /\ first' \in Int /\ last' \in Int
          /\ first' <= LastPage
          /\ last' = first' + Drawn(first') - 1
          /\ entry' \in -1 .. LastIndex
          /\ DefaultSelection >= 0 =>
               first' >= 0 /\ entry' \in {DefaultSelection, NoEntry}
          /\ (DefaultSelection >= 0 /\ DefaultSelection <= Rows) =>
               /\ first' <= DefaultSelection /\ DefaultSelection <= last'
               /\ entry' = DefaultSelection
          /\ (DefaultSelection = NoEntry /\ entries = 0) => entry' = NoEntry
      <3> HIDE DEF NoEntry
      <3>1. first \in Int /\ last \in Int /\ first >= 0
        BY <1>0
      <3>2. DefaultSelection \in Int => (DefaultSelection >= 0 /\ DefaultSelection <= Rows =>
               first - 1 <= DefaultSelection /\ DefaultSelection <= last + 1)
        BY <1>0
      <3>3. QED
        BY <1>0, <1>1, <1>4, <3>1, <3>2, DisplayStep
    <2>2. TypeOK'
      BY <1>0, <1>1, <1>2, <1>4, <2>1, SameConfig DEF TypeOK
    <2>3. WindowInv'
      BY <1>0, <1>4, <2>1, DrawnWindow
    <2>4. SelectionInv' /\ VisibleInv' /\ CountdownInv'
      BY <1>0, <1>1, <1>2, <1>4, <2>1, SameConfig
      DEF SelectionInv, VisibleInv, CountdownInv
    <2>5. QED
      BY <2>2, <2>3, <2>4 DEF IInv
  <1>5. QED
    BY <1>2, <1>3, <1>4 DEF VgaStart

\* Redrawing the screen menu after a key.
LEMMA DrawInv == IInv /\ Draw => IInv'
  <1> SUFFICES ASSUME IInv, Draw PROVE IInv'
    OBVIOUS
  <1> USE RowsAssumption, MenuAssumption, ConsoleAssumption DEF NoEntry, NoKey
  <1>0. /\ TypeOK /\ WindowInv /\ SelectionInv /\ VisibleInv /\ CountdownInv
        /\ UNCHANGED config /\ pc = "draw" /\ console = "vga"
        /\ entries \in Nat /\ default_os \in Int
        /\ first \in Int /\ last \in Int
        /\ selected \in Int /\ selected <= LastIndex
    BY DEF IInv, TypeOK, Draw, CountdownInv
  <1>1. /\ pc' = "key" /\ Display(selected)
        /\ UNCHANGED <<key, selected, delay, result>>
    BY DEF Draw
  <1>2. /\ first' \in Int /\ last' \in Int
        /\ first' <= LastPage
        /\ last' = first' + Drawn(first') - 1
        /\ entry' \in -1 .. LastIndex
        /\ (selected >= 0 /\ first >= 0) =>
             first' >= 0 /\ entry' \in {selected, NoEntry}
        /\ (/\ selected >= 0 /\ first >= 0
            /\ first - 1 <= selected /\ selected <= last + 1) =>
             first' <= selected /\ selected <= last' /\ entry' = selected
        /\ (selected = NoEntry /\ entries = 0) => entry' = NoEntry
    <2> HIDE DEF NoEntry
    <2>1. QED
      BY <1>0, <1>1, DisplayStep
  <1>3. TypeOK'
    BY <1>0, <1>1, <1>2, SameConfig DEF TypeOK
  <1>4. WindowInv'
    BY <1>0, <1>1, <1>2, DrawnWindow
  <1>5. SelectionInv' /\ VisibleInv' /\ CountdownInv'
    BY <1>0, <1>1, <1>2, SameConfig DEF SelectionInv, VisibleInv, CountdownInv
  <1>6. QED
    BY <1>3, <1>4, <1>5 DEF IInv

\* A key of the screen menu moves the selection by at most one row inside
\* the list, so that the next drawing is again at most one row away.
LEMMA ReadKeyInv == IInv /\ ReadKey => IInv'
  <1> SUFFICES ASSUME IInv, ReadKey PROVE IInv'
    OBVIOUS
  <1> USE RowsAssumption, MenuAssumption, ConsoleAssumption DEF NoEntry, NoKey
  <1>0. /\ TypeOK /\ WindowInv /\ SelectionInv /\ VisibleInv /\ CountdownInv
        /\ UNCHANGED config /\ pc = "key" /\ console = "vga"
        /\ entries \in Nat /\ default_os \in Int
        /\ selected \in Int /\ selected <= LastIndex
        /\ UNCHANGED window /\ delay' = delay /\ key' = NoKey
    BY DEF IInv, TypeOK, ReadKey, CountdownInv
  <1>1. /\ \/ selected' = selected
           \/ selected > 0 /\ selected' = selected - 1
           \/ selected < LastIndex /\ selected' = selected + 1
        /\ \/ pc' = "done" /\ result' \in {NoEntry, entry}
           \/ pc' = "draw" /\ result' = result
    BY DEF ReadKey, Return
  <1>2. UNCHANGED <<console, entries, default_os>> /\ LastIndex' = LastIndex
    BY <1>0, SameConfig
  <1>3. TypeOK'
    BY <1>0, <1>1, <1>2 DEF TypeOK, LastIndex, config, window
  <1>4. WindowInv'
    BY <1>0, <1>1, SameWindow
  <1>5. SelectionInv'
    BY <1>0, <1>1, <1>2 DEF SelectionInv, window, LastIndex
  <1>6. VisibleInv'
    BY <1>0, <1>1, <1>2 DEF VisibleInv, window, TypeOK
  <1>7. CountdownInv'
    BY <1>0, <1>1, <1>2 DEF CountdownInv
  <1>8. QED
    BY <1>3, <1>4, <1>5, <1>6, <1>7 DEF IInv

\* The steps that neither draw nor move the selection of the screen menu.
LEMMA QuietInv ==
  IInv /\ (Tick \/ Interrupt \/ VgaExpire \/ SerialExpire \/ PressKey) => IInv'
  <1> SUFFICES ASSUME IInv,
                      Tick \/ Interrupt \/ VgaExpire \/ SerialExpire \/ PressKey
               PROVE  IInv'
    OBVIOUS
  <1> USE RowsAssumption, MenuAssumption, DelayAssumption, ConsoleAssumption,
          KeyAssumption
      DEF NoEntry, NoKey
  <1>0. /\ TypeOK /\ WindowInv /\ SelectionInv /\ VisibleInv /\ CountdownInv
        /\ entries \in Nat
    BY DEF IInv, TypeOK
  <1>1. /\ UNCHANGED config /\ UNCHANGED window /\ selected' = selected
        /\ key' \in {key} \cup Keys /\ (key # NoKey => key' = key)
        /\ delay' \in Int
        /\ \/ pc' = pc /\ result' = result
           \/ /\ pc = "countdown" /\ key # NoKey /\ result' = result
              /\ pc' = IF console = "vga" THEN "draw" ELSE "getc"
           \/ pc = "countdown" /\ pc' = "done" /\ result' \in -1 .. LastIndex
        /\ pc' # "start" \/ pc' = pc
    BY <1>0 DEF TypeOK, Tick, Interrupt, VgaExpire, SerialExpire, PressKey,
       Return, EntryAt, LastIndex
  <1>2. /\ UNCHANGED <<console, entries, default_os, seconds, first, last, entry>>
        /\ LastIndex' = LastIndex /\ DefaultSelection' = DefaultSelection
    BY <1>1, SameConfig DEF window
  <1>3. TypeOK'
    <2>1. key' \in Keys \cup {NoKey}
      BY <1>0, <1>1 DEF TypeOK
    <2>2. pc' \in {"start", "countdown", "draw", "key", "getc", "done"}
      BY <1>0, <1>1 DEF TypeOK
    <2>3. result' \in -1 .. LastIndex
      BY <1>0, <1>1 DEF TypeOK
    <2>4. QED
      BY <1>0, <1>1, <1>2, <2>1, <2>2, <2>3 DEF TypeOK
  <1>4. WindowInv'
    BY <1>0, <1>1, <1>2, SameConfig DEF WindowInv, Drawn, Skipped
  <1>5. SelectionInv'
    BY <1>0, <1>1, <1>2 DEF SelectionInv
  <1>6. VisibleInv'
    BY <1>0, <1>1, <1>2 DEF VisibleInv, TypeOK
  <1>7. CountdownInv'
    <2>1. CASE pc' = pc /\ result' = result
      BY <1>0, <1>1, <1>2, <2>1 DEF CountdownInv
    <2>2. CASE /\ pc = "countdown" /\ key # NoKey /\ result' = result
               /\ pc' = IF console = "vga" THEN "draw" ELSE "getc"
      <3>1. console \in {"vga", "serial"}
        BY <1>0 DEF TypeOK
      <3>2. CASE console = "vga"
        BY <1>0, <1>1, <1>2, <2>2, <3>2 DEF CountdownInv
      <3>3. CASE console = "serial"
        BY <1>0, <1>1, <1>2, <2>2, <3>3 DEF CountdownInv
      <3>4. QED
        BY <3>1, <3>2, <3>3
    <2>3. CASE pc' = "done"
      BY <2>3 DEF CountdownInv
    <2>4. QED
      BY <1>1, <2>1, <2>2, <2>3
  <1>8. QED
    BY <1>3, <1>4, <1>5, <1>6, <1>7 DEF IInv

\* The steps of the serial menu that change the selection.
LEMMA SerialInv == IInv /\ (SerialStart \/ SerialKey) => IInv'
  <1> SUFFICES ASSUME IInv, SerialStart \/ SerialKey PROVE IInv'
    OBVIOUS
  <1> USE RowsAssumption, MenuAssumption, DelayAssumption, ConsoleAssumption,
          KeyAssumption
      DEF NoEntry, NoKey
  <1>0. /\ TypeOK /\ WindowInv /\ SelectionInv /\ VisibleInv /\ CountdownInv
        /\ entries \in Nat /\ default_os \in Int /\ seconds \in Int
    BY DEF IInv, TypeOK
  <1>1. /\ UNCHANGED config /\ UNCHANGED window /\ console = "serial"
        /\ selected' \in Int /\ delay' \in Int /\ key' \in {key, NoKey}
        /\ \/ /\ pc = "start" /\ pc' = "countdown" /\ result' = result
              /\ selected' = DefaultSelection
           \/ pc' = "done" /\ result' \in -1 .. LastIndex
    BY <1>0 DEF SerialStart, SerialKey, TypeOK, CountdownInv, Return, EntryAt,
       LastIndex, DefaultSelection
  <1>2. /\ UNCHANGED <<console, entries, default_os, seconds, first, last, entry>>
        /\ LastIndex' = LastIndex /\ DefaultSelection' = DefaultSelection
    BY <1>1, SameConfig DEF window
  <1>3. TypeOK'
    BY <1>0, <1>1, <1>2 DEF TypeOK
  <1>4. WindowInv'
    BY <1>0, <1>1, SameWindow
  <1>5. SelectionInv' /\ VisibleInv'
    BY <1>1, <1>2 DEF SelectionInv, VisibleInv
  <1>6. CountdownInv'
    BY <1>0, <1>1, <1>2 DEF CountdownInv
  <1>7. QED
    BY <1>3, <1>4, <1>5, <1>6 DEF IInv

-----------------------------------------------------------------------------

\* The invariant is inductive.
LEMMA NextIInv == IInv /\ [Next]_vars => IInv'
  <1> SUFFICES ASSUME IInv, [Next]_vars PROVE IInv'
    OBVIOUS
  <1>1. CASE VgaStart
    BY <1>1, VgaStartInv
  <1>2. CASE Draw
    BY <1>2, DrawInv
  <1>3. CASE ReadKey
    BY <1>3, ReadKeyInv
  <1>4. CASE Tick \/ Interrupt \/ VgaExpire \/ SerialExpire \/ PressKey
    BY <1>4, QuietInv
  <1>5. CASE SerialStart \/ SerialKey
    BY <1>5, SerialInv
  <1>6. CASE UNCHANGED vars
    BY <1>6 DEF vars, config, window, IInv, TypeOK, WindowInv, SelectionInv,
       VisibleInv, CountdownInv, LastIndex, LastPage, Drawn, Skipped,
       DefaultSelection
  <1>7. QED
    BY <1>1, <1>2, <1>3, <1>4, <1>5, <1>6 DEF Next, Program

\* Every reachable state satisfies the inductive invariant.
LEMMA Inductive == Spec => []IInv
  <1>1. QED
    BY InitIInv, NextIInv, PTL DEF Spec

\* Type correctness: among others, what menu_display() returns is an entry of
\* the list or NULL, and the screen menu's selection never passes the end.
THEOREM TypeCorrect == Spec => []TypeOK
  <1>1. IInv => TypeOK
    BY DEF IInv
  <1>2. QED
    BY <1>1, Inductive, PTL

\* display() never scrolls past the last page, for any window height, list
\* length and default entry: the list walk of its first loop has the nodes
\* it skips.
THEOREM WindowStaysOnPage == Spec => []WindowOnPage
  <1>1. IInv => WindowOnPage
    BY DEF IInv, WindowInv, WindowOnPage, LastPage
  <1>2. QED
    BY <1>1, Inductive, PTL

\* The selected entry of the screen menu is the highlighted one, for every
\* default entry up to one row below the first page.
THEOREM SelectionIsVisible == Spec => []SelectionVisible
  <1>1. IInv => SelectionVisible
    <2> SUFFICES ASSUME IInv, console = "vga", pc \in {"countdown", "key"},
                        default_os \in 0 .. Rows
                 PROVE  entry = selected
      BY DEF SelectionVisible
    <2>1. entries \in Nat
      BY MenuAssumption DEF IInv, TypeOK
    <2>2. CASE entries > 0
      BY <2>2 DEF IInv, VisibleInv
    <2>3. CASE entries = 0
      BY <2>3, RowsAssumption
      DEF IInv, SelectionInv, TypeOK, LastIndex, NoEntry
    <2>4. QED
      BY <2>1, <2>2, <2>3
  <1>2. QED
    BY <1>1, Inductive, PTL

\* A countdown that runs out boots the default entry on both consoles, when
\* no menu file puts the default more than one row below the first page.
THEOREM CountdownBootsDefault ==
  ASSUME \A d \in Defaults : d <= Rows
  PROVE  Spec => TimeoutBootsDefault
  <1>1. IInv /\ [Next]_vars
          => [(pc = "countdown" /\ pc' = "done" /\ default_os >= 0)
                => result' = DefaultSelection]_vars
    <2> SUFFICES ASSUME IInv, Next, pc = "countdown", pc' = "done",
                        default_os >= 0
                 PROVE  result' = DefaultSelection
      BY DEF vars
    <2>0. /\ TypeOK /\ SelectionInv /\ VisibleInv /\ CountdownInv
          /\ entries \in Nat /\ default_os \in 0 .. Rows
          /\ selected = DefaultSelection
      BY RowsAssumption, MenuAssumption DEF IInv, TypeOK, CountdownInv
    <2>1. VgaExpire \/ SerialExpire
      BY DEF Next, Program, VgaStart, Tick, Interrupt, Draw, ReadKey,
         SerialStart, SerialKey, PressKey
    <2>2. CASE VgaExpire
      <3>1. console = "vga" /\ result' = entry
        BY <2>2 DEF VgaExpire, Return
      <3>2. CASE entries > 0
        BY <2>0, <3>1, <3>2 DEF VisibleInv
      <3>3. CASE entries = 0
        BY <2>0, <3>1, <3>3 DEF SelectionInv, TypeOK, LastIndex, NoEntry
      <3>4. QED
        BY <2>0, <3>2, <3>3
    <2>3. CASE SerialExpire
      BY <2>0, <2>3
      DEF SerialExpire, Return, EntryAt, DefaultSelection, LastIndex, NoEntry
    <2>4. QED
      BY <2>1, <2>2, <2>3
  <1>2. QED
    BY <1>1, Inductive, PTL DEF Spec, TimeoutBootsDefault

-----------------------------------------------------------------------------
(* The screen menu implements its abstract specification.                  *)

\* A step of the screen menu is a step of the cursor or leaves it alone.
LEMMA StepOnScreen ==
  ASSUME IInv, [Next]_vars, OnScreen, OnScreen'
  PROVE  Cursor!Next \/ UNCHANGED Cursor!vars
  <1> USE DEF NoEntry
  <1>a. console = "vga" /\ default_os >= 0
    BY DEF OnScreen
  <1>0. /\ TypeOK /\ SelectionInv /\ CountdownInv
        /\ entries \in Nat /\ default_os \in Nat /\ console = "vga"
        /\ selected \in Int /\ entry \in -1 .. LastIndex
    BY <1>a, MenuAssumption DEF IInv, TypeOK
  <1>1. CASE VgaStart
    <2>1. Cursor!Open
      <3>1. /\ UNCHANGED <<entries, default_os, result>> /\ pc = "start"
            /\ pc' \in {"countdown", "draw"}
            /\ selected' = DefaultSelection
        BY <1>1 DEF VgaStart, config
      <3>2. QED
        BY <1>0, <3>1 DEF Cursor!Open, DefaultSelection, LastIndex
    <2>2. QED
      BY <2>1 DEF Cursor!Next
  <1>2. CASE VgaExpire
    <2>1. /\ UNCHANGED <<entries, default_os, selected>> /\ pc = "countdown"
          /\ pc' = "done" /\ result' = entry
      BY <1>2 DEF VgaExpire, Return, config
    <2>2. entry \in {selected, NoEntry}
      BY <1>0, <1>a, <2>1 DEF SelectionInv
    <2>3. Cursor!Accept \/ Cursor!Leave
      BY <2>1, <2>2 DEF Cursor!Accept, Cursor!Leave
    <2>4. QED
      BY <2>3 DEF Cursor!Next
  <1>3. CASE ReadKey
    <2>1. /\ UNCHANGED <<entries, default_os>> /\ pc = "key"
      BY <1>3 DEF ReadKey, config
    <2>2. /\ entry \in {selected, NoEntry}
          /\ entries > 0 => selected >= 0
          /\ entries = 0 => selected = NoEntry
      BY <1>0, <1>a, <2>1 DEF SelectionInv
    <2>3. \/ /\ pc' = "done" /\ result' \in {entry, NoEntry}
             /\ selected' = selected
          \/ pc' = "draw" /\ result' = result /\ selected' = selected
          \/ /\ pc' = "draw" /\ result' = result
             /\ \/ selected > 0 /\ selected' = selected - 1
                \/ selected < LastIndex /\ selected' = selected + 1
      BY <1>3 DEF ReadKey, Return, KeyUp, KeyDown, KeyLeave, KeysAccept
    <2>4. CASE pc' = "done"
      <3>1. Cursor!Accept \/ Cursor!Leave
        BY <2>1, <2>2, <2>3, <2>4 DEF Cursor!Accept, Cursor!Leave
      <3>2. QED
        BY <3>1 DEF Cursor!Next
    <2>5. CASE pc' = "draw" /\ result' = result /\ selected' = selected
      BY <2>1, <2>5 DEF Cursor!vars
    <2>6. CASE /\ pc' = "draw" /\ result' = result
               /\ \/ selected > 0 /\ selected' = selected - 1
                  \/ selected < LastIndex /\ selected' = selected + 1
      <3>1. selected <= LastIndex
        BY <1>0, <2>1 DEF TypeOK
      <3>2. selected' \in {selected - 1, selected + 1} \cap (0 .. entries - 1)
        BY <1>0, <2>2, <2>6, <3>1 DEF LastIndex
      <3>3. Cursor!Move
        BY <2>1, <2>6, <3>2 DEF Cursor!Move
      <3>4. QED
        BY <3>3 DEF Cursor!Next
    <2>7. QED
      BY <2>3, <2>4, <2>5, <2>6
  <1>4. CASE Tick \/ Interrupt \/ Draw \/ PressKey
    <2>1. /\ UNCHANGED <<entries, default_os, selected, result>>
          /\ pc = pc' \/ {pc, pc'} \subseteq {"countdown", "draw", "key", "getc"}
      BY <1>4 DEF Tick, Interrupt, Draw, PressKey, config
    <2>2. QED
      BY <2>1 DEF Cursor!vars
  <1>5. CASE SerialStart \/ SerialExpire \/ SerialKey
    BY <1>0, <1>5 DEF SerialStart, SerialExpire, SerialKey, CountdownInv
  <1>6. CASE UNCHANGED vars
    BY <1>6 DEF vars, config, Cursor!vars
  <1>7. QED
    BY <1>1, <1>2, <1>3, <1>4, <1>5, <1>6 DEF Next, Program

\* Whether the cursor is looked at never changes, and without it nothing is
\* seen to happen.
LEMMA StepIsCursorStep == IInv /\ [Next]_vars => [Cursor!Next]_(Cursor!vars)
  <1> SUFFICES ASSUME IInv, [Next]_vars
               PROVE  Cursor!Next \/ UNCHANGED Cursor!vars
    BY DEF Cursor!vars
  <1>1. UNCHANGED <<entries, default_os, console>>
    BY DEF Next, Program, vars, config, VgaStart, Tick, Interrupt, VgaExpire,
           Draw, ReadKey, SerialStart, SerialExpire, SerialKey, PressKey
  <1>2. OnScreen' = OnScreen
    BY <1>1 DEF OnScreen
  <1>3. CASE OnScreen
    BY <1>2, <1>3, StepOnScreen
  <1>4. CASE ~OnScreen
    BY <1>1, <1>2, <1>4 DEF Cursor!vars
  <1>5. QED
    BY <1>3, <1>4

\* For every window height, list, default, countdown and sequence of keys,
\* the screen menu is the cursor its user sees: Enter and the countdown
\* return the selected entry or none, never another.
THEOREM ScreenIsCursor == Spec => CursorSpec
  <1>1. Init => Cursor!Init
    BY MenuAssumption DEF Init, Cursor!Init
  <1>2. IInv /\ [Next]_vars => [Cursor!Next]_(Cursor!vars)
    BY StepIsCursorStep
  <1>3. QED
    BY <1>1, <1>2, Inductive, PTL DEF Spec, CursorSpec, Cursor!Spec

-----------------------------------------------------------------------------
(* The safety half of Autoboot: a measure of the way to the next key.      *)

AtLeastZero(d) == IF d > 0 THEN d ELSE 0

\* An upper bound of the steps the program takes before it returns or reads
\* a key: the polls of the countdown, then drawing and looking.
Left ==
  CASE pc = "start"            -> AtLeastZero(seconds * Ticks) + 4
    [] pc = "countdown"        -> AtLeastZero(delay) + 3
    [] pc \in {"draw", "getc"} -> 2
    [] pc = "key"              -> 1
    [] OTHER                   -> 0

\* Only a key makes menu_display() go round again: every step of the program
\* that changes anything and reads no key brings Left down, for every delay,
\* window and list.  The step that changes nothing is a poll of the serial
\* countdown whose delay is negative, which only a key ends.
THEOREM OnlyKeysProlong ==
  Spec => /\ [](Left \in Nat)
          /\ [][Program => (key # NoKey /\ key' = NoKey) \/ Left' < Left]_vars
  <1>0. ASSUME NEW d \in Int
        PROVE  AtLeastZero(d) \in Nat /\ (d > 0 => AtLeastZero(d) = d)
    BY DEF AtLeastZero
  <1>1. ASSUME TypeOK PROVE delay \in Int /\ seconds * Ticks \in Int
    BY <1>1, DelayAssumption DEF TypeOK
  <1>2. IInv => Left \in Nat
    <2>1. ASSUME TypeOK
          PROVE  AtLeastZero(delay) \in Nat /\ AtLeastZero(seconds * Ticks) \in Nat
      BY <1>0, <1>1, <2>1
    <2>2. QED
      BY <2>1 DEF Left, IInv
  <1>3. ASSUME IInv, Program, ~(UNCHANGED vars),
               ~(key # NoKey /\ key' = NoKey)
        PROVE  Left' < Left
    <2>0. TypeOK /\ CountdownInv
      BY <1>3 DEF IInv
    <2>1. PICK d \in Int, s \in Int : d = delay /\ s = seconds * Ticks
      BY <1>1, <2>0
    <2>2. /\ AtLeastZero(d) \in Nat /\ (d > 0 => AtLeastZero(d) = d)
          /\ AtLeastZero(s) \in Nat /\ (s > 0 => AtLeastZero(s) = s)
      BY <1>0
    <2>3. CASE VgaStart \/ SerialStart
      <3>1. /\ pc = "start" /\ delay' = s
            /\ pc' = "countdown" \/ pc' = "draw"
        BY <2>1, <2>3 DEF VgaStart, SerialStart
      <3>2. /\ Left = AtLeastZero(s) + 4
            /\ Left' = AtLeastZero(s) + 3 \/ Left' = 2
        BY <2>1, <3>1 DEF Left
      <3>3. QED
        BY ONLY <2>2, <3>2
    <2>4. CASE Tick
      <3>1. /\ pc = "countdown" /\ pc' = "countdown"
            /\ delay' = IF d > 0 THEN d - 1 ELSE d
            /\ UNCHANGED <<config, key, selected, window, result>>
        BY <2>1, <2>4 DEF Tick
      <3>2. d > 0
        BY <1>3, <2>1, <3>1 DEF vars
      <3>3. Left = AtLeastZero(d) + 3 /\ Left' = AtLeastZero(d - 1) + 3
        BY <2>1, <3>1, <3>2 DEF Left
      <3>4. AtLeastZero(d - 1) = d - 1
        BY <2>1, <3>2 DEF AtLeastZero
      <3>5. QED
        BY ONLY <2>1, <2>2, <3>2, <3>3, <3>4
    <2>5. CASE Interrupt \/ VgaExpire \/ SerialExpire
      <3>1. pc = "countdown" /\ pc' \in {"draw", "getc", "done"}
        BY <2>5 DEF Interrupt, VgaExpire, SerialExpire, Return
      <3>2. Left = AtLeastZero(d) + 3 /\ Left' \in {2, 0}
        BY <2>1, <3>1 DEF Left
      <3>3. QED
        BY ONLY <2>2, <3>2
    <2>6. CASE Draw
      BY <2>6 DEF Draw, Left
    <2>7. CASE ReadKey \/ SerialKey
      BY <1>3, <2>0, <2>7 DEF ReadKey, SerialKey, CountdownInv
    <2>8. QED
      BY <1>3, <2>3, <2>4, <2>5, <2>6, <2>7 DEF Program
  <1>4. IInv /\ [Next]_vars =>
          [Program => (key # NoKey /\ key' = NoKey) \/ Left' < Left]_vars
    BY <1>3
  <1>5. QED
    BY <1>2, <1>4, Inductive, PTL DEF Spec
=============================================================================
