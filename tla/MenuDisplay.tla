---------------------------- MODULE MenuDisplay ----------------------------
(***************************************************************************)
(* The boot menu on the screen and on the serial line (src/src/menu.c:     *)
(* menu_display, display and menu_display_serial).                         *)
(*                                                                         *)
(* The menu is a list of `entries' entries, numbered from 0, behind a      *)
(* header node.  On the screen a window of Rows entries scrolls over it;   *)
(* `first' and `last' are the two static variables of display().  The      *)
(* entry a call of display() returns is the one it highlighted, NoEntry    *)
(* (NULL) when the selected index was outside the window it drew.          *)
(*                                                                         *)
(* The user is the environment: a key press puts one key code in `key',    *)
(* which tstc() sees and video_get_key() or getc() takes out.              *)
(***************************************************************************)
EXTENDS Integers

CONSTANTS
  Rows,      \* entries drawn at once, 11 in the code
  Sizes,     \* the lengths of the menus considered
  Defaults,  \* the values of default_os considered
  Delays,    \* the values of the menu's delay considered, in seconds
  Ticks,     \* polls of the keyboard per second, 100 in the code
  Consoles,  \* the values of the stdout variable considered
  Keys       \* the key codes the user may press

ASSUME RowsAssumption == Rows \in Nat \ {0}
ASSUME MenuAssumption == Sizes \subseteq Nat /\ Defaults \subseteq Int
ASSUME DelayAssumption == Delays \subseteq Int /\ Ticks \in Nat \ {0}
ASSUME ConsoleAssumption == Consoles \subseteq {"vga", "serial"}
ASSUME KeyAssumption == Keys \subseteq Nat

NoEntry == -1
NoKey   == -1

\* Key codes of the screen menu.
KeyUp       == 4
KeyDown     == 3
KeyLeave    == 117
KeysAccept  == {1, 6}
\* Characters of the serial menu: 'a' names entry 0, 'z' leaves.
FirstLetter == 97
ExitLetter  == 122

VARIABLES
  console,    \* what getenv("stdout") says
  entries,    \* number of entries behind the header
  default_os,
  seconds,    \* the menu's delay
  key,        \* the key pressed and not yet read
  pc,
  selected,
  delay,      \* polls left of the countdown
  first,
  last,
  entry,      \* what the last call of display() returned
  result      \* what menu_display() returned

config == <<console, entries, default_os, seconds>>
window == <<first, last, entry>>
vars   == <<config, key, pc, selected, delay, window, result>>

\* The index of the last entry, -1 in an empty menu.
LastIndex == entries - 1

DefaultSelection == IF default_os <= LastIndex THEN default_os ELSE LastIndex

Init ==
  /\ console \in Consoles
  /\ entries \in Sizes
  /\ default_os \in Defaults
  /\ seconds \in Delays
  /\ key = NoKey
  /\ pc = "start"
  /\ selected = NoEntry
  /\ delay = 0
  /\ first = 0
  /\ last = Rows - 1
  /\ entry = NoEntry
  /\ result = NoEntry

-----------------------------------------------------------------------------
(* display(): scroll by at most one row each way, draw, return the         *)
(* highlighted entry.                                                      *)

\* Slips: scrolling down one row early, and never scrolling up again.
ScrolledEarly(sel) ==
  LET up == IF sel < first THEN first - 1 ELSE first
  IN  IF sel >= last THEN up + 1 ELSE up
ScrolledDownOnly(sel) == IF sel > last THEN first + 1 ELSE first

Scrolled(sel) ==
  LET up == IF sel < first THEN first - 1 ELSE first
  IN  IF sel > last THEN up + 1 ELSE up

\* The entries skipped before the first one drawn, and the number drawn.
Skipped(f) == IF f > 0 THEN f ELSE 0
Drawn(f) ==
  IF entries - Skipped(f) < Rows THEN entries - Skipped(f) ELSE Rows

\* Slip: the highlighted row's number taken for the entry's.
HighlightedRow(f, sel) ==
  IF sel - f \in 0 .. (Drawn(f) - 1) THEN sel - f ELSE NoEntry

Highlighted(f, sel) ==
  IF sel - f \in 0 .. (Drawn(f) - 1) THEN Skipped(f) + (sel - f) ELSE NoEntry

Display(sel) ==
  /\ first' = Scrolled(sel)
  /\ last' = first' + Drawn(first') - 1
  /\ entry' = Highlighted(first', sel)

-----------------------------------------------------------------------------
(* menu_display() on the screen.                                           *)

VgaStart ==
  /\ pc = "start" /\ console = "vga"
  /\ selected' = DefaultSelection
  /\ delay' = seconds * Ticks
  /\ IF delay' <= 0
     THEN pc' = "draw" /\ UNCHANGED window
     ELSE pc' = "countdown" /\ Display(selected')
  /\ UNCHANGED <<config, key, result>>

\* Slip: the countdown stops short of zero.
TickShort ==
  /\ pc = "countdown" /\ delay # 0 /\ key = NoKey
  /\ delay' = IF delay > 1 THEN delay - 1 ELSE delay
  /\ UNCHANGED <<config, key, pc, selected, window, result>>

\* One turn of the loop that waits for a key: nothing typed, one poll less.
\* A negative delay, which only the serial loop can meet, stays negative.
Tick ==
  /\ pc = "countdown" /\ delay # 0 /\ key = NoKey
  /\ delay' = IF delay > 0 THEN delay - 1 ELSE delay
  /\ UNCHANGED <<config, key, pc, selected, window, result>>

\* tstc() saw a key: the countdown is over, the key stays to be read.
Interrupt ==
  /\ pc = "countdown" /\ delay # 0 /\ key # NoKey
  /\ pc' = IF console = "vga" THEN "draw" ELSE "getc"
  /\ UNCHANGED <<config, key, selected, delay, window, result>>

Return(e) == pc' = "done" /\ result' = e

VgaExpire ==
  /\ pc = "countdown" /\ console = "vga" /\ delay = 0
  /\ Return(entry)
  /\ UNCHANGED <<config, key, selected, delay, window>>

Draw ==
  /\ pc = "draw"
  /\ Display(selected)
  /\ pc' = "key"
  /\ UNCHANGED <<config, key, selected, delay, result>>

ReadKey ==
  /\ pc = "key" /\ key # NoKey
  /\ key' = NoKey
  /\ selected' = CASE key = KeyUp /\ selected > 0 -> selected - 1
                   [] key = KeyDown /\ selected < LastIndex -> selected + 1
                   [] OTHER -> selected
  /\ CASE key = KeyLeave -> Return(NoEntry)
       [] key \in KeysAccept -> Return(entry)
       [] OTHER -> pc' = "draw" /\ UNCHANGED result
  /\ UNCHANGED <<config, delay, window>>

-----------------------------------------------------------------------------
(* menu_display_serial().                                                  *)

\* Slip: the list taken to be one longer.
EntryAtOrEnd(i) == IF i \in 0 .. entries THEN i ELSE NoEntry

EntryAt(i) == IF i \in 0 .. LastIndex THEN i ELSE NoEntry

SerialStart ==
  /\ pc = "start" /\ console = "serial"
  /\ selected' = DefaultSelection
  /\ delay' = seconds * Ticks
  /\ pc' = "countdown"
  /\ UNCHANGED <<config, key, window, result>>

\* Slip: the header counted as the first entry.
SerialExpireHeader ==
  /\ pc = "countdown" /\ console = "serial" /\ delay = 0
  /\ Return(EntryAt(selected - 1))
  /\ UNCHANGED <<config, key, selected, delay, window>>

SerialExpire ==
  /\ pc = "countdown" /\ console = "serial" /\ delay = 0
  /\ Return(EntryAt(selected))
  /\ UNCHANGED <<config, key, selected, delay, window>>

\* getc() overwrites selected with the character typed.
SerialKey ==
  /\ pc = "getc"
  /\ selected' = key
  /\ key' = NoKey
  /\ Return(IF key = ExitLetter THEN NoEntry ELSE EntryAt(key - FirstLetter))
  /\ UNCHANGED <<config, delay, window>>

-----------------------------------------------------------------------------

PressKey ==
  /\ pc # "done" /\ key = NoKey
  /\ key' \in Keys
  /\ UNCHANGED <<config, pc, selected, delay, window, result>>

Program ==
  \/ VgaStart \/ Tick \/ Interrupt \/ VgaExpire \/ Draw \/ ReadKey
  \/ SerialStart \/ SerialExpire \/ SerialKey

Next == Program \/ PressKey

Spec == Init /\ [][Next]_vars

\* The program runs on; the user need never press anything.
FairSpec == Spec /\ WF_vars(Program)

-----------------------------------------------------------------------------
(* Properties.                                                             *)

TypeOK ==
  /\ console \in Consoles /\ entries \in Sizes
  /\ default_os \in Defaults /\ seconds \in Delays
  /\ key \in Keys \cup {NoKey}
  /\ pc \in {"start", "countdown", "draw", "key", "getc", "done"}
  /\ selected \in Int /\ delay \in Int /\ first \in Int /\ last \in Int
  /\ (console = "vga" /\ pc # "start") => selected <= LastIndex
  /\ entry \in -1 .. LastIndex /\ result \in -1 .. LastIndex

\* Whatever was pressed, and whatever default_os the menu file gave, the
\* window never scrolls past the last full page: `first' list nodes can be
\* skipped (the walk of display()) and no row is left blank while entries
\* are hidden above it.
WindowOnPage == first <= (IF entries > Rows THEN entries - Rows ELSE 0)

\* While the user looks at the screen menu the selected entry is in the
\* window and highlighted, as long as the default entry was no further down
\* than one row below the first page: one call of display() scrolls by one.
SelectionVisible ==
  (/\ console = "vga" /\ pc \in {"countdown", "key"}
   /\ default_os \in 0 .. Rows)
    => entry = selected

\* A countdown that runs out boots the default entry (the last one when
\* default_os is beyond the list), on either console.
TimeoutBootsDefault ==
  [][(pc = "countdown" /\ pc' = "done" /\ default_os >= 0)
       => result' = DefaultSelection]_vars

\* With a positive delay and nobody at the keyboard, menu_display() returns.
Autoboot == (seconds > 0 /\ [](key = NoKey)) => <>(pc = "done")

\* The screen menu, seen through its cursor: scrolling and the one-row-per-
\* call rule never make Enter or the countdown return an entry other than
\* the selected one.  The serial menu, and a default before the list, make
\* no such promise: seen so the menu stays closed.
OnScreen == console = "vga" /\ default_os >= 0

Cursor == INSTANCE MenuCursor WITH
  None   <- NoEntry,
  size   <- entries,
  wanted <- default_os,
  cursor <- IF OnScreen THEN selected ELSE NoEntry,
  phase  <- CASE ~OnScreen \/ pc = "start" -> "closed"
              [] OnScreen /\ pc = "done" -> "over"
              [] OTHER -> "open",
  answer <- IF OnScreen THEN result ELSE NoEntry

CursorSpec == Cursor!Spec
=============================================================================
