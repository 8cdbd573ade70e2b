----------------------------- MODULE MenuCursor -----------------------------
(***************************************************************************)
(* What the boot menu promises its user, with no window, no countdown and  *)
(* no key codes: a cursor that starts on the default entry, moves by one   *)
(* within the list, and at the end either the entry under the cursor is    *)
(* the answer or none is.                                                  *)
(***************************************************************************)
EXTENDS Integers

CONSTANT None    \* the answer `no entry'

VARIABLES size, wanted, cursor, phase, answer

vars == <<size, wanted, cursor, phase, answer>>

Init ==
  /\ size \in Nat /\ wanted \in Int
  /\ cursor = None /\ phase = "closed" /\ answer = None

Open ==
  /\ phase = "closed" /\ phase' = "open"
  /\ cursor' = IF wanted < size THEN wanted ELSE size - 1
  /\ UNCHANGED <<size, wanted, answer>>

Move ==
  /\ phase = "open"
  /\ cursor' \in {cursor - 1, cursor + 1} \cap (0 .. size - 1)
  /\ UNCHANGED <<size, wanted, phase, answer>>

Accept ==
  /\ phase = "open" /\ phase' = "over"
  /\ answer' = cursor
  /\ UNCHANGED <<size, wanted, cursor>>

Leave ==
  /\ phase = "open" /\ phase' = "over"
  /\ answer' = None
  /\ UNCHANGED <<size, wanted, cursor>>

Next == Open \/ Move \/ Accept \/ Leave

Spec == Init /\ [][Next]_vars
=============================================================================
