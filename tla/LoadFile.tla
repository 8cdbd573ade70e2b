------------------------------ MODULE LoadFile ------------------------------
(***************************************************************************)
(* What load_file() of a boot device promises bootstrap() and the          *)
(* handlers: the buffer fills with the file from its beginning, and the    *)
(* answer is the file's length once it is all there, or Missing when there *)
(* is no such file.  A device may break (a damaged disk, a read that       *)
(* failed): it promises nothing then of this load, but of the next.        *)
(***************************************************************************)
EXTENDS Integers, SequencesExt

CONSTANT Missing    \* the answer for a file that is not there

VARIABLES
  phase,
  wanted,   \* the content asked for: {content}, or {} if there is no such file
  got,
  answer

vars == <<phase, wanted, got, answer>>

AtMostOne(S) == \A x, y \in S : x = y

Init ==
  /\ phase \in {"idle", "broken"}
  /\ phase = "idle" => AtMostOne(wanted)
  /\ got = <<>> /\ answer = 0

Ask ==
  /\ phase # "loading" /\ phase' = "loading"
  /\ AtMostOne(wanted')
  /\ got' = <<>>
  /\ UNCHANGED answer

Copy ==
  /\ phase = "loading" /\ UNCHANGED phase
  /\ \E content \in wanted : IsPrefix(got, got') /\ IsPrefix(got', content)
  /\ UNCHANGED <<wanted, answer>>

Finish ==
  /\ phase = "loading" /\ phase' = "idle"
  /\ \/ wanted = {} /\ answer' = Missing
     \/ \E content \in wanted : got = content /\ answer' = Len(content)
  /\ UNCHANGED <<wanted, got>>

Break == phase' = "broken"

Next == Ask \/ Copy \/ Finish \/ Break

Spec == Init /\ [][Next]_vars
=============================================================================
