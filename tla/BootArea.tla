------------------------------ MODULE BootArea ------------------------------
(***************************************************************************)
(* What installing promises about the boot blocks of a disk, with no       *)
(* blocks: which start of the installer wrote the bootloader the firmware  *)
(* reads.  It is one of them or none.  An old bootloader goes away at once *)
(* and never comes back; only then the new one can be read, in parts at    *)
(* first; and a start that answers "ok" leaves its own.  A start may be    *)
(* killed and the next one made at any time.                               *)
(***************************************************************************)
EXTENDS Integers

VARIABLES
  started,  \* the number of the last start, 1 for the first
  length,   \* of the bootloader it installs
  reads,    \* the starts that wrote what the firmware reads
  answer    \* what was printed at its end, "none" before

vars == <<started, length, reads, answer>>

\* Start 0 wrote what was there before.
Init ==
  /\ started = 1 /\ length \in Nat
  /\ reads \in {{}, {0}} /\ answer = "none"

Start ==
  /\ started' = started + 1 /\ length' \in Nat /\ answer' = "none"
  /\ UNCHANGED reads

OldGone ==
  /\ answer = "none" /\ started \notin reads
  /\ reads' = {}
  /\ UNCHANGED <<started, length, answer>>

NewSeen ==
  /\ answer = "none" /\ reads = {} /\ length > 0
  /\ reads' = {started}
  /\ UNCHANGED <<started, length, answer>>

\* Nothing is touched on a disk without a RigidDiskBlock, nor without a file.
Refuse ==
  /\ answer = "none" /\ started \notin reads
  /\ \/ answer' = "no rdb" /\ reads = {}
     \/ answer' = "no file"
  /\ UNCHANGED <<started, length, reads>>

\* Out of space: the old bootloader is gone, the new one is there in parts.
GiveUp ==
  /\ answer = "none" /\ reads \in {{}, {started}}
  /\ answer' = "no space"
  /\ reads' \in {reads, {started}}
  /\ UNCHANGED <<started, length>>

Succeed ==
  /\ answer = "none" /\ reads \in {{}, {started}}
  /\ answer' = "ok"
  /\ reads' = IF length = 0 THEN {} ELSE {started}
  /\ UNCHANGED <<started, length>>

Next == Start \/ OldGone \/ NewSeen \/ Refuse \/ GiveUp \/ Succeed

Spec == Init /\ [][Next]_vars
=============================================================================
