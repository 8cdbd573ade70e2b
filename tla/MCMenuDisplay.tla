--------------------------- MODULE MCMenuDisplay ---------------------------
(* Instances of MenuDisplay for TLC.                                       *)
EXTENDS MenuDisplay

\* Every key the program tells apart, one it does not, and three letters.
MCKeys == {1, 2, 3, 4, 6, 117, 97, 98, 122}
MCScreenKeys == {1, 3, 4, 117}
MCDelays == {-1, 0, 1}

\* A small window, so that menus are shorter, as long and longer than it.
MCSmallSizes == 0 .. 6
MCSmallDefaults == -2 .. 3

\* The window of the code.
MCRealSizes == 10 .. 14
MCRealDefaults == 0 .. 15
=============================================================================
