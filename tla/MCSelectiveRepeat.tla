-------------------------- MODULE MCSelectiveRepeat -------------------------
(***************************************************************************)
(* Instances of SelectiveRepeat for TLC.                                   *)
(***************************************************************************)
EXTENDS SelectiveRepeat

\* window_size 2 and 3: windows of 2 and 4 frames on either side.
Window2 == 2^(2 - 1)
Window4 == 2^(3 - 1)
=============================================================================
