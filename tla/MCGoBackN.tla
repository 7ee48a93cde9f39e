------------------------------ MODULE MCGoBackN -----------------------------
(***************************************************************************)
(* Instances of GoBackN for TLC.                                           *)
(***************************************************************************)
EXTENDS GoBackN

\* window_size 1 and 2: windows of 1 and 3 frames.
Window1 == 2^1 - 1
Window3 == 2^2 - 1
=============================================================================
