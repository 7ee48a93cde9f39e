------------------------------ MODULE MCTimer -------------------------------
(***************************************************************************)
(* Timer with two configurations: a fixed RTO of one and a half            *)
(* milliseconds, and an adaptive one.                                      *)
(***************************************************************************)
EXTENDS Timer

MCConfigs == {[rto |-> 3, use_ema |-> FALSE], [rto |-> 4, use_ema |-> TRUE]}
=============================================================================
