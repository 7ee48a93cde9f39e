--------------------------- MODULE MCLab1Transfer ---------------------------
(***************************************************************************)
(* Lab1Transfer on a file of one full chunk and a shorter one.             *)
(***************************************************************************)
EXTENDS Lab1Transfer

\* Some bytes without a regular pattern.
MCFile == [k \in 1 .. PAYLOAD_SIZE + 5 |->
              {b \in 0 .. 7 : ((k + 1) * (k + 3 * b + 2)) % 7 < 3}]
=============================================================================
