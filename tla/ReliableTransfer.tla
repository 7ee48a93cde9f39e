-------------------------- MODULE ReliableTransfer --------------------------
(***************************************************************************)
(* What one transfer of lab2 promises, whatever the ARQ mode: the output   *)
(* file grows by the chunks of the input file, in order and once each; the *)
(* receiver ends the transfer only after the last chunk; the sender        *)
(* reports completion only after the receiver has ended it.                *)
(*                                                                         *)
(* The concrete modes (StopAndWait, GoBackN, SelectiveRepeat) are shown to *)
(* implement this module by a refinement mapping.  It models the contract  *)
(* of sender_run and receiver_run, as eval_main.c relies on it when it     *)
(* compares the two files after the trial.                                 *)
(***************************************************************************)
EXTENDS Integers, Sequences

CONSTANT Chunks     \* number of non-empty payloads the input file is cut into

VARIABLES
    output,         \* the chunks written to the output file, in file order
    ended,          \* the receiver has accepted the end of the transmission
    complete        \* the sender has printed "Transfer complete!"

vars == <<output, ended, complete>>

Init == /\ output = << >>
        /\ ended = FALSE
        /\ complete = FALSE

\* Chunk number Len(output) is the only one that may be written next.
Deliver == /\ Len(output) < Chunks
           /\ output' = Append(output, Len(output))
           /\ UNCHANGED <<ended, complete>>

End == /\ Len(output) = Chunks
       /\ ~ended
       /\ ended' = TRUE
       /\ UNCHANGED <<output, complete>>

Report == /\ ended
          /\ ~complete
          /\ complete' = TRUE
          /\ UNCHANGED <<output, ended>>

Next == Deliver \/ End \/ Report

Spec == Init /\ [][Next]_vars

\* The stronger promise: the file does arrive.
FairSpec == Spec /\ WF_vars(Deliver) /\ WF_vars(End)
=============================================================================
