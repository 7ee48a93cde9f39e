--------------------------- MODULE SlottedMedium ----------------------------
(***************************************************************************)
(* What the shared medium of lab3 promises, seen slot by slot and without  *)
(* the messages that bring it about: a frame that occupies the medium for  *)
(* FrameLen slots is delivered if nobody else transmitted in any of them,  *)
(* and every transmission ends either delivered or lost.                   *)
(*                                                                         *)
(* CsmaChannel, where the channel polls its stations over sockets, is      *)
(* shown to implement this module by a refinement mapping.                 *)
(***************************************************************************)
EXTENDS Integers, FiniteSets

CONSTANTS
    Station,
    FrameLen        \* slots that one frame occupies

VARIABLES
    age,            \* slots the transmission of a station has lasted; 0: silent
    clean,          \* nobody else has transmitted since it began
    delivered,      \* frames that arrived
    lost            \* transmissions that ended otherwise

vars == <<age, clean, delivered, lost>>

OnAir == {s \in Station : age[s] > 0}

Init ==
    /\ age = [s \in Station |-> 0]
    /\ clean = [s \in Station |-> FALSE]
    /\ delivered = 0
    /\ lost = 0

\* One slot, in which the stations of starters begin, those of jammers give up
\* after it, and the frames of garbled would not pass the check.
Slot(starters, jammers, garbled) ==
    LET sending  == OnAir \cup starters
        alone    == Cardinality(sending) = 1
        pure(s)  == alone /\ (s \in starters \/ clean[s])
        complete == {s \in sending \ jammers : age[s] + 1 = FrameLen}
        good     == {s \in complete \ garbled : pure(s)}
        ended    == complete \cup jammers
    IN  /\ age' = [s \in Station |-> IF s \in sending \ ended THEN age[s] + 1 ELSE 0]
        /\ clean' = [s \in Station |-> s \in sending \ ended /\ pure(s)]
        /\ delivered' = delivered + Cardinality(good)
        /\ lost' = lost + Cardinality(ended \ good)

Next ==
    \E starters \in SUBSET (Station \ OnAir), jammers \in SUBSET OnAir,
       garbled \in SUBSET Station :
        Slot(starters, jammers, garbled)

Spec == Init /\ [][Next]_vars
=============================================================================
