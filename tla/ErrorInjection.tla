--------------------------- MODULE ErrorInjection ---------------------------
(***************************************************************************)
(* The frames of lab1 and the errors its evaluation injects into them:     *)
(* error_inject/bit_flip.c, targeted_inject.c and clean_frame.             *)
(*                                                                         *)
(* An error is the set of the bits it flips, numbered as flip_bit numbers  *)
(* them: bit 8 * k + b is bit b of byte k.                                 *)
(***************************************************************************)
EXTENDS ErrorDetection

CONSTANT Words      \* the words a compensating error is tried on

ASSUME WordsAssumption == Words \subseteq 0 .. (REGION_LEN \div 2) - 1

BitOfFrame == 0 .. 8 * FRAME_SIZE - 1

\* htons and htonl: byte number place of the big-endian form with so many bytes.
BigEndianByte(bits, place, bytes) ==
    {b \in 0 .. 7 : 8 * (bytes - 1 - place) + b \in bits}

SrcByte  == {1, 3, 5, 7}            \* 0xAA
DestByte == {0, 1, 3, 4, 5, 7}      \* 0xBB

\* A data frame with a zero trailer.  payload is a function from 0 .. len - 1 to
\* bytes; the rest of the payload stays zero.
clean_frame(payload, len, seq) ==
    [k \in 0 .. FRAME_SIZE - 1 |->
        CASE k \in 1 .. 6   -> SrcByte
          [] k \in 7 .. 12  -> DestByte
          [] k \in 13 .. 14 -> BigEndianByte(Bits16(len), k - 13, 2)
          [] k \in 15 .. 16 -> BigEndianByte(Bits16(seq), k - 15, 2)
          [] k \in HEADER_SIZE .. HEADER_SIZE + len - 1 -> payload[k - HEADER_SIZE]
          [] OTHER -> {}]

\* trailer.fcs = htonl(fcs), and back.
\* Slip: the trailer is stored without htonl.
SealedAsIs(frame, fcs) ==
    [k \in 0 .. FRAME_SIZE - 1 |->
        IF k < REGION_LEN THEN frame[k]
        ELSE BigEndianByte(fcs, 3 - (k - REGION_LEN), 4)]
Sealed(frame, fcs) ==
    [k \in 0 .. FRAME_SIZE - 1 |->
        IF k < REGION_LEN THEN frame[k] ELSE BigEndianByte(fcs, k - REGION_LEN, 4)]

ReceivedFcs(frame) ==
    {b \in 0 .. 31 : b % 8 \in frame[REGION_LEN + 3 - b \div 8]}

\* flip_bit, for all bits of an error.
Flipped(frame, error) ==
    [k \in 0 .. FRAME_SIZE - 1 |-> SymDiff(frame[k], {b \in 0 .. 7 : 8 * k + b \in error})]

-----------------------------------------------------------------------------
(* The errors.                                                             *)

SingleFlips == {{i} : i \in BitOfFrame}

\* Every bit of the burst is flipped.
Bursts(length) == {i .. i + length - 1 : i \in 0 .. 8 * REGION_LEN - length}

\* Two bits of the same column of two words, one of them 1 and the other 0.
CompensatingErrors(frame) ==
    LET Bit(word, c) == IF c < 8 THEN 8 * (2 * word + 1) + c ELSE 8 * (2 * word) + c - 8
        One(i) == i % 8 \in frame[i \div 8]
        columns == {t \in Words \X Words \X (0 .. 15) :
                       t[1] < t[2] /\ One(Bit(t[1], t[3])) # One(Bit(t[2], t[3]))}
    IN  {{Bit(t[1], t[3]), Bit(t[2], t[3])} : t \in columns}

\* The generator polynomial laid over the first bits of the frame, from the most
\* significant bit of each byte on.
\* Slip: in the order in which flip_bit numbers the bits.
GeneratorMultipleLsb(generator) ==
    {k \in 0 .. generator.degree : k = 0 \/ generator.degree - k \in generator.poly}
GeneratorMultiple(generator) ==
    {8 * (k \div 8) + 7 - (k % 8) :
        k \in {n \in 0 .. generator.degree :
                  n = 0 \/ generator.degree - n \in generator.poly}}
=============================================================================
