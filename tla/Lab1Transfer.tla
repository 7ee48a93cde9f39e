---------------------------- MODULE Lab1Transfer ----------------------------
(***************************************************************************)
(* The two programs of lab1: sender.c cuts a file into frames and writes   *)
(* them to a TCP connection, receiver.c reads frame after frame and writes *)
(* the payloads of those that verify to its output file.                   *)
(*                                                                         *)
(* Nothing is repeated and nothing is acknowledged.  On its way a frame    *)
(* may be hit by an error of the kinds that error_inject/eval_main.c makes *)
(* between the computation and the verification of the FCS, or by the one  *)
(* flipped bit of lab2's channel.  Either program may fail on the way: the *)
(* sender may be killed, also in the middle of a frame, and the receiver   *)
(* may be unable to open its output file.                                  *)
(***************************************************************************)
EXTENDS ErrorInjection, Sequences

CONSTANTS
    File,       \* the input file, a sequence of bytes
    MaxHits,    \* bound on the number of damaged frames
    Half        \* the first part of a frame, the rest of which never comes

\* A frame in the connection, by what was put into it.
Message == [seq : 0 .. Len(File) - 1, chunk : Seq(Byte), fcs : Register]

ASSUME FileAssumption == File \in Seq(Byte)
ASSUME MaxHitsAssumption == MaxHits \in Nat
ASSUME HalfAssumption == Half \notin Message

VARIABLES
    scheme,     \* the argument both programs were started with
    spc,        \* the sender: "send", "closed" or "died"
    seq,        \* the frames it has sent; a frame carries the lower 16 bits
    offset,     \* the bytes of the file it has sent
    wire,       \* what is in the connection
    rpc,        \* the receiver: "open", "recv", "done" or "failed"
    output,     \* the frames it has written to the output file
    rejected,   \* the number of frames it has rejected
    hits,       \* the frames damaged so far
    last        \* the verdict of the step just taken, if it verified a frame

receiver == <<rpc, output, rejected, hits>>
sender == <<spc, seq, offset>>
vars == <<scheme, sender, wire, receiver, last>>

NoDamage == [kind |-> "none", error |-> {}]
Nothing == [accepted |-> FALSE]

Init ==
    /\ scheme \in Scheme
    /\ spc = "send" /\ seq = 0 /\ offset = 0 /\ wire = << >>
    /\ rpc = "open" /\ output = << >> /\ rejected = 0 /\ hits = 0
    /\ last = Nothing

-----------------------------------------------------------------------------
(* The sender.                                                             *)

\* The frame of a message as it is built: the payload is numbered from 0.
Built(message) ==
    clean_frame([i \in 0 .. Len(message.chunk) - 1 |-> message.chunk[i + 1]],
                Len(message.chunk), message.seq)

ChunkLen == Min({Len(File) - offset, PAYLOAD_SIZE})

\* Slip: the last chunk counts like the others.
NextWholeOffset == offset + PAYLOAD_SIZE
NextOffset == offset + ChunkLen

\* One turn of the main loop.  A frame sent to a receiver that has failed is lost.
Send ==
    /\ spc = "send" /\ offset < Len(File)
    /\ wire' = IF rpc = "failed"
                 THEN << >>
                 ELSE LET chunk == SubSeq(File, offset + 1, offset + ChunkLen)
                          frame == Built([seq |-> seq, chunk |-> chunk])
                      IN  Append(wire, [seq   |-> seq,
                                        chunk |-> chunk,
                                        fcs   |-> compute_fcs(scheme, frame, REGION_LEN)])
    /\ seq' = seq + 1
    /\ offset' = NextOffset
    /\ last' = Nothing
    /\ UNCHANGED <<scheme, spc, receiver>>

\* The whole file has been sent, or send_all has reported that the peer is gone.
Close ==
    /\ spc = "send"
    /\ offset = Len(File) \/ rpc = "failed"
    /\ spc' = "closed"
    /\ last' = Nothing
    /\ UNCHANGED <<scheme, seq, offset, wire, receiver>>

\* The sender is killed (SIGPIPE included): between two frames, or within one.
Die ==
    /\ spc = "send"
    /\ spc' = "died"
    /\ wire' \in {wire} \cup (IF rpc # "failed" /\ offset < Len(File)
                                THEN {Append(wire, Half)} ELSE {})
    /\ last' = Nothing
    /\ UNCHANGED <<scheme, seq, offset, receiver>>

-----------------------------------------------------------------------------
(* The receiver.                                                           *)

Open ==
    /\ rpc = "open"
    /\ \/ rpc' = "recv" /\ UNCHANGED wire
       \/ rpc' = "failed" /\ wire' = << >>
    /\ last' = Nothing
    /\ UNCHANGED <<scheme, sender, output, rejected, hits>>

\* The length, the number and the payload are those that were sent, so that fwrite of
\* frame_len bytes of the payload writes the chunk that was sent.
IsClean(frame, message) == \A i \in 13 .. REGION_LEN - 1 : frame[i] = Built(message)[i]

\* What can happen to a frame between the two programs: nothing, or one of the errors
\* that eval_main and the channel of lab2 inject.
Damages(frame) ==
    {[kind |-> "flip", error |-> e] : e \in SingleFlips}
    \cup {[kind |-> "compensating", error |-> e] : e \in CompensatingErrors(frame)}
    \cup (IF scheme = "checksum" THEN {}
          ELSE LET generator == crc_generator(scheme)
               IN  {[kind |-> "burst", error |-> e] :
                       e \in Bursts(generator.degree) \cup Bursts(generator.degree + 1)}
                   \cup {[kind |-> "multiple", error |-> GeneratorMultiple(generator)]})

Receive ==
    /\ rpc = "recv"
    /\ wire # << >> /\ Head(wire) # Half
    /\ wire' = Tail(wire)
    /\ \E damage \in {NoDamage} \cup (IF hits < MaxHits THEN Damages(Built(Head(wire)))
                                     ELSE {}) :
         LET message == Head(wire)
             frame   == Flipped(Sealed(Built(message), message.fcs), damage.error)
             valid   == verify_fcs(scheme, frame, REGION_LEN, ReceivedFcs(frame))
         IN  /\ IF valid
                  THEN /\ output' = Append(output, [seq   |-> message.seq,
                                                    clean |-> IsClean(frame, message)])
                       /\ UNCHANGED rejected
                  ELSE rejected' = rejected + 1 /\ UNCHANGED output
             /\ hits' = IF damage = NoDamage THEN hits ELSE hits + 1
             /\ last' = [message |-> message, damage |-> damage, accepted |-> valid]
    /\ UNCHANGED <<scheme, sender, rpc>>

\* recv_all returns 0 at the end of the stream, also in the middle of a frame.
Eof ==
    /\ rpc = "recv"
    /\ spc # "send"
    /\ wire # << >> => Head(wire) = Half
    /\ rpc' = "done"
    /\ last' = Nothing
    /\ UNCHANGED <<scheme, sender, wire, output, rejected, hits>>

Over ==
    /\ spc # "send" /\ rpc \in {"done", "failed"}
    /\ UNCHANGED vars

Next == Send \/ Close \/ Die \/ Open \/ Receive \/ Eof \/ Over

Spec == Init /\ [][Next]_vars

-----------------------------------------------------------------------------
(* Properties.                                                             *)

\* Types of the locals of both programs and of the connection.
TypeOK ==
    /\ scheme \in Scheme
    /\ spc \in {"send", "closed", "died"}
    /\ rpc \in {"open", "recv", "done", "failed"}
    /\ seq \in 0 .. Len(File) /\ offset \in 0 .. Len(File)
    /\ hits \in 0 .. MaxHits
    /\ \A k \in DOMAIN wire : wire[k] = Half \/ wire[k] \in Message
    /\ output \in Seq([seq : Nat, clean : BOOLEAN])
    /\ rejected \in Nat
    /\ last # Nothing => last.message \in Message /\ last.damage.error \subseteq BitOfFrame

\* A frame that was not damaged is never missing from the output, nor written out of
\* order: every frame sent is still in the connection, or in the output file, in the
\* order of the file, or rejected because it was damaged.  So with no damage the
\* output is the input, as far as the sender got.
FileIsReassembled ==
    /\ \A i, j \in DOMAIN output : i < j => output[i].seq < output[j].seq
    /\ rpc # "failed" =>
         Len(output) + rejected + Cardinality({k \in DOMAIN wire : wire[k] # Half}) = seq
    /\ rejected + Cardinality({i \in DOMAIN output : ~ output[i].clean}) <= hits

Verified(kind) == last # Nothing /\ last.damage.kind = kind

\* The bytes of the trailer that checksum16_verify does not look at: they lie between the
\* last word it adds up and the 16 bits of the sum.  There is one in a frame of odd region.
Unchecked(i) ==
    scheme = "checksum" /\ i \div 8 \in 2 * ((REGION_LEN + 1) \div 2) .. REGION_LEN + 1

\* What the codes make of an error.  A flipped bit anywhere in the frame is noticed, except
\* by the checksum in the byte it does not look at: README.md:104 and :110 claim it of
\* all.  A solid burst, as inject_burst_error makes it, is noticed if it is as long as the
\* degree of the CRC, as README.md:111 claims, and also if it is one bit longer:
\* eval_main.c:139 and tests/test_burst.c:48 expect that some of those are missed.  Every
\* CRC notices the compensating error that the checksum does not see, as eval_main.c:81
\* expects.
DamageIsNoticed ==
    /\ Verified("flip") => (last.accepted <=> \E i \in last.damage.error : Unchecked(i))
    /\ Verified("burst") => ~ last.accepted
    /\ Verified("compensating") /\ scheme # "checksum" => ~ last.accepted

\* all_zero of eval_main.c: an array of zeros followed by any byte, and a checksum of 0.
AllZeroBlindSpot ==
    \E beyond \in Byte :
       checksum16_verify([k \in 0 .. REGION_LEN |-> IF k < REGION_LEN THEN {} ELSE beyond],
                         REGION_LEN, {})

\* ... and of their blind spots: two opposite flips in one column cancel out in the
\* checksum, a multiple of the generator in the CRC; but the blind spot of an all-zero
\* frame with an all-zero checksum does not exist, whatever byte follows the
\* odd-sized array it is tried on.
BlindSpots ==
    /\ Verified("compensating") /\ scheme = "checksum" => last.accepted
    /\ Verified("multiple") => last.accepted
    /\ ~ AllZeroBlindSpot

\* Long division of polynomials over GF(2), given as sets of exponents.
Remainder(dividend, generator) ==
    LET divisor == generator.poly \cup {generator.degree}
        rest[p \in SUBSET (0 .. 8 * REGION_LEN)] ==
            IF p = {} \/ Max(p) < generator.degree
              THEN p
              ELSE rest[SymDiff(p, {e + Max(p) - generator.degree : e \in divisor})]
    IN  rest[dividend]

\* The error as a polynomial, from its lowest power on: the first byte of a frame holds
\* the highest powers, and the generators are not multiples of x.
Polynomial(error) ==
    LET powers == {8 * (REGION_LEN - 1 - (i \div 8)) + (i % 8) :
                      i \in {j \in error : j < 8 * REGION_LEN}}
    IN  {e - Min(powers) : e \in powers}

WordsOf(frame) ==
    MapThenSumSet(LAMBDA w : 256 * Value(frame[2 * w]) + Value(frame[2 * w + 1]),
                  0 .. (REGION_LEN - 1) \div 2)

\* The bit-by-bit loops compute what they are meant to: a CRC accepts a frame exactly
\* if the error is a multiple of the generator polynomial and leaves the trailer alone;
\* the checksum accepts it exactly if all 16-bit words and the received sum add up to a
\* multiple of 2^16 - 1.
VerdictsAreAlgebraic ==
    last # Nothing =>
        LET m     == last.message
            frame == Flipped(Sealed(Built(m), m.fcs), last.damage.error)
        IN  IF scheme = "checksum"
              THEN last.accepted <=>
                     (WordsOf(frame) + Value(ReceivedFcs(frame) \cap (0 .. 15))) % 65535 = 0
              ELSE last.accepted <=>
                     /\ Remainder(Polynomial(last.damage.error), crc_generator(scheme)) = {}
                     /\ \A i \in last.damage.error : i < 8 * REGION_LEN
=============================================================================
