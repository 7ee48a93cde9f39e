--------------------------- MODULE ErrorDetection ---------------------------
(***************************************************************************)
(* The error-detecting codes of lab1: error.c and scheme.c.                *)
(*                                                                         *)
(* A byte is the set of its bits that are 1, bit 0 being the least         *)
(* significant one, and a 32-bit register likewise; exclusive-or is the    *)
(* symmetric difference.  Sums of 16-bit words are numbers.                *)
(***************************************************************************)
EXTENDS Integers, FiniteSetsExt

CONSTANT PAYLOAD_SIZE       \* frame.h: 44

ASSUME PayloadAssumption == PAYLOAD_SIZE \in Nat \ {0}

HEADER_SIZE  == 17
TRAILER_SIZE == 4
REGION_LEN   == HEADER_SIZE + PAYLOAD_SIZE
FRAME_SIZE   == REGION_LEN + TRAILER_SIZE

Byte     == SUBSET (0 .. 7)
Register == SUBSET (0 .. 31)

\* The number whose bits are given, and the bits of a 16-bit number.
Value(bits) == MapThenSumSet(LAMBDA b : 2 ^ b, bits)
Bits16(number) == {b \in 0 .. 15 : (number \div 2 ^ b) % 2 = 1}

-----------------------------------------------------------------------------
(* The checksum.  data is a function from positions to bytes.              *)

EndAroundCarry(sum) == (sum % 65536) + (sum \div 65536)

\* Slip: the last word of an odd length is left out.
ones_comp_sum_even(data, len) ==
    LET sum[words \in 0 .. len \div 2] ==
            IF words = 0 THEN 0
            ELSE EndAroundCarry(sum[words - 1] + 256 * Value(data[2 * words - 2])
                                               + Value(data[2 * words - 1]))
    IN  sum[len \div 2]

\* For an odd length the last word reaches one byte beyond it.
ones_comp_sum(data, len) ==
    LET sum[words \in 0 .. (len + 1) \div 2] ==
            IF words = 0 THEN 0
            ELSE EndAroundCarry(sum[words - 1] + 256 * Value(data[2 * words - 2])
                                               + Value(data[2 * words - 1]))
    IN  sum[(len + 1) \div 2]

checksum16_compute(data, len) == Bits16(65535 - ones_comp_sum(data, len))

\* The uint16_t parameter drops the upper half of what was received.
checksum16_verify(data, len, received) ==
    EndAroundCarry(ones_comp_sum(data, len) + Value(received \cap (0 .. 15))) = 65535

-----------------------------------------------------------------------------
(* The CRCs.  The register is 32 bits wide whatever the degree.            *)

ShiftLeft(crc) == {b + 1 : b \in crc} \ {32}

\* One bit through the register.
\* Slip: the bit above the register decides.
DivideStepLate(crc, generator) ==
    IF generator.degree \in crc
      THEN SymDiff(ShiftLeft(crc), generator.poly) ELSE ShiftLeft(crc)
DivideStep(crc, generator) ==
    IF generator.degree - 1 \in crc
      THEN SymDiff(ShiftLeft(crc), generator.poly) ELSE ShiftLeft(crc)

\* todo[<<n, reg>>]: n steps from the register reg.
DivideSteps(crc, generator, steps) ==
    LET divide[todo \in (0 .. steps) \X Register] ==
            IF todo[1] = 0
              THEN todo[2]
              ELSE divide[<<todo[1] - 1, DivideStep(todo[2], generator)>>]
    IN  divide[<<steps, crc>>]

\* The bits above the degree are cut off after every byte, not after the last loop.
crc_compute(data, len, generator) ==
    LET reg[bytes \in 0 .. len] ==
            IF bytes = 0 THEN {}
            ELSE LET aligned == {b + generator.degree - 8 : b \in data[bytes - 1]}
                 IN  DivideSteps(SymDiff(reg[bytes - 1], aligned), generator, 8)
                       \cap (0 .. generator.degree - 1)
    IN  DivideSteps(reg[len], generator, generator.degree)

crc_verify(data, len, generator, received) ==
    crc_compute(data, len, generator) = received

-----------------------------------------------------------------------------
(* scheme.c                                                                *)

CrcScheme == {"crc8", "crc10", "crc16", "crc32"}
Scheme == CrcScheme \cup {"checksum"}

crc_generator(scheme) ==
    CASE scheme = "crc8"  -> [poly |-> {7, 6, 4, 2, 0}, degree |-> 8]
      [] scheme = "crc10" -> [poly |-> {9, 5, 4, 1, 0}, degree |-> 10]
      [] scheme = "crc16" -> [poly |-> {15, 2, 0}, degree |-> 16]
      [] scheme = "crc32" -> [poly |-> {26, 23, 22, 16, 12, 11, 10, 8, 7, 5, 4, 2, 1, 0},
                              degree |-> 32]

compute_fcs(scheme, data, len) ==
    IF scheme = "checksum"
      THEN checksum16_compute(data, len)
      ELSE crc_compute(data, len, crc_generator(scheme))

verify_fcs(scheme, data, len, received) ==
    IF scheme = "checksum"
      THEN checksum16_verify(data, len, received)
      ELSE crc_verify(data, len, crc_generator(scheme), received)
=============================================================================
