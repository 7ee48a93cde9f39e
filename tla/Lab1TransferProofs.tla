-------------------------- MODULE Lab1TransferProofs -------------------------
(***************************************************************************)
(* The two programs of lab1 lose nothing that was not damaged, and notice  *)
(* the damage that their codes can see, for every file, every size of the  *)
(* payload and each of the five codes.                                     *)
(*                                                                         *)
(* The first half rests on the fact that a frame that arrives as it was    *)
(* sent verifies.  For a CRC, which is computed again, the registers must  *)
(* fit into the trailer; for the checksum, which is added to the sum of    *)
(* the words, the bits of a number must give back the number, and the      *)
(* trailer must not disturb the last word of a region of odd length.       *)
(*                                                                         *)
(* The second half is algebra.  The loops of a CRC are linear, so that the *)
(* verdict depends on the error alone, and they multiply modulo the        *)
(* generator, so that it is the verdict of a long division.  The sum with  *)
(* its end-around carries is the sum of all words modulo 65535, so that a  *)
(* flipped bit adds or takes away its weight.  That a CRC tells two words  *)
(* apart is the one result that needs a bound on the payload, the 44 bytes *)
(* of frame.h.                                                             *)
(***************************************************************************)
EXTENDS Lab1Transfer, NumberLemmas, FiniteSetTheorems

-----------------------------------------------------------------------------
(* The CRCs.                                                               *)

\* What the lemmas need to know of a generator.
Generator(g) ==
    /\ g.degree \in 8 .. 32
    /\ g.poly \in Register /\ 0 \in g.poly /\ \A e \in g.poly : e < g.degree

\* It is true of those of scheme.c.
LEMMA Generators == \A s \in CrcScheme : Generator(crc_generator(s))
BY DEF CrcScheme, crc_generator, Generator, Register

\* A step keeps the register 32 bits wide.
LEMMA StepType ==
    ASSUME NEW g, Generator(g), NEW crc \in Register
    PROVE  DivideStep(crc, g) \in Register
<1>1. ShiftLeft(crc) \in Register
  BY DEF ShiftLeft, Register
<1> QED
  BY <1>1 DEF DivideStep, SymDiff, Generator, Register

\* The function that DivideSteps defines.
IsDivide(divide, g, steps) ==
    divide = [todo \in (0 .. steps) \X Register |->
                IF todo[1] = 0
                  THEN todo[2]
                  ELSE divide[<<todo[1] - 1, DivideStep(todo[2], g)>>]]

\* It exists, ...
LEMMA DivideExists ==
    ASSUME NEW g, Generator(g), NEW steps \in Nat
    PROVE  \E divide : IsDivide(divide, g, steps)
<1> DEFINE V == [Register -> Register]
           same == [reg \in Register |-> reg]
           more == [k \in Nat |-> [h \in V |-> [reg \in Register |-> h[DivideStep(reg, g)]]]]
<1>1. \A reg \in Register : DivideStep(reg, g) \in Register
  BY StepType
<1>2. same \in V /\ more \in [Nat -> [V -> V]]
  BY <1>1
<1> HIDE DEF V, same, more
<1>3. PICK h : Runs(h, steps, V, same, more)
  BY <1>2, Recursion
<1> USE DEF V, same, more
<1>4. ASSUME NEW n \in 0 .. steps, NEW reg \in Register
      PROVE  h[n][reg] = IF n = 0 THEN reg ELSE h[n - 1][DivideStep(reg, g)]
  <2>1. CASE n = 0
    BY <2>1, <1>3 DEF Runs
  <2>2. CASE n # 0
    <3>1. n \in 1 .. steps /\ n \in Nat /\ h[n - 1] \in V
      BY <2>2, <1>3 DEF Runs
    <3>2. h[n] = more[n][h[n - 1]]
      BY <3>1, <1>3 DEF Runs
    <3>3. more[n][h[n - 1]] = [r \in Register |-> h[n - 1][DivideStep(r, g)]]
      BY <3>1
    <3> QED
      BY <2>2, <3>2, <3>3
  <2> QED
    BY <2>1, <2>2
<1> DEFINE divide == [todo \in (0 .. steps) \X Register |-> h[todo[1]][todo[2]]]
<1>5. IsDivide(divide, g, steps)
  <2>1. ASSUME NEW todo \in (0 .. steps) \X Register
        PROVE  h[todo[1]][todo[2]] =
                  IF todo[1] = 0
                    THEN todo[2]
                    ELSE divide[<<todo[1] - 1, DivideStep(todo[2], g)>>]
    <3>1. CASE todo[1] = 0
      BY <3>1, <1>4
    <3>2. CASE todo[1] # 0
      <4>1. <<todo[1] - 1, DivideStep(todo[2], g)>> \in (0 .. steps) \X Register
        BY <3>2, <1>1
      <4>2. divide[<<todo[1] - 1, DivideStep(todo[2], g)>>]
              = h[todo[1] - 1][DivideStep(todo[2], g)]
        BY <4>1
      <4> QED
        BY <4>2, <3>2, <1>4
    <3> QED
      BY <3>1, <3>2
  <2> QED
    BY <2>1 DEF IsDivide
<1> QED
  BY <1>5

\* ... and its values are registers.
LEMMA StepsType ==
    ASSUME NEW g, Generator(g), NEW steps \in Nat, NEW crc \in Register
    PROVE  DivideSteps(crc, g, steps) \in Register
<1> DEFINE divide == CHOOSE d : IsDivide(d, g, steps)
<1>1. IsDivide(divide, g, steps)
  BY DivideExists
<1>2. DivideSteps(crc, g, steps) = divide[<<steps, crc>>]
  BY DEF DivideSteps, IsDivide
<1> HIDE DEF divide
<1>3. \A n \in 0 .. steps : \A reg \in Register :
         divide[<<n, reg>>] = IF n = 0 THEN reg ELSE divide[<<n - 1, DivideStep(reg, g)>>]
  BY <1>1 DEF IsDivide
<1> DEFINE S == {n \in 0 .. steps : \A reg \in Register : divide[<<n, reg>>] \in Register}
<1>4. 0 \in S
  <2>1. 0 \in 0 .. steps
    OBVIOUS
  <2>2. \A reg \in Register : divide[<<0, reg>>] = reg
    BY <2>1, <1>3
  <2> QED
    BY <2>1, <2>2
<1>5. ASSUME NEW k \in 1 .. steps, k - 1 \in S PROVE k \in S
  <2>1. \A reg \in Register : divide[<<k - 1, DivideStep(reg, g)>>] \in Register
    BY <1>5, StepType
  <2>2. k \in 0 .. steps /\ k # 0
    OBVIOUS
  <2>3. \A reg \in Register : divide[<<k, reg>>] = divide[<<k - 1, DivideStep(reg, g)>>]
    BY <2>2, <1>3
  <2> QED
    BY <2>1, <2>2, <2>3
<1>6. steps \in S
  <2> HIDE DEF S
  <2>1. \A k \in 1 .. steps : k - 1 \in S => k \in S
    BY <1>5
  <2>2. 0 .. steps \subseteq S
    BY <1>4, <2>1, InductionUpTo
  <2> QED
    BY <2>2
<1> QED
  BY <1>2, <1>6

\* The register after so many bytes, as crc_compute defines it.
NextReg(crc, byte, g) ==
    LET aligned == {b + g.degree - 8 : b \in byte}
    IN  DivideSteps(SymDiff(crc, aligned), g, 8) \cap (0 .. g.degree - 1)
IsReg(reg, data, len, g) ==
    reg = [bytes \in 0 .. len |->
             IF bytes = 0 THEN {} ELSE NextReg(reg[bytes - 1], data[bytes - 1], g)]

\* One step of its recursion.
LEMMA RegUnfolds ==
    ASSUME NEW reg, NEW data, NEW len \in Nat, NEW g, IsReg(reg, data, len, g)
    PROVE  /\ reg[0] = {}
           /\ \A k \in 1 .. len : reg[k] = NextReg(reg[k - 1], data[k - 1], g)
           /\ reg = [k \in 0 .. len |-> reg[k]]
<1> DEFINE f == [bytes \in 0 .. len |->
                  IF bytes = 0 THEN {} ELSE NextReg(reg[bytes - 1], data[bytes - 1], g)]
<1>1. reg = f
  BY DEF IsReg
<1>2. f[0] = {}
  OBVIOUS
<1>3. \A k \in 1 .. len : f[k] = NextReg(reg[k - 1], data[k - 1], g)
  OBVIOUS
<1>4. f = [k \in 0 .. len |-> f[k]]
  OBVIOUS
<1> HIDE DEF f
<1> QED
  BY <1>1, <1>2, <1>3, <1>4

\* A byte keeps the register 32 bits wide.
LEMMA NextRegType ==
    ASSUME NEW g, Generator(g), NEW crc \in Register, NEW byte \in Byte
    PROVE  NextReg(crc, byte, g) \in Register
<1> DEFINE aligned == {b + g.degree - 8 : b \in byte}
<1>1. aligned \in Register
  <2>1. ASSUME NEW b \in byte PROVE b + g.degree - 8 \in 0 .. 31
    <3>1. b \in 0 .. 7 /\ g.degree \in 8 .. 32
      BY DEF Generator, Byte
    <3> QED
      BY <3>1
  <2> QED
    BY <2>1 DEF Register
<1>2. SymDiff(crc, aligned) \in Register
  BY <1>1 DEF SymDiff, Register
<1>3. DivideSteps(SymDiff(crc, aligned), g, 8) \in Register
  BY <1>2, StepsType
<1>4. NextReg(crc, byte, g)
        = DivideSteps(SymDiff(crc, aligned), g, 8) \cap (0 .. g.degree - 1)
  BY DEF NextReg
<1> QED
  BY <1>3, <1>4 DEF Register

\* crc_compute runs one such function through, which exists.
LEMMA RegExists ==
    ASSUME NEW g, Generator(g), NEW len \in Nat, NEW data,
           \A k \in 0 .. len - 1 : data[k] \in Byte
    PROVE  \E reg \in [0 .. len -> Register] :
              /\ IsReg(reg, data, len, g)
              /\ crc_compute(data, len, g) = DivideSteps(reg[len], g, g.degree)
<1> DEFINE more == [k \in Nat |-> [crc \in Register |->
                      IF k \in 1 .. len THEN NextReg(crc, data[k - 1], g) ELSE crc]]
<1>1. {} \in Register
  BY DEF Register
<1>2. more \in [Nat -> [Register -> Register]]
  BY NextRegType
<1> HIDE DEF more
<1>3. PICK f : Runs(f, len, Register, {}, more)
  BY <1>1, <1>2, Recursion
<1>4. ASSUME NEW k \in 1 .. len PROVE f[k] = NextReg(f[k - 1], data[k - 1], g)
  <2>1. f[k] = more[k][f[k - 1]] /\ f[k - 1] \in Register /\ k \in Nat
    BY <1>3 DEF Runs
  <2> QED
    BY <2>1 DEF more
<1>5. IsReg(f, data, len, g)
  BY <1>3, <1>4 DEF IsReg, Runs
<1> DEFINE reg == CHOOSE r : IsReg(r, data, len, g)
<1>6. IsReg(reg, data, len, g)
  BY <1>5
<1>7. crc_compute(data, len, g) = DivideSteps(reg[len], g, g.degree)
  BY DEF crc_compute, IsReg, NextReg
<1> HIDE DEF reg, more
<1>8. /\ reg[0] = {}
      /\ \A k \in 1 .. len : reg[k] = NextReg(reg[k - 1], data[k - 1], g)
      /\ reg = [k \in 0 .. len |-> reg[k]]
  BY <1>6, RegUnfolds
<1> DEFINE S == {k \in 0 .. len : reg[k] \in Register}
<1>9. 0 .. len \subseteq S
  <2>1. 0 \in S
    BY <1>1, <1>8
  <2>2. ASSUME NEW k \in 1 .. len, k - 1 \in S PROVE k \in S
    <3>1. reg[k - 1] \in Register /\ data[k - 1] \in Byte /\ k \in 0 .. len
      BY <2>2
    <3>2. NextReg(reg[k - 1], data[k - 1], g) \in Register
      BY <3>1, NextRegType
    <3> QED
      BY <3>1, <3>2, <1>8
  <2> HIDE DEF S
  <2>3. \A k \in 1 .. len : k - 1 \in S => k \in S
    BY <2>2
  <2> QED
    BY <2>1, <2>3, InductionUpTo
<1>10. reg \in [0 .. len -> Register]
  BY <1>8, <1>9
<1> QED
  BY <1>6, <1>7, <1>10

\* The CRC of a region depends on nothing beyond it, and fits into 32 bits.
LEMMA CrcIsLocal ==
    ASSUME NEW g, Generator(g), NEW len \in Nat, NEW data, NEW other,
           \A k \in 0 .. len - 1 : data[k] \in Byte /\ other[k] = data[k]
    PROVE  /\ crc_compute(other, len, g) = crc_compute(data, len, g)
           /\ crc_compute(data, len, g) \in Register
<1>1. PICK r \in [0 .. len -> Register] :
         /\ IsReg(r, data, len, g)
         /\ crc_compute(data, len, g) = DivideSteps(r[len], g, g.degree)
  BY RegExists
<1>2. PICK s \in [0 .. len -> Register] :
         /\ IsReg(s, other, len, g)
         /\ crc_compute(other, len, g) = DivideSteps(s[len], g, g.degree)
  BY RegExists
<1> DEFINE S == {k \in 0 .. len : r[k] = s[k]}
<1>3. 0 .. len \subseteq S
  <2>1. 0 \in S
    BY <1>1, <1>2 DEF IsReg
  <2>2. ASSUME NEW k \in 1 .. len, k - 1 \in S PROVE k \in S
    <3>1. /\ r[k] = NextReg(r[k - 1], data[k - 1], g)
          /\ s[k] = NextReg(s[k - 1], other[k - 1], g)
      BY <1>1, <1>2, RegUnfolds
    <3>2. r[k - 1] = s[k - 1] /\ data[k - 1] = other[k - 1]
      BY <2>2
    <3> QED
      BY <3>1, <3>2
  <2> HIDE DEF S
  <2>3. \A k \in 1 .. len : k - 1 \in S => k \in S
    BY <2>2
  <2> QED
    BY <2>1, <2>3, InductionUpTo
<1>4. r[len] = s[len] /\ r[len] \in Register
  BY <1>3
<1>5. g.degree \in Nat
  <2>1. g.degree \in 8 .. 32
    BY DEF Generator
  <2>2. 8 .. 32 \subseteq Nat
    OBVIOUS
  <2> QED
    BY <2>1, <2>2, Zenon
<1> QED
  BY <1>1, <1>2, <1>4, <1>5, StepsType

-----------------------------------------------------------------------------
(* The number that some bits stand for.                                    *)

\* The sum of the powers, written out.
Weight(S) ==
       (IF 0 \in S THEN 1 ELSE 0) + (IF 1 \in S THEN 2 ELSE 0)
    + (IF 2 \in S THEN 4 ELSE 0) + (IF 3 \in S THEN 8 ELSE 0)
    + (IF 4 \in S THEN 16 ELSE 0) + (IF 5 \in S THEN 32 ELSE 0)
    + (IF 6 \in S THEN 64 ELSE 0) + (IF 7 \in S THEN 128 ELSE 0)
    + (IF 8 \in S THEN 256 ELSE 0) + (IF 9 \in S THEN 512 ELSE 0)
    + (IF 10 \in S THEN 1024 ELSE 0) + (IF 11 \in S THEN 2048 ELSE 0)
    + (IF 12 \in S THEN 4096 ELSE 0) + (IF 13 \in S THEN 8192 ELSE 0)
    + (IF 14 \in S THEN 16384 ELSE 0) + (IF 15 \in S THEN 32768 ELSE 0)

\* Without one of its bits a number is less by the weight of that bit.
LEMMA WeightStep ==
    ASSUME NEW S, NEW x \in S, x \in 0 .. 15
    PROVE  Weight(S) = 2 ^ x + Weight(S \ {x}) /\ 2 ^ x \in Nat /\ 2 ^ x > 0
<1>1. CASE x = 0
  <2>1. 2 ^ x = 1
    BY <1>1
  <2> QED
    BY <1>1, <2>1 DEF Weight
<1>2. CASE x = 1
  <2>1. 2 ^ x = 2
    BY <1>2
  <2> QED
    BY <1>2, <2>1 DEF Weight
<1>3. CASE x = 2
  <2>1. 2 ^ x = 4
    BY <1>3
  <2> QED
    BY <1>3, <2>1 DEF Weight
<1>4. CASE x = 3
  <2>1. 2 ^ x = 8
    BY <1>4
  <2> QED
    BY <1>4, <2>1 DEF Weight
<1>5. CASE x = 4
  <2>1. 2 ^ x = 16
    BY <1>5
  <2> QED
    BY <1>5, <2>1 DEF Weight
<1>6. CASE x = 5
  <2>1. 2 ^ x = 32
    BY <1>6
  <2> QED
    BY <1>6, <2>1 DEF Weight
<1>7. CASE x = 6
  <2>1. 2 ^ x = 64
    BY <1>7
  <2> QED
    BY <1>7, <2>1 DEF Weight
<1>8. CASE x = 7
  <2>1. 2 ^ x = 128
    BY <1>8
  <2> QED
    BY <1>8, <2>1 DEF Weight
<1>9. CASE x = 8
  <2>1. 2 ^ x = 256
    BY <1>9
  <2> QED
    BY <1>9, <2>1 DEF Weight
<1>10. CASE x = 9
  <2>1. 2 ^ x = 512
    BY <1>10
  <2> QED
    BY <1>10, <2>1 DEF Weight
<1>11. CASE x = 10
  <2>1. 2 ^ x = 1024
    BY <1>11
  <2> QED
    BY <1>11, <2>1 DEF Weight
<1>12. CASE x = 11
  <2>1. 2 ^ x = 2048
    BY <1>12
  <2> QED
    BY <1>12, <2>1 DEF Weight
<1>13. CASE x = 12
  <2>1. 2 ^ x = 4096
    BY <1>13
  <2> QED
    BY <1>13, <2>1 DEF Weight
<1>14. CASE x = 13
  <2>1. 2 ^ x = 8192
    BY <1>14
  <2> QED
    BY <1>14, <2>1 DEF Weight
<1>15. CASE x = 14
  <2>1. 2 ^ x = 16384
    BY <1>15
  <2> QED
    BY <1>15, <2>1 DEF Weight
<1>16. CASE x = 15
  <2>1. 2 ^ x = 32768
    BY <1>16
  <2> QED
    BY <1>16, <2>1 DEF Weight
<1> QED
  BY <1>1, <1>2, <1>3, <1>4, <1>5, <1>6, <1>7, <1>8,
     <1>9, <1>10, <1>11, <1>12, <1>13, <1>14, <1>15, <1>16

\* Bits stand for a number.
LEMMA WeightType ==
    ASSUME NEW S
    PROVE  /\ Weight(S) \in Nat /\ Weight(S) <= 65535
           /\ S \in Byte => Weight(S) <= 255
<1>1. Weight(S) \in Nat /\ Weight(S) <= 65535
  BY DEF Weight
<1>2. ASSUME S \in Byte PROVE Weight(S) <= 255
  <2>1. \A b \in 8 .. 15 : b \notin S
    BY <1>2 DEF Byte
  <2> QED
    BY <2>1 DEF Weight
<1> QED
  BY <1>1, <1>2

\* The function that the fold in Value defines.
IsSum(sum, S) ==
    sum = [s \in SUBSET S |->
             IF s = {}
               THEN 0
               ELSE 2 ^ (CHOOSE x \in s : TRUE) + sum[s \ {CHOOSE x \in s : TRUE}]]

\* Value is the sum of the powers, in whatever order the fold takes the bits.
LEMMA ValueIs == ASSUME NEW S \in SUBSET (0 .. 15) PROVE Value(S) = Weight(S)
<1> DEFINE sum == CHOOSE f : IsSum(f, S)
           weight == [s \in SUBSET S |-> Weight(s)]
<1>1. Weight({}) = 0
  BY DEF Weight
<1>2. IsSum(weight, S)
  <2>1. ASSUME NEW s \in SUBSET S, s # {}, NEW x, x = CHOOSE y \in s : TRUE
        PROVE  Weight(s) = 2 ^ x + weight[s \ {x}]
    <3>1. x \in s
      BY <2>1
    <3>2. x \in 0 .. 15 /\ s \ {x} \in SUBSET S
      BY <3>1
    <3>3. weight[s \ {x}] = Weight(s \ {x})
      BY <3>2
    <3> QED
      BY <3>1, <3>2, <3>3, WeightStep
  <2> QED
    BY <1>1, <2>1 DEF IsSum
<1>3. IsSum(sum, S)
  BY <1>2
<1>4. Value(S) = sum[S]
  BY DEF Value, MapThenSumSet, MapThenFoldSet, IsSum
<1> HIDE DEF sum, weight
<1> DEFINE Wrong == {s \in SUBSET S : sum[s] # Weight(s)}
           sizes == {Weight(s) : s \in Wrong}
<1>5. ASSUME Wrong # {} PROVE FALSE
  <2>1. sizes \subseteq Nat /\ sizes # {}
    BY <1>5, WeightType
  <2>2. PICK n \in sizes : \A m \in sizes : n <= m
    <3> HIDE DEF sizes
    <3> QED
      BY <2>1, LeastElement
  <2>3. PICK s \in Wrong : n = Weight(s)
    OBVIOUS
  <2> DEFINE x == CHOOSE y \in s : TRUE
  <2>4. sum[s] = IF s = {} THEN 0 ELSE 2 ^ x + sum[s \ {x}]
    BY <1>3 DEF IsSum
  <2>5. s # {}
    BY <2>4, <1>1
  <2>6. x \in s
    BY <2>5
  <2> HIDE DEF x
  <2>7. x \in 0 .. 15 /\ s \ {x} \in SUBSET S
    BY <2>6
  <2>8. Weight(s) = 2 ^ x + Weight(s \ {x}) /\ 2 ^ x \in Nat /\ 2 ^ x > 0
    BY <2>6, <2>7, WeightStep
  <2>9. Weight(s \ {x}) \in Nat
    BY WeightType
  <2>10. s \ {x} \in Wrong
    BY <2>4, <2>5, <2>7, <2>8
  <2>11. n <= Weight(s \ {x})
    BY <2>2, <2>10
  <2> QED
    BY <2>3, <2>8, <2>9, <2>11
<1> QED
  BY <1>4, <1>5

\* Words and bytes are numbers of their width.
LEMMA ValueType ==
    /\ \A S \in SUBSET (0 .. 15) : Value(S) \in Nat /\ Value(S) <= 65535
    /\ \A S \in Byte : Value(S) \in Nat /\ Value(S) <= 255
<1>1. \A S \in Byte : S \in SUBSET (0 .. 15)
  BY DEF Byte
<1> QED
  BY <1>1, ValueIs, WeightType

\* The bits of a number give back the number.
LEMMA BitsOfNumber ==
    ASSUME NEW n \in Nat, n <= 65535
    PROVE  Bits16(n) \in SUBSET (0 .. 15) /\ Value(Bits16(n)) = n
<1> DEFINE B == Bits16(n)
           bit(b) == IF b \in B THEN 1 ELSE 0
           q0 == n \div 1
           q1 == n \div 2
           q2 == n \div 4
           q3 == n \div 8
           q4 == n \div 16
           q5 == n \div 32
           q6 == n \div 64
           q7 == n \div 128
           q8 == n \div 256
           q9 == n \div 512
           q10 == n \div 1024
           q11 == n \div 2048
           q12 == n \div 4096
           q13 == n \div 8192
           q14 == n \div 16384
           q15 == n \div 32768
           q16 == n \div 65536
<1>1. q0 \in Nat /\ q0 = 2 * q1 + bit(0)
  BY 2 ^ 0 = 1 DEF Bits16
<1>2. q1 \in Nat /\ q1 = 2 * q2 + bit(1)
  BY 2 ^ 1 = 2 DEF Bits16
<1>3. q2 \in Nat /\ q2 = 2 * q3 + bit(2)
  BY 2 ^ 2 = 4 DEF Bits16
<1>4. q3 \in Nat /\ q3 = 2 * q4 + bit(3)
  BY 2 ^ 3 = 8 DEF Bits16
<1>5. q4 \in Nat /\ q4 = 2 * q5 + bit(4)
  BY 2 ^ 4 = 16 DEF Bits16
<1>6. q5 \in Nat /\ q5 = 2 * q6 + bit(5)
  BY 2 ^ 5 = 32 DEF Bits16
<1>7. q6 \in Nat /\ q6 = 2 * q7 + bit(6)
  BY 2 ^ 6 = 64 DEF Bits16
<1>8. q7 \in Nat /\ q7 = 2 * q8 + bit(7)
  BY 2 ^ 7 = 128 DEF Bits16
<1>9. q8 \in Nat /\ q8 = 2 * q9 + bit(8)
  BY 2 ^ 8 = 256 DEF Bits16
<1>10. q9 \in Nat /\ q9 = 2 * q10 + bit(9)
  BY 2 ^ 9 = 512 DEF Bits16
<1>11. q10 \in Nat /\ q10 = 2 * q11 + bit(10)
  BY 2 ^ 10 = 1024 DEF Bits16
<1>12. q11 \in Nat /\ q11 = 2 * q12 + bit(11)
  BY 2 ^ 11 = 2048 DEF Bits16
<1>13. q12 \in Nat /\ q12 = 2 * q13 + bit(12)
  BY 2 ^ 12 = 4096 DEF Bits16
<1>14. q13 \in Nat /\ q13 = 2 * q14 + bit(13)
  BY 2 ^ 13 = 8192 DEF Bits16
<1>15. q14 \in Nat /\ q14 = 2 * q15 + bit(14)
  BY 2 ^ 14 = 16384 DEF Bits16
<1>16. q15 \in Nat /\ q15 = 2 * q16 + bit(15)
  BY 2 ^ 15 = 32768 DEF Bits16
<1>17. q0 = n /\ q16 = 0
  OBVIOUS
<1>18. Weight(B) = bit(0) + 2 * bit(1) + 4 * bit(2) + 8 * bit(3) + 16 * bit(4) + 32 * bit(5)
                     + 64 * bit(6) + 128 * bit(7) + 256 * bit(8) + 512 * bit(9) + 1024 * bit(10)
                     + 2048 * bit(11) + 4096 * bit(12) + 8192 * bit(13) + 16384 * bit(14)
                     + 32768 * bit(15)
  BY DEF Weight
<1>19. \A b \in Int : bit(b) \in Nat
  OBVIOUS
<1>20. B \in SUBSET (0 .. 15)
  BY DEF Bits16
<1> HIDE DEF B, bit, q0, q1, q2, q3, q4, q5, q6, q7, q8, q9, q10, q11, q12, q13, q14, q15, q16
<1>21. q0 = 16 * q4 + (bit(0) + 2 * bit(1) + 4 * bit(2) + 8 * bit(3))
  BY <1>1, <1>2, <1>3, <1>4, <1>17, <1>5, <1>19
<1>22. q4 = 16 * q8 + (bit(4) + 2 * bit(5) + 4 * bit(6) + 8 * bit(7))
  BY <1>5, <1>6, <1>7, <1>8, <1>17, <1>9, <1>19
<1>23. q8 = 16 * q12 + (bit(8) + 2 * bit(9) + 4 * bit(10) + 8 * bit(11))
  BY <1>9, <1>10, <1>11, <1>12, <1>17, <1>13, <1>19
<1>24. q12 = 16 * q16 + (bit(12) + 2 * bit(13) + 4 * bit(14) + 8 * bit(15))
  BY <1>13, <1>14, <1>15, <1>16, <1>17, <1>19
<1>25. Weight(B) = n
  BY <1>1, <1>5, <1>9, <1>13, <1>17, <1>18, <1>19, <1>21, <1>22, <1>23, <1>24
<1>26. Value(B) = n
  BY <1>20, <1>25, ValueIs
<1> QED
  BY <1>20, <1>26 DEF B

-----------------------------------------------------------------------------
(* The checksum.                                                           *)

Word == {n \in Nat : n <= 65535}

\* One word is added, and the carry brought around.
NextSum(sum, high, low) == EndAroundCarry(sum + 256 * Value(high) + Value(low))

\* The sum keeps its 16 bits.
LEMMA NextSumType ==
    ASSUME NEW sum \in Word, NEW high \in Byte, NEW low \in Byte
    PROVE  NextSum(sum, high, low) \in Word
<1> DEFINE h == Value(high)
           l == Value(low)
           total == sum + 256 * h + l
<1>1. h \in Nat /\ h <= 255 /\ l \in Nat /\ l <= 255 /\ sum \in Nat /\ sum <= 65535
  BY ValueType DEF Word
<1> HIDE DEF h, l
<1>2. total \in Nat /\ total <= 131070
  BY <1>1
<1> HIDE DEF total
<1>3. EndAroundCarry(total) \in Nat /\ EndAroundCarry(total) <= 65535
  BY <1>2 DEF EndAroundCarry
<1> QED
  BY <1>3 DEF NextSum, total, h, l, Word

\* The sums after so many words, as ones_comp_sum defines them.
IsSums(sum, data, len) ==
    sum = [words \in 0 .. (len + 1) \div 2 |->
             IF words = 0
               THEN 0
               ELSE NextSum(sum[words - 1], data[2 * words - 2], data[2 * words - 1])]

\* One step of their recursion.
LEMMA SumsUnfold ==
    ASSUME NEW sum, NEW data, NEW len \in Nat, IsSums(sum, data, len)
    PROVE  /\ sum[0] = 0
           /\ \A k \in 1 .. (len + 1) \div 2 :
                 sum[k] = NextSum(sum[k - 1], data[2 * k - 2], data[2 * k - 1])
           /\ sum = [k \in 0 .. (len + 1) \div 2 |-> sum[k]]
<1> DEFINE n == (len + 1) \div 2
           f == [words \in 0 .. n |->
                   IF words = 0
                     THEN 0
                     ELSE NextSum(sum[words - 1], data[2 * words - 2], data[2 * words - 1])]
<1>1. sum = f
  BY DEF IsSums
<1>2. n \in Nat
  OBVIOUS
<1> HIDE DEF n
<1>3. f[0] = 0
  BY <1>2
<1>4. \A k \in 1 .. n : f[k] = NextSum(sum[k - 1], data[2 * k - 2], data[2 * k - 1])
  BY <1>2
<1>5. f = [k \in 0 .. n |-> f[k]]
  OBVIOUS
<1> HIDE DEF f
<1>6. /\ sum[0] = 0
      /\ \A k \in 1 .. n : sum[k] = NextSum(sum[k - 1], data[2 * k - 2], data[2 * k - 1])
      /\ sum = [k \in 0 .. n |-> sum[k]]
  BY <1>1, <1>3, <1>4, <1>5
<1> QED
  BY <1>6 DEF n

\* Where the bytes of a word are; the last one may lie just beyond the region.
LEMMA WordBytes ==
    ASSUME NEW len \in Nat, NEW k \in 1 .. (len + 1) \div 2
    PROVE  2 * k - 2 \in 0 .. len /\ 2 * k - 1 \in 0 .. len
OBVIOUS

\* ones_comp_sum runs one such function through, which exists.
LEMMA SumsExist ==
    ASSUME NEW len \in Nat, NEW data, \A k \in 0 .. len : data[k] \in Byte
    PROVE  \E sum \in [0 .. (len + 1) \div 2 -> Word] :
              /\ IsSums(sum, data, len)
              /\ ones_comp_sum(data, len) = sum[(len + 1) \div 2]
<1> DEFINE n == (len + 1) \div 2
           more == [k \in Nat |-> [s \in Word |->
                      IF k \in 1 .. n THEN NextSum(s, data[2 * k - 2], data[2 * k - 1])
                                      ELSE s]]
<1>1. n \in Nat /\ 0 \in Word
  BY DEF Word
<1>2. \A k \in 1 .. n : data[2 * k - 2] \in Byte /\ data[2 * k - 1] \in Byte
  BY WordBytes
<1>3. \A k \in 1 .. n : \A s \in Word :
         NextSum(s, data[2 * k - 2], data[2 * k - 1]) \in Word
  BY <1>2, NextSumType
<1> HIDE DEF n
<1>4. more \in [Nat -> [Word -> Word]]
  BY <1>3
<1> HIDE DEF more
<1>5. PICK f : Runs(f, n, Word, 0, more)
  BY <1>1, <1>4, Recursion
<1>6. ASSUME NEW k \in 1 .. n
      PROVE  f[k] = NextSum(f[k - 1], data[2 * k - 2], data[2 * k - 1])
  <2>1. k \in Nat /\ k - 1 \in 0 .. n
    BY <1>1
  <2>2. f[k] = more[k][f[k - 1]] /\ f[k - 1] \in Word
    BY <2>1, <1>5 DEF Runs
  <2> QED
    BY <2>1, <2>2 DEF more
<1>7. IsSums(f, data, len)
  <2>1. f = [k \in 0 .. n |-> f[k]] /\ f[0] = 0
    BY <1>5 DEF Runs
  <2>2. ASSUME NEW k \in 0 .. n
        PROVE  f[k] = IF k = 0 THEN 0
                               ELSE NextSum(f[k - 1], data[2 * k - 2], data[2 * k - 1])
    <3>1. CASE k = 0
      BY <3>1, <2>1
    <3>2. CASE k # 0
      <4>1. k \in 1 .. n
        BY <3>2, <1>1
      <4> QED
        BY <3>2, <4>1, <1>6
    <3> QED
      BY <3>1, <3>2
  <2>3. f = [k \in 0 .. n |->
               IF k = 0 THEN 0 ELSE NextSum(f[k - 1], data[2 * k - 2], data[2 * k - 1])]
    BY <2>1, <2>2
  <2> QED
    BY <2>3 DEF IsSums, n
<1> DEFINE sum == CHOOSE s : IsSums(s, data, len)
<1>8. IsSums(sum, data, len)
  BY <1>7
<1>9. ones_comp_sum(data, len) = sum[n]
  BY DEF ones_comp_sum, IsSums, NextSum, n
<1> HIDE DEF sum
<1>10. /\ sum[0] = 0
       /\ \A k \in 1 .. n : sum[k] = NextSum(sum[k - 1], data[2 * k - 2], data[2 * k - 1])
       /\ sum = [k \in 0 .. n |-> sum[k]]
  BY <1>8, SumsUnfold DEF n
<1> DEFINE S == {k \in 0 .. n : sum[k] \in Word}
<1>11. 0 .. n \subseteq S
  <2>1. 0 \in S
    BY <1>1, <1>10
  <2>2. ASSUME NEW k \in 1 .. n, k - 1 \in S PROVE k \in S
    <3>1. sum[k - 1] \in Word /\ k \in 0 .. n
      BY <2>2, <1>1
    <3>2. NextSum(sum[k - 1], data[2 * k - 2], data[2 * k - 1]) \in Word
      BY <3>1, <1>3
    <3> QED
      BY <3>1, <3>2, <1>10
  <2> HIDE DEF S
  <2>3. \A k \in 1 .. n : k - 1 \in S => k \in S
    BY <2>2
  <2> QED
    BY <1>1, <2>1, <2>3, InductionUpTo
<1>12. sum \in [0 .. n -> Word]
  BY <1>10, <1>11
<1> QED
  BY <1>8, <1>9, <1>12 DEF n

\* The sum depends on nothing beyond the region and the byte after it, and is a word.
LEMMA SumIsLocal ==
    ASSUME NEW len \in Nat, NEW data, NEW other,
           \A k \in 0 .. len : data[k] \in Byte /\ other[k] = data[k]
    PROVE  /\ ones_comp_sum(other, len) = ones_comp_sum(data, len)
           /\ ones_comp_sum(data, len) \in Word
<1> DEFINE n == (len + 1) \div 2
<1>1. PICK r \in [0 .. n -> Word] :
         IsSums(r, data, len) /\ ones_comp_sum(data, len) = r[n]
  BY SumsExist
<1>2. PICK s \in [0 .. n -> Word] :
         IsSums(s, other, len) /\ ones_comp_sum(other, len) = s[n]
  BY SumsExist
<1>3. n \in Nat /\ \A k \in 1 .. n : 2 * k - 2 \in 0 .. len /\ 2 * k - 1 \in 0 .. len
  BY WordBytes
<1>4. /\ r[0] = 0
      /\ \A k \in 1 .. n : r[k] = NextSum(r[k - 1], data[2 * k - 2], data[2 * k - 1])
  BY <1>1, SumsUnfold
<1>5. /\ s[0] = 0
      /\ \A k \in 1 .. n : s[k] = NextSum(s[k - 1], other[2 * k - 2], other[2 * k - 1])
  BY <1>2, SumsUnfold
<1> HIDE DEF n
<1> DEFINE S == {k \in 0 .. n : r[k] = s[k]}
<1>6. 0 .. n \subseteq S
  <2>1. 0 \in S
    BY <1>3, <1>4, <1>5
  <2>2. ASSUME NEW k \in 1 .. n, k - 1 \in S PROVE k \in S
    <3>1. r[k - 1] = s[k - 1] /\ k \in 0 .. n
      BY <2>2, <1>3
    <3>2. other[2 * k - 2] = data[2 * k - 2] /\ other[2 * k - 1] = data[2 * k - 1]
      BY <1>3
    <3> QED
      BY <3>1, <3>2, <1>4, <1>5
  <2> HIDE DEF S
  <2>3. \A k \in 1 .. n : k - 1 \in S => k \in S
    BY <2>2
  <2> QED
    BY <1>3, <2>1, <2>3, InductionUpTo
<1>7. r[n] = s[n] /\ r[n] \in Word
  BY <1>3, <1>6
<1> QED
  BY <1>1, <1>2, <1>7

\* The complement of the sum has 16 bits, and added to the sum gives 16 ones.
LEMMA ChecksumVerifies ==
    ASSUME NEW len \in Nat, NEW data, NEW other,
           \A k \in 0 .. len : data[k] \in Byte /\ other[k] = data[k]
    PROVE  /\ checksum16_compute(data, len) \in SUBSET (0 .. 15)
           /\ checksum16_verify(other, len, checksum16_compute(data, len))
<1> DEFINE sum == ones_comp_sum(data, len)
           fcs == Bits16(65535 - sum)
<1>1. sum \in Nat /\ sum <= 65535 /\ ones_comp_sum(other, len) = sum
  BY SumIsLocal DEF Word
<1> HIDE DEF sum
<1>2. 65535 - sum \in Nat /\ 65535 - sum <= 65535
  BY <1>1
<1>3. fcs \in SUBSET (0 .. 15) /\ Value(fcs) = 65535 - sum
  BY <1>2, BitsOfNumber
<1>4. checksum16_compute(data, len) = fcs
  BY DEF checksum16_compute, sum
<1> HIDE DEF fcs
<1>5. fcs \cap (0 .. 15) = fcs
  <2> DEFINE low == 0 .. 15
  <2>1. fcs \in SUBSET low
    BY <1>3
  <2> HIDE DEF low
  <2>2. fcs \cap low = fcs
    BY <2>1
  <2> QED
    BY <2>2 DEF low
<1>6. sum + (65535 - sum) = 65535
  BY <1>1
<1>7. EndAroundCarry(65535) = 65535
  BY DEF EndAroundCarry
<1>8. checksum16_verify(other, len, fcs)
  BY <1>1, <1>3, <1>5, <1>6, <1>7 DEF checksum16_verify
<1> QED
  BY <1>3, <1>4, <1>8

-----------------------------------------------------------------------------
(* The frames.                                                             *)

FrameBytes == [0 .. FRAME_SIZE - 1 -> Byte]

\* The region is at least the header, the trailer four bytes more.
LEMMA Sizes ==
    /\ PAYLOAD_SIZE \in Nat /\ PAYLOAD_SIZE > 0
    /\ REGION_LEN = 17 + PAYLOAD_SIZE /\ FRAME_SIZE = REGION_LEN + 4
    /\ REGION_LEN \in Nat /\ FRAME_SIZE \in Nat
BY PayloadAssumption DEF REGION_LEN, FRAME_SIZE, HEADER_SIZE, TRAILER_SIZE

\* What clean_frame builds is a frame of bytes, with a zero trailer.
LEMMA CleanFrame ==
    ASSUME NEW len \in Nat, len <= PAYLOAD_SIZE, NEW number, NEW payload,
           \A k \in 0 .. len - 1 : payload[k] \in Byte
    PROVE  /\ clean_frame(payload, len, number) \in FrameBytes
           /\ clean_frame(payload, len, number)[REGION_LEN] = {}
<1> DEFINE f == clean_frame(payload, len, number)
           place(k) == CASE k \in 1 .. 6   -> SrcByte
                         [] k \in 7 .. 12  -> DestByte
                         [] k \in 13 .. 14 -> BigEndianByte(Bits16(len), k - 13, 2)
                         [] k \in 15 .. 16 -> BigEndianByte(Bits16(number), k - 15, 2)
                         [] k \in HEADER_SIZE .. HEADER_SIZE + len - 1 ->
                               payload[k - HEADER_SIZE]
                         [] OTHER -> {}
<1>1. f = [k \in 0 .. FRAME_SIZE - 1 |-> place(k)]
  BY DEF clean_frame
<1>2. /\ SrcByte \in Byte /\ DestByte \in Byte /\ {} \in Byte
      /\ \A bits, n : BigEndianByte(bits, n, 2) \in Byte
  BY DEF SrcByte, DestByte, BigEndianByte, Byte
<1>3. ASSUME NEW k \in Nat PROVE place(k) \in Byte
  <2>1. CASE k \in HEADER_SIZE .. HEADER_SIZE + len - 1
    <3>1. /\ k - HEADER_SIZE \in 0 .. len - 1
          /\ k \notin 1 .. 6 /\ k \notin 7 .. 12 /\ k \notin 13 .. 14 /\ k \notin 15 .. 16
      BY <2>1 DEF HEADER_SIZE
    <3> QED
      BY <2>1, <3>1, Zenon
  <2>2. CASE k \notin HEADER_SIZE .. HEADER_SIZE + len - 1
    BY <2>2, <1>2, Zenon
  <2> QED
    BY <2>1, <2>2
<1>4. place(REGION_LEN) = {}
  <2>1. /\ REGION_LEN \notin 1 .. 6 /\ REGION_LEN \notin 7 .. 12
        /\ REGION_LEN \notin 13 .. 14 /\ REGION_LEN \notin 15 .. 16
        /\ REGION_LEN \notin HEADER_SIZE .. HEADER_SIZE + len - 1
    BY Sizes DEF HEADER_SIZE
  <2> QED
    BY <2>1, Zenon
<1>5. REGION_LEN \in 0 .. FRAME_SIZE - 1 /\ \A k \in 0 .. FRAME_SIZE - 1 : k \in Nat
  BY Sizes
<1> HIDE DEF f, place
<1>6. f \in FrameBytes /\ f[REGION_LEN] = {}
  BY <1>1, <1>3, <1>4, <1>5 DEF FrameBytes
<1> QED
  BY <1>6 DEF f

\* The trailer takes the FCS and nothing else changes.
LEMMA SealedFrame ==
    ASSUME NEW f \in FrameBytes, NEW fcs \in Register
    PROVE  /\ Sealed(f, fcs) \in FrameBytes
           /\ \A k \in 0 .. REGION_LEN - 1 : Sealed(f, fcs)[k] = f[k]
           /\ \A k \in 0 .. 3 : Sealed(f, fcs)[REGION_LEN + k] = BigEndianByte(fcs, k, 4)
<1> DEFINE s == Sealed(f, fcs)
<1>1. s = [k \in 0 .. FRAME_SIZE - 1 |->
             IF k < REGION_LEN THEN f[k] ELSE BigEndianByte(fcs, k - REGION_LEN, 4)]
  BY DEF Sealed
<1>2. \A k : BigEndianByte(fcs, k, 4) \in Byte
  BY DEF BigEndianByte, Byte
<1>3. s \in FrameBytes
  BY <1>1, <1>2 DEF FrameBytes
<1>4. ASSUME NEW k \in 0 .. REGION_LEN - 1 PROVE s[k] = f[k]
  <2>1. k \in 0 .. FRAME_SIZE - 1 /\ k < REGION_LEN
    BY Sizes
  <2> QED
    BY <1>1, <2>1
<1>5. ASSUME NEW k \in 0 .. 3 PROVE s[REGION_LEN + k] = BigEndianByte(fcs, k, 4)
  <2>1. /\ REGION_LEN + k \in 0 .. FRAME_SIZE - 1 /\ ~ (REGION_LEN + k < REGION_LEN)
        /\ (REGION_LEN + k) - REGION_LEN = k
    BY Sizes
  <2> QED
    BY <1>1, <2>1
<1> QED
  BY <1>3, <1>4, <1>5

\* htonl and back: the receiver finds the FCS that the sender stored.
LEMMA FcsSurvives ==
    ASSUME NEW f \in FrameBytes, NEW fcs \in Register
    PROVE  ReceivedFcs(Sealed(f, fcs)) = fcs
<1> DEFINE s == Sealed(f, fcs)
<1>1. \A k \in 0 .. 3 : s[REGION_LEN + k] = BigEndianByte(fcs, k, 4)
  BY SealedFrame
<1> HIDE DEF s
<1>2. ASSUME NEW b \in 0 .. 31
      PROVE  b % 8 \in s[REGION_LEN + 3 - b \div 8] <=> b \in fcs
  <2>1. /\ 3 - b \div 8 \in 0 .. 3 /\ b % 8 \in 0 .. 7
        /\ 8 * (4 - 1 - (3 - b \div 8)) + (b % 8) = b
    <3> DEFINE q == b \div 8
               m == b % 8
    <3>1. q \in 0 .. 3 /\ m \in 0 .. 7 /\ b = 8 * q + m
      OBVIOUS
    <3> HIDE DEF q, m
    <3>2. 3 - q \in 0 .. 3 /\ 8 * (4 - 1 - (3 - q)) + m = b
      BY <3>1
    <3> QED
      BY <3>1, <3>2 DEF q, m
  <2>2. REGION_LEN + 3 - b \div 8 = REGION_LEN + (3 - b \div 8)
    BY Sizes
  <2>3. s[REGION_LEN + 3 - b \div 8] = BigEndianByte(fcs, 3 - b \div 8, 4)
    BY <1>1, <2>1, <2>2
  <2>4. b % 8 \in BigEndianByte(fcs, 3 - b \div 8, 4) <=> b \in fcs
    BY <2>1 DEF BigEndianByte
  <2> QED
    BY <2>3, <2>4
<1>3. \A b \in fcs : b \in 0 .. 31
  BY DEF Register
<1>4. ReceivedFcs(s) = {b \in 0 .. 31 : b % 8 \in s[REGION_LEN + 3 - b \div 8]}
  BY DEF ReceivedFcs
<1>5. ReceivedFcs(s) = fcs
  BY <1>2, <1>3, <1>4
<1> QED
  BY <1>5 DEF s

\* No error, no change.
LEMMA NothingFlipped ==
    ASSUME NEW f \in FrameBytes
    PROVE  Flipped(f, {}) = f
<1>1. \A k : {b \in 0 .. 7 : 8 * k + b \in {}} = {}
  OBVIOUS
<1>2. \A A : SymDiff(A, {}) = A
  BY DEF SymDiff
<1>3. f = [k \in 0 .. FRAME_SIZE - 1 |-> f[k]]
  BY DEF FrameBytes
<1> QED
  BY <1>1, <1>2, <1>3 DEF Flipped

\* A frame that arrives as it was sent verifies, whichever the code.
THEOREM UndamagedVerifies ==
    ASSUME NEW s \in Scheme, NEW f \in FrameBytes, f[REGION_LEN] = {}
    PROVE  LET fcs   == compute_fcs(s, f, REGION_LEN)
               frame == Flipped(Sealed(f, fcs), {})
           IN  /\ fcs \in Register
               /\ frame = Sealed(f, fcs)
               /\ verify_fcs(s, frame, REGION_LEN, ReceivedFcs(frame))
<1> DEFINE fcs == compute_fcs(s, f, REGION_LEN)
           frame == Sealed(f, fcs)
<1>1. /\ REGION_LEN \in Nat
      /\ \A k \in 0 .. REGION_LEN : f[k] \in Byte
      /\ \A k \in 0 .. REGION_LEN - 1 : k \in 0 .. REGION_LEN
  BY Sizes DEF FrameBytes
<1>2. CASE s = "checksum"
  <2>1. fcs = checksum16_compute(f, REGION_LEN)
    BY <1>2 DEF compute_fcs
  <2>2. fcs \in SUBSET (0 .. 15)
    BY <2>1, <1>1, ChecksumVerifies
  <2> HIDE DEF fcs
  <2>3. fcs \in Register
    BY <2>2 DEF Register
  <2>4. frame[REGION_LEN] = {}
    <3>1. frame[REGION_LEN + 0] = BigEndianByte(fcs, 0, 4)
      BY <2>3, SealedFrame
    <3>2. \A b \in 0 .. 7 : 8 * (4 - 1 - 0) + b \notin 0 .. 15
      OBVIOUS
    <3>3. BigEndianByte(fcs, 0, 4) = {}
      BY <2>2, <3>2 DEF BigEndianByte
    <3> QED
      BY <3>1, <3>3, Sizes
  <2>5. \A k \in 0 .. REGION_LEN : f[k] \in Byte /\ frame[k] = f[k]
    <3>1. \A k \in 0 .. REGION_LEN : k = REGION_LEN \/ k \in 0 .. REGION_LEN - 1
      BY Sizes
    <3> QED
      BY <3>1, <1>1, <2>3, <2>4, SealedFrame
  <2>6. checksum16_verify(frame, REGION_LEN, fcs)
    BY <2>1, <2>5, <1>1, ChecksumVerifies
  <2>7. ReceivedFcs(frame) = fcs /\ Flipped(frame, {}) = frame
    BY <2>3, FcsSurvives, SealedFrame, NothingFlipped
  <2>8. verify_fcs(s, frame, REGION_LEN, fcs)
    BY <1>2, <2>6 DEF verify_fcs
  <2> QED
    BY <2>3, <2>7, <2>8 DEF fcs
<1>3. CASE s # "checksum"
  <2> DEFINE g == crc_generator(s)
  <2>1. Generator(g)
    BY <1>3, Generators DEF Scheme
  <2>2. fcs = crc_compute(f, REGION_LEN, g)
    BY <1>3 DEF compute_fcs
  <2> HIDE DEF g, fcs
  <2>3. fcs \in Register
    BY <1>1, <2>1, <2>2, CrcIsLocal
  <2>4. \A k \in 0 .. REGION_LEN - 1 : f[k] \in Byte /\ frame[k] = f[k]
    BY <1>1, <2>3, SealedFrame
  <2>5. crc_compute(frame, REGION_LEN, g) = fcs
    BY <1>1, <2>1, <2>2, <2>4, CrcIsLocal
  <2>6. ReceivedFcs(frame) = fcs /\ Flipped(frame, {}) = frame
    BY <2>3, FcsSurvives, SealedFrame, NothingFlipped
  <2>7. verify_fcs(s, frame, REGION_LEN, fcs)
    BY <1>3, <2>5 DEF verify_fcs, crc_verify, g
  <2> QED
    BY <2>3, <2>6, <2>7 DEF fcs
<1> QED
  BY <1>2, <1>3

-----------------------------------------------------------------------------
(* The two programs.                                                       *)

\* The frames in the connection that are complete: all but a half frame at its end.
Complete == IF wire # << >> /\ wire[Len(wire)] = Half THEN Len(wire) - 1 ELSE Len(wire)

\* The frames that have left the connection.
Handled == Len(output) + rejected

\* A message is numbered, fits into a frame and was sealed by the sender.
Good(m, number) ==
    /\ m \in Message
    /\ m.seq = number
    /\ Len(m.chunk) <= PAYLOAD_SIZE
    /\ m.fcs = compute_fcs(scheme, Built(m), REGION_LEN)

\* The connection holds the frames that follow those handled, up to the last one sent;
\* only a sender that was killed leaves half a frame behind them.
WireOK ==
    /\ wire \in Seq(Message \cup {Half})
    /\ \A k \in 1 .. Complete : Good(wire[k], Handled + k - 1)
    /\ Complete # Len(wire) => spc # "send"
    /\ rpc # "failed" => Handled + Complete = seq
    /\ rpc = "failed" => wire = << >>

\* The output is in order and holds only frames that have left the connection.
OutputOK ==
    /\ \A i \in DOMAIN output : output[i].seq < Handled
    /\ \A i, j \in DOMAIN output : i < j => output[i].seq < output[j].seq

Unclean == {i \in DOMAIN output : ~ output[i].clean}

\* Every frame that is missing or altered was hit.
CountOK == rejected + Cardinality(Unclean) <= hits

IInv == TypeOK /\ seq <= offset /\ WireOK /\ OutputOK /\ CountOK

\* A chunk of the file is not empty and fits into a frame.
LEMMA ChunkFits ==
    ASSUME TypeOK, offset < Len(File)
    PROVE  ChunkLen \in Nat /\ 1 <= ChunkLen /\ ChunkLen <= PAYLOAD_SIZE
           /\ offset + ChunkLen <= Len(File)
<1> DEFINE a == Len(File) - offset
           S == {a, PAYLOAD_SIZE}
<1>1. /\ offset \in Nat /\ Len(File) \in Nat
      /\ a \in Nat /\ a >= 1 /\ PAYLOAD_SIZE \in Nat /\ PAYLOAD_SIZE >= 1
  BY FileAssumption, Sizes DEF TypeOK
<1>2. ChunkLen = CHOOSE x \in S : \A y \in S : x <= y
  BY DEF ChunkLen, Min
<1>3. \E x \in S : \A y \in S : x <= y
  <2> HIDE DEF a
  <2> QED
    BY <1>1
<1>4. ChunkLen \in S /\ \A y \in S : ChunkLen <= y
  <2> HIDE DEF S
  <2> QED
    BY <1>2, <1>3
<1>5. ChunkLen <= a /\ ChunkLen <= PAYLOAD_SIZE /\ (ChunkLen = a \/ ChunkLen = PAYLOAD_SIZE)
  BY <1>4
<1> HIDE DEF S
<1> QED
  BY <1>1, <1>5

\* What is built of a message is a frame.
LEMMA BuiltFrame ==
    ASSUME NEW m, m.chunk \in Seq(Byte), Len(m.chunk) <= PAYLOAD_SIZE
    PROVE  Built(m) \in FrameBytes /\ Built(m)[REGION_LEN] = {}
<1> DEFINE len == Len(m.chunk)
           payload == [i \in 0 .. len - 1 |-> m.chunk[i + 1]]
<1>1. len \in Nat
  OBVIOUS
<1>2. ASSUME NEW k \in 0 .. len - 1 PROVE payload[k] \in Byte
  <2>1. k + 1 \in 1 .. Len(m.chunk)
    BY <1>1
  <2> QED
    BY <2>1
<1>3. Built(m) = clean_frame(payload, len, m.seq)
  BY DEF Built
<1> HIDE DEF payload
<1> QED
  BY <1>1, <1>2, <1>3, CleanFrame

\* The frame of a good message, unless it is hit, verifies and holds what was sent.
LEMMA GoodArrives ==
    ASSUME NEW m, NEW number, scheme \in Scheme, Good(m, number)
    PROVE  LET frame == Flipped(Sealed(Built(m), m.fcs), {})
           IN  /\ verify_fcs(scheme, frame, REGION_LEN, ReceivedFcs(frame))
               /\ IsClean(frame, m)
<1> DEFINE frame == Flipped(Sealed(Built(m), m.fcs), {})
<1>1. m.chunk \in Seq(Byte) /\ Len(m.chunk) <= PAYLOAD_SIZE
  BY DEF Good, Message
<1>2. Built(m) \in FrameBytes /\ Built(m)[REGION_LEN] = {}
  BY <1>1, BuiltFrame
<1>3. m.fcs = compute_fcs(scheme, Built(m), REGION_LEN)
  BY DEF Good
<1>4. /\ m.fcs \in Register /\ frame = Sealed(Built(m), m.fcs)
      /\ verify_fcs(scheme, frame, REGION_LEN, ReceivedFcs(frame))
  BY <1>2, <1>3, UndamagedVerifies
<1>5. \A k \in 0 .. REGION_LEN - 1 : frame[k] = Built(m)[k]
  BY <1>2, <1>4, SealedFrame
<1>6. IsClean(frame, m)
  BY <1>5, Sizes DEF IsClean
<1> QED
  BY <1>4, <1>6

\* An error only flips bits of the frame.
LEMMA DamageType ==
    ASSUME NEW f, scheme \in Scheme, NEW d \in {NoDamage} \cup Damages(f)
    PROVE  d.error \subseteq BitOfFrame
<1>1. \A k \in Nat : k < 8 * REGION_LEN => k \in BitOfFrame
  BY Sizes DEF BitOfFrame
<1>2. ASSUME NEW e \in SingleFlips PROVE e \subseteq BitOfFrame
  BY <1>2 DEF SingleFlips
<1>3. ASSUME NEW e \in CompensatingErrors(f) PROVE e \subseteq BitOfFrame
  <2> DEFINE Bit(word, c) == IF c < 8 THEN 8 * (2 * word + 1) + c ELSE 8 * (2 * word) + c - 8
  <2>1. ASSUME NEW w \in Words, NEW c \in 0 .. 15 PROVE Bit(w, c) \in BitOfFrame
    <3>1. w \in Nat /\ 2 * w + 2 <= REGION_LEN
      <4>1. w \in Nat /\ w <= (REGION_LEN \div 2) - 1 /\ REGION_LEN \in Nat
        BY WordsAssumption, Sizes
      <4> QED
        BY <4>1
    <3>2. Bit(w, c) \in Nat /\ Bit(w, c) < 8 * REGION_LEN
      BY <3>1, Sizes
    <3> HIDE DEF Bit
    <3> QED
      BY <3>2, <1>1
  <2>2. \E v, w \in Words, c \in 0 .. 15 : e = {Bit(v, c), Bit(w, c)}
    BY <1>3 DEF CompensatingErrors
  <2> HIDE DEF Bit
  <2> QED
    BY <2>1, <2>2
<1>4. ASSUME NEW length \in Nat, NEW e \in Bursts(length) PROVE e \subseteq BitOfFrame
  <2>1. PICK i \in 0 .. 8 * REGION_LEN - length : e = i .. i + length - 1
    BY <1>4 DEF Bursts
  <2>2. \A k \in i .. i + length - 1 : k \in Nat /\ k < 8 * REGION_LEN
    BY Sizes
  <2> QED
    BY <2>1, <2>2, <1>1
<1>5. ASSUME NEW g, Generator(g) PROVE GeneratorMultiple(g) \subseteq BitOfFrame
  <2>1. ASSUME NEW k \in 0 .. g.degree PROVE 8 * (k \div 8) + 7 - (k % 8) \in BitOfFrame
    <3> DEFINE q == k \div 8
               r == k % 8
    <3>1. g.degree \in Nat /\ g.degree <= 32
      BY <1>5 DEF Generator
    <3>2. q \in Nat /\ r \in 0 .. 7 /\ k = 8 * q + r /\ k <= 32
      BY <3>1
    <3> HIDE DEF q, r
    <3>3. 8 * q + 7 - r \in Nat /\ 8 * q + 7 - r < 8 * REGION_LEN
      BY <3>2, Sizes
    <3>4. 8 * q + 7 - r \in BitOfFrame
      BY <3>3, <1>1
    <3> QED
      BY <3>4 DEF q, r
  <2> QED
    BY <2>1 DEF GeneratorMultiple
<1>6. CASE d = NoDamage
  BY <1>6 DEF NoDamage
<1>7. CASE d \in {[kind |-> "flip", error |-> e] : e \in SingleFlips}
            \/ d \in {[kind |-> "compensating", error |-> e] : e \in CompensatingErrors(f)}
  BY <1>7, <1>2, <1>3
<1>8. CASE scheme # "checksum"
            /\ LET g == crc_generator(scheme)
               IN  \/ d \in {[kind |-> "burst", error |-> e] :
                               e \in Bursts(g.degree) \cup Bursts(g.degree + 1)}
                   \/ d = [kind |-> "multiple", error |-> GeneratorMultiple(g)]
  <2> DEFINE g == crc_generator(scheme)
  <2>1. Generator(g)
    BY <1>8, Generators DEF Scheme
  <2>2. g.degree \in Nat /\ g.degree + 1 \in Nat
    BY <2>1 DEF Generator
  <2>3. \/ \E e \in Bursts(g.degree) \cup Bursts(g.degree + 1) : d.error = e
        \/ d.error = GeneratorMultiple(g)
    BY <1>8
  <2> HIDE DEF g
  <2> QED
    BY <2>1, <2>2, <2>3, <1>4, <1>5
<1> QED
  BY <1>6, <1>7, <1>8 DEF Damages

\* It holds at first.
LEMMA InitInv == Init => IInv
<1> SUFFICES ASSUME Init PROVE IInv
  OBVIOUS
<1>1. Len(File) \in Nat /\ MaxHits \in Nat
  BY FileAssumption, MaxHitsAssumption
<1>2. TypeOK /\ seq <= offset
  BY <1>1 DEF Init, TypeOK
<1>3. wire = << >> /\ output = << >> /\ rejected = 0 /\ seq = 0 /\ hits = 0 /\ rpc = "open"
  BY DEF Init
<1>4. Complete = 0 /\ Handled = 0 /\ Len(wire) = 0
  BY <1>3 DEF Complete, Handled
<1>5. WireOK
  <2>1. wire \in Seq(Message \cup {Half})
    BY <1>3
  <2> QED
    BY <2>1, <1>3, <1>4 DEF WireOK
<1>6. OutputOK
  BY <1>3 DEF OutputOK
<1>7. Unclean = {}
  BY <1>3 DEF Unclean
<1>8. CountOK
  BY <1>3, <1>7, FS_EmptySet DEF CountOK
<1> QED
  BY <1>2, <1>5, <1>6, <1>8 DEF IInv

\* The counts are natural numbers.
LEMMA Counts ==
    ASSUME TypeOK, WireOK
    PROVE  /\ Handled \in Nat /\ Complete \in Nat /\ Len(wire) \in Nat
           /\ Complete = Len(wire) \/ Complete = Len(wire) - 1
           /\ Complete <= Len(wire)
           /\ Complete = Len(wire) <=> (wire = << >> \/ wire[Len(wire)] # Half)
<1>1. Len(output) \in Nat /\ rejected \in Nat /\ Len(wire) \in Nat
  BY DEF TypeOK, WireOK
<1>2. wire # << >> => Len(wire) >= 1
  BY DEF WireOK
<1>3. wire = << >> => Len(wire) = 0
  OBVIOUS
<1> QED
  BY <1>1, <1>2, <1>3 DEF Handled, Complete

\* A step that leaves the connection and the output alone.
LEMMA WireKept ==
    ASSUME WireOK, TypeOK, UNCHANGED <<scheme, seq, wire, output, rejected>>,
           spc' # "send" \/ spc' = spc,
           rpc' = "failed" => rpc = "failed",
           rpc = "failed" => rpc' = "failed"
    PROVE  WireOK'
<1>1. Complete' = Complete /\ Handled' = Handled
  BY DEF Complete, Handled
<1>2. \A m, n : Good(m, n)' <=> Good(m, n)
  BY DEF Good
<1> QED
  BY <1>1, <1>2 DEF WireOK

\* A step that leaves the output and the hits alone leaves OutputOK alone.
LEMMA OutputKept ==
    ASSUME OutputOK, CountOK, UNCHANGED <<output, rejected, hits>>
    PROVE  OutputOK' /\ CountOK'
BY DEF OutputOK, CountOK, Handled, Unclean

\* The sender puts the next chunk behind those in the connection.
LEMMA SendInv == ASSUME IInv, Send PROVE IInv'
<1> USE DEF IInv
<1> DEFINE chunk == SubSeq(File, offset + 1, offset + ChunkLen)
           short == [seq |-> seq, chunk |-> chunk]
           m == [seq |-> seq, chunk |-> chunk,
                 fcs |-> compute_fcs(scheme, Built(short), REGION_LEN)]
<1>1. offset < Len(File) /\ spc = "send" /\ Len(File) \in Nat /\ offset \in Nat /\ seq \in Nat
  BY FileAssumption DEF Send, TypeOK
<1>2. /\ ChunkLen \in Nat /\ 1 <= ChunkLen /\ ChunkLen <= PAYLOAD_SIZE
      /\ offset + ChunkLen <= Len(File)
  BY <1>1, ChunkFits
<1>3. chunk \in Seq(Byte) /\ Len(chunk) = ChunkLen
  <2>1. offset + 1 \in 1 .. Len(File) /\ offset + ChunkLen \in Nat
        /\ (offset + ChunkLen) - (offset + 1) + 1 = ChunkLen
    BY <1>1, <1>2
  <2> QED
    BY <2>1, <1>1, <1>2, FileAssumption
<1> HIDE DEF chunk
<1>4. short.chunk = chunk /\ short.seq = seq /\ m.chunk = chunk /\ m.seq = seq
      /\ m.fcs = compute_fcs(scheme, Built(short), REGION_LEN)
  OBVIOUS
<1>5. Built(m) = Built(short)
  BY <1>4 DEF Built
<1>6. m.fcs \in Register
  <2>1. PAYLOAD_SIZE \in Nat
    BY Sizes
  <2>2. Built(short) \in FrameBytes /\ Built(short)[REGION_LEN] = {}
    BY <1>2, <1>3, <1>4, BuiltFrame
  <2>3. scheme \in Scheme
    BY DEF TypeOK
  <2> QED
    BY <2>2, <2>3, <1>4, UndamagedVerifies
<1>7. Good(m, seq) /\ m \in Message
  <2>1. seq \in 0 .. Len(File) - 1
    BY <1>1
  <2>2. m \in Message
    BY <2>1, <1>3, <1>6, <1>4 DEF Message
  <2> HIDE DEF m
  <2> QED
    BY <2>2, <1>2, <1>3, <1>4, <1>5 DEF Good
<1>8. /\ wire' = IF rpc = "failed" THEN << >> ELSE Append(wire, m)
      /\ seq' = seq + 1 /\ offset' = offset + ChunkLen /\ last' = Nothing
      /\ UNCHANGED <<scheme, spc, rpc, output, rejected, hits>>
  BY DEF Send, NextOffset, receiver, chunk
<1> HIDE DEF m, short
<1>9. seq' <= offset'
  BY <1>1, <1>2, <1>8
<1>10. wire' \in Seq(Message \cup {Half})
  BY <1>7, <1>8 DEF WireOK
<1>11. TypeOK'
  <2>1. seq' \in 0 .. Len(File) /\ offset' \in 0 .. Len(File)
    BY <1>1, <1>2, <1>8
  <2>2. \A k \in DOMAIN wire' : wire'[k] = Half \/ wire'[k] \in Message
    BY <1>10
  <2> QED
    BY <2>1, <2>2, <1>8 DEF TypeOK
<1>12. WireOK'
  <2>1. CASE rpc = "failed"
    <3>1. wire' = << >> /\ Len(wire') = 0
      BY <2>1, <1>8
    <3>2. Complete' = 0
      BY <3>1 DEF Complete
    <3> QED
      BY <3>1, <3>2, <2>1, <1>8, <1>10 DEF WireOK
  <2>2. CASE rpc # "failed"
    <3>1. wire' = Append(wire, m) /\ wire \in Seq(Message \cup {Half})
          /\ Complete = Len(wire) /\ Len(wire) \in Nat /\ Handled \in Nat
          /\ Handled + Complete = seq
      BY <2>2, <1>1, <1>8, Counts DEF WireOK
    <3>2. Len(wire') = Len(wire) + 1 /\ wire'[Len(wire')] = m /\ wire' # << >>
      BY <3>1, <1>7
    <3>3. m # Half
      BY <1>7, HalfAssumption
    <3>4. Complete' = Len(wire) + 1 /\ Handled' = Handled
      BY <3>2, <3>3, <1>8 DEF Complete, Handled
    <3>5. \A x, n : Good(x, n)' <=> Good(x, n)
      BY <1>8 DEF Good
    <3>6. ASSUME NEW k \in 1 .. Len(wire) + 1 PROVE Good(wire'[k], Handled + k - 1)
      <4>1. CASE k = Len(wire) + 1
        <5>1. Handled + k - 1 = seq /\ wire'[k] = m
          BY <4>1, <3>1, <3>2
        <5> QED
          BY <5>1, <1>7
      <4>2. CASE k # Len(wire) + 1
        <5>1. k \in 1 .. Complete /\ k \in 1 .. Len(wire) /\ wire'[k] = wire[k]
          BY <4>2, <3>1
        <5> QED
          BY <5>1 DEF WireOK
      <4> QED
        BY <4>1, <4>2
    <3>7. Handled + (Len(wire) + 1) = seq + 1
      BY <3>1, <1>1
    <3> QED
      BY <3>2, <3>4, <3>5, <3>6, <3>7, <2>2, <1>8, <1>10 DEF WireOK
  <2> QED
    BY <2>1, <2>2
<1>13. OutputOK' /\ CountOK'
  BY <1>8, OutputKept
<1> QED
  BY <1>9, <1>11, <1>12, <1>13

\* The sender ends, with or without a half frame.
LEMMA CloseInv == ASSUME IInv, Close PROVE IInv'
<1> USE DEF IInv
<1>1. /\ UNCHANGED <<scheme, seq, offset, wire, rpc, output, rejected, hits>>
      /\ spc' = "closed" /\ last' = Nothing
  BY DEF Close, receiver
<1>2. TypeOK' /\ seq' <= offset'
  BY <1>1 DEF TypeOK
<1>3. WireOK' /\ OutputOK' /\ CountOK'
  BY <1>1, WireKept, OutputKept
<1> QED
  BY <1>2, <1>3

\* The sender dies, perhaps in the middle of a frame.
LEMMA DieInv == ASSUME IInv, Die PROVE IInv'
<1> USE DEF IInv
<1>1. /\ UNCHANGED <<scheme, seq, offset, rpc, output, rejected, hits>>
      /\ spc = "send" /\ spc' = "died" /\ last' = Nothing
      /\ wire' = wire \/ (rpc # "failed" /\ wire' = Append(wire, Half))
  BY DEF Die, receiver
<1>2. OutputOK' /\ CountOK'
  BY <1>1, OutputKept
<1>3. CASE wire' = wire
  <2>1. TypeOK' /\ WireOK'
    BY <1>1, <1>3, WireKept DEF TypeOK
  <2> QED
    BY <2>1, <1>1, <1>2
<1>4. CASE rpc # "failed" /\ wire' = Append(wire, Half)
  <2>1. /\ wire \in Seq(Message \cup {Half}) /\ Complete = Len(wire) /\ Len(wire) \in Nat
        /\ Handled + Complete = seq
    BY <1>1, <1>4, Counts DEF WireOK
  <2>2. /\ wire' \in Seq(Message \cup {Half}) /\ Len(wire') = Len(wire) + 1
        /\ wire'[Len(wire')] = Half /\ wire' # << >>
    BY <2>1, <1>4
  <2>3. Complete' = Complete /\ Handled' = Handled
    BY <2>1, <2>2, <1>1 DEF Complete, Handled
  <2>4. \A x, n : Good(x, n)' <=> Good(x, n)
    BY <1>1 DEF Good
  <2>5. \A k \in 1 .. Complete : wire'[k] = wire[k]
    BY <2>1, <1>4
  <2>6. WireOK'
    BY <2>2, <2>3, <2>4, <2>5, <1>1, <1>4 DEF WireOK
  <2>7. \A k \in DOMAIN wire' : wire'[k] = Half \/ wire'[k] \in Message
    BY <2>2
  <2>8. TypeOK'
    BY <2>7, <1>1 DEF TypeOK
  <2> QED
    BY <2>6, <2>8, <1>1, <1>2
<1> QED
  BY <1>1, <1>3, <1>4

\* The receiver starts, or fails before it has read anything.
LEMMA OpenInv == ASSUME IInv, Open PROVE IInv'
<1> USE DEF IInv
<1>1. /\ UNCHANGED <<scheme, spc, seq, offset, output, rejected, hits>>
      /\ rpc = "open" /\ last' = Nothing
      /\ \/ rpc' = "recv" /\ wire' = wire
         \/ rpc' = "failed" /\ wire' = << >>
  BY DEF Open, sender
<1>2. OutputOK' /\ CountOK'
  BY <1>1, OutputKept
<1>3. TypeOK' /\ seq' <= offset'
  BY <1>1 DEF TypeOK
<1>4. CASE rpc' = "recv" /\ wire' = wire
  BY <1>1, <1>2, <1>3, <1>4, WireKept
<1>5. CASE rpc' = "failed" /\ wire' = << >>
  <2>1. Complete' = 0 /\ Len(wire') = 0
    BY <1>5 DEF Complete
  <2>2. wire' \in Seq(Message \cup {Half})
    BY <1>5
  <2>3. WireOK'
    BY <2>1, <2>2, <1>5 DEF WireOK
  <2> QED
    BY <2>3, <1>2, <1>3
<1> QED
  BY <1>1, <1>4, <1>5

\* The receiver meets the end of the stream.
LEMMA EofInv == ASSUME IInv, Eof PROVE IInv'
<1> USE DEF IInv
<1>1. /\ UNCHANGED <<scheme, spc, seq, offset, wire, output, rejected, hits>>
      /\ rpc = "recv" /\ rpc' = "done" /\ last' = Nothing
  BY DEF Eof, sender
<1>2. TypeOK' /\ seq' <= offset'
  BY <1>1 DEF TypeOK
<1>3. WireOK' /\ OutputOK' /\ CountOK'
  BY <1>1, WireKept, OutputKept
<1> QED
  BY <1>2, <1>3

\* What the receiver does with a frame: it writes or rejects it, and one that was not
\* hit it writes unaltered.
LEMMA ReceiveCases ==
    ASSUME IInv, Receive
    PROVE  LET m == Head(wire) IN
           /\ Good(m, Handled)
           /\ \E clean \in BOOLEAN, valid \in BOOLEAN, hit \in BOOLEAN :
                /\ IF valid
                     THEN output' = Append(output, [seq |-> Handled, clean |-> clean])
                          /\ rejected' = rejected
                     ELSE output' = output /\ rejected' = rejected + 1
                /\ IF hit THEN hits < MaxHits /\ hits' = hits + 1
                          ELSE hits' = hits /\ valid /\ clean
           /\ last'.message = m /\ last'.damage.error \subseteq BitOfFrame
<1> USE DEF IInv
<1> DEFINE m == Head(wire)
<1>1. /\ wire \in Seq(Message \cup {Half}) /\ wire # << >> /\ m # Half
      /\ rpc = "recv" /\ scheme \in Scheme
  BY DEF Receive, WireOK, TypeOK
<1>2. Len(wire) \in Nat /\ Len(wire) >= 1 /\ m = wire[1]
  BY <1>1
<1>3. Complete >= 1 /\ Complete \in Nat /\ Handled \in Nat
  BY <1>1, <1>2, Counts
<1>4. Good(m, Handled)
  <2>1. 1 \in 1 .. Complete /\ Handled + 1 - 1 = Handled
    BY <1>3
  <2>2. Good(wire[1], Handled + 1 - 1)
    BY <2>1 DEF WireOK
  <2> QED
    BY <2>1, <2>2, <1>2
<1> HIDE DEF m
<1>5. PICK d \in {NoDamage} \cup (IF hits < MaxHits THEN Damages(Built(m)) ELSE {}) :
        LET frame == Flipped(Sealed(Built(m), m.fcs), d.error)
            valid == verify_fcs(scheme, frame, REGION_LEN, ReceivedFcs(frame))
        IN  /\ IF valid
                 THEN output' = Append(output, [seq   |-> m.seq,
                                                clean |-> IsClean(frame, m)])
                      /\ rejected' = rejected
                 ELSE rejected' = rejected + 1 /\ output' = output
            /\ hits' = IF d = NoDamage THEN hits ELSE hits + 1
            /\ last' = [message |-> m, damage |-> d, accepted |-> valid]
  BY DEF Receive, m
<1> DEFINE frame == Flipped(Sealed(Built(m), m.fcs), d.error)
           valid == verify_fcs(scheme, frame, REGION_LEN, ReceivedFcs(frame))
           clean == IsClean(frame, m)
<1>6. clean \in BOOLEAN
  BY DEF IsClean
<1>7. m.seq = Handled
  BY <1>4 DEF Good
<1>8. d = NoDamage => valid /\ clean
  BY <1>1, <1>4, GoodArrives DEF NoDamage
<1>9. d # NoDamage => hits < MaxHits
  BY <1>5
<1>10. d.error \subseteq BitOfFrame
  BY <1>1, <1>5, DamageType
<1>11. /\ IF valid
            THEN output' = Append(output, [seq |-> Handled, clean |-> clean])
                 /\ rejected' = rejected
            ELSE output' = output /\ rejected' = rejected + 1
       /\ hits' = IF d = NoDamage THEN hits ELSE hits + 1
       /\ last'.message = m /\ last'.damage = d
  BY <1>5, <1>7
<1> HIDE DEF frame, valid, clean
<1>12. \E c \in BOOLEAN, v \in BOOLEAN, h \in BOOLEAN :
         /\ IF v
              THEN output' = Append(output, [seq |-> Handled, clean |-> c])
                   /\ rejected' = rejected
              ELSE output' = output /\ rejected' = rejected + 1
         /\ IF h THEN hits < MaxHits /\ hits' = hits + 1
                 ELSE hits' = hits /\ v /\ c
  <2>1. CASE d = NoDamage
    <3>1. /\ output' = Append(output, [seq |-> Handled, clean |-> clean])
          /\ rejected' = rejected /\ hits' = hits /\ clean
      BY <2>1, <1>8, <1>11
    <3> QED
      BY <3>1, <1>6
  <2>2. CASE d # NoDamage /\ valid
    <3>1. /\ output' = Append(output, [seq |-> Handled, clean |-> clean])
          /\ rejected' = rejected /\ hits < MaxHits /\ hits' = hits + 1
      BY <2>2, <1>9, <1>11
    <3> QED
      BY <3>1, <1>6
  <2>3. CASE d # NoDamage /\ ~ valid
    <3>1. /\ output' = output /\ rejected' = rejected + 1
          /\ hits < MaxHits /\ hits' = hits + 1
      BY <2>3, <1>9, <1>11
    <3> QED
      BY <3>1, <1>6
  <2> QED
    BY <2>1, <2>2, <2>3
<1> QED
  BY <1>4, <1>10, <1>11, <1>12 DEF m

\* The output grows at its end.
LEMMA UncleanGrows ==
    ASSUME TypeOK, NEW r, output' = Append(output, r)
    PROVE  Cardinality(Unclean') = Cardinality(Unclean) + (IF r.clean THEN 0 ELSE 1)
           /\ Cardinality(Unclean) \in Nat
<1> DEFINE n == Len(output)
<1>1. n \in Nat /\ DOMAIN output = 1 .. n /\ output \in Seq([seq : Nat, clean : BOOLEAN])
  BY DEF TypeOK
<1>2. /\ DOMAIN output' = 1 .. n + 1 /\ output'[n + 1] = r
      /\ \A i \in 1 .. n : output'[i] = output[i]
  BY <1>1
<1>3. IsFiniteSet(Unclean) /\ Cardinality(Unclean) \in Nat /\ n + 1 \notin Unclean
  <2>1. IsFiniteSet(1 .. n)
    BY <1>1, FS_Interval
  <2>2. Unclean \subseteq 1 .. n
    BY <1>1 DEF Unclean
  <2>3. IsFiniteSet(Unclean)
    BY <2>1, <2>2, FS_Subset
  <2>4. n + 1 \notin 1 .. n
    BY <1>1
  <2> QED
    BY <2>2, <2>3, <2>4, FS_CardinalityType
<1>4. Unclean' = {i \in 1 .. n + 1 : ~ output'[i].clean}
  BY <1>2 DEF Unclean
<1>5. Unclean = {i \in 1 .. n : ~ output[i].clean}
  BY <1>1 DEF Unclean
<1>6. \A i : i \in 1 .. n + 1 <=> (i \in 1 .. n \/ i = n + 1)
  BY <1>1
<1> HIDE DEF n
<1>7. CASE r.clean
  <2>1. Unclean' = Unclean
    BY <1>2, <1>4, <1>5, <1>6, <1>7
  <2> QED
    BY <2>1, <1>3, <1>7
<1>8. CASE ~ r.clean
  <2>1. Unclean' = Unclean \cup {n + 1}
    BY <1>2, <1>4, <1>5, <1>6, <1>8
  <2>2. Cardinality(Unclean \cup {n + 1}) = Cardinality(Unclean) + 1
    BY <1>3, FS_AddElement
  <2> QED
    BY <2>1, <2>2, <1>3, <1>8
<1> QED
  BY <1>7, <1>8

\* The receiver takes the first frame from the connection.
LEMMA ReceiveInv == ASSUME IInv, Receive PROVE IInv'
<1> USE DEF IInv
<1>1. /\ wire # << >> /\ Head(wire) # Half /\ wire' = Tail(wire) /\ rpc = "recv"
      /\ UNCHANGED <<scheme, spc, seq, offset, rpc>>
  BY DEF Receive, sender
<1>2. PICK clean \in BOOLEAN, valid \in BOOLEAN, hit \in BOOLEAN :
        /\ IF valid
             THEN output' = Append(output, [seq |-> Handled, clean |-> clean])
                  /\ rejected' = rejected
             ELSE output' = output /\ rejected' = rejected + 1
        /\ IF hit THEN hits < MaxHits /\ hits' = hits + 1
                  ELSE hits' = hits /\ valid /\ clean
  BY ReceiveCases
<1>3. Good(Head(wire), Handled) /\ last'.message = Head(wire)
      /\ last'.damage.error \subseteq BitOfFrame
  BY ReceiveCases
<1>4. /\ wire \in Seq(Message \cup {Half}) /\ Len(wire) \in Nat /\ Len(wire) >= 1
      /\ Handled \in Nat /\ Complete \in Nat
      /\ output \in Seq([seq : Nat, clean : BOOLEAN])
      /\ Len(output) \in Nat /\ rejected \in Nat /\ hits \in Nat /\ MaxHits \in Nat
      /\ hits <= MaxHits /\ Head(wire) = wire[1]
  BY <1>1, Counts, MaxHitsAssumption DEF TypeOK, WireOK
<1>5. /\ wire' \in Seq(Message \cup {Half}) /\ Len(wire') = Len(wire) - 1
      /\ \A k \in 1 .. Len(wire) - 1 : wire'[k] = wire[k + 1]
  BY <1>1, <1>4
<1>6. Complete' = Complete - 1
  <2>1. CASE Len(wire) = 1
    <3>1. wire' = << >> /\ Len(wire') = 0
      BY <2>1, <1>5
    <3>2. Complete = 1
      BY <2>1, <1>1, <1>4 DEF Complete
    <3> QED
      BY <3>1, <3>2 DEF Complete
  <2>2. CASE Len(wire) # 1
    <3>1. Len(wire') >= 1 /\ wire' # << >> /\ wire'[Len(wire')] = wire[Len(wire)]
          /\ Len(wire') + 1 = Len(wire)
      BY <2>2, <1>4, <1>5
    <3> QED
      BY <3>1, <1>1, <1>4 DEF Complete
  <2> QED
    BY <2>1, <2>2
<1>7. Handled' = Handled + 1
  BY <1>2, <1>4 DEF Handled
<1>8. WireOK'
  <2>1. \A x, n : Good(x, n)' <=> Good(x, n)
    BY <1>1 DEF Good
  <2>2. Complete <= Len(wire)
    BY Counts
  <2>3. ASSUME NEW k \in 1 .. Complete - 1 PROVE Good(wire'[k], Handled + 1 + k - 1)
    <3>1. k + 1 \in 1 .. Complete /\ wire'[k] = wire[k + 1]
          /\ Handled + 1 + k - 1 = Handled + (k + 1) - 1
      BY <1>4, <1>5, <2>2
    <3>2. Good(wire[k + 1], Handled + (k + 1) - 1)
      BY <3>1 DEF WireOK
    <3> QED
      BY <3>1, <3>2
  <2>4. Complete' # Len(wire') => Complete # Len(wire)
    BY <1>4, <1>5, <1>6
  <2>5. Handled' + Complete' = Handled + Complete
    BY <1>4, <1>6, <1>7
  <2> QED
    BY <2>1, <2>3, <2>4, <2>5, <1>1, <1>5, <1>6, <1>7 DEF WireOK
<1>9. TypeOK'
  <2>1. \A k \in DOMAIN wire' : wire'[k] = Half \/ wire'[k] \in Message
    BY <1>5
  <2>2. last'.message \in Message
    BY <1>3 DEF Good
  <2>3. output' \in Seq([seq : Nat, clean : BOOLEAN]) /\ rejected' \in Nat
    <3> DEFINE r == [seq |-> Handled, clean |-> clean]
               R == [seq : Nat, clean : BOOLEAN]
    <3>1. r \in R /\ output \in Seq(R)
      BY <1>4
    <3>2. output' = output \/ output' = Append(output, r)
      BY <1>2
    <3>3. rejected' \in Nat
      BY <1>2, <1>4
    <3> HIDE DEF r, R
    <3>4. output' \in Seq(R)
      BY <3>1, <3>2
    <3> QED
      BY <3>3, <3>4 DEF R
  <2>4. hits' \in 0 .. MaxHits
    BY <1>2, <1>4
  <2> QED
    BY <2>1, <2>2, <2>3, <2>4, <1>1, <1>3 DEF TypeOK
<1>10. seq' <= offset'
  BY <1>1
<1>11. DOMAIN output = 1 .. Len(output) /\ \A i \in DOMAIN output : output[i].seq \in Nat
  <2> DEFINE R == [seq : Nat, clean : BOOLEAN]
  <2>1. output \in Seq(R) /\ \A x \in R : x.seq \in Nat
    BY <1>4
  <2> HIDE DEF R
  <2>2. DOMAIN output = 1 .. Len(output) /\ \A i \in DOMAIN output : output[i] \in R
    BY <2>1
  <2> QED
    BY <2>1, <2>2
<1>12. OutputOK'
  <2>1. CASE ~ valid
    <3>1. output' = output
      BY <2>1, <1>2
    <3> QED
      BY <3>1, <1>4, <1>11, <1>7 DEF OutputOK
  <2>2. CASE valid
    <3> DEFINE r == [seq |-> Handled, clean |-> clean]
    <3>1. output' = Append(output, r)
      BY <2>2, <1>2
    <3>2. /\ \A i \in DOMAIN output' : i \in DOMAIN output \/ i = Len(output) + 1
          /\ \A i \in DOMAIN output : i < Len(output) + 1 /\ output'[i] = output[i]
                                      /\ i \in Nat
          /\ output'[Len(output) + 1].seq = Handled
      <4> DEFINE R == [seq : Nat, clean : BOOLEAN]
      <4>1. r \in R /\ output \in Seq(R) /\ r.seq = Handled
        BY <1>4
      <4> HIDE DEF r, R
      <4>2. /\ DOMAIN output' = 1 .. Len(output) + 1 /\ output'[Len(output) + 1] = r
            /\ \A i \in 1 .. Len(output) : output'[i] = output[i]
        BY <3>1, <4>1
      <4> QED
        BY <4>1, <4>2, <1>4, <1>11
    <3> HIDE DEF r
    <3>3. ASSUME NEW i \in DOMAIN output' PROVE output'[i].seq < Handled'
      BY <3>2, <1>4, <1>7, <1>11 DEF OutputOK
    <3>4. ASSUME NEW i \in DOMAIN output', NEW j \in DOMAIN output', i < j
          PROVE  output'[i].seq < output'[j].seq
      <4>1. i \in DOMAIN output
        BY <3>2, <3>4, <1>4
      <4>2. CASE j \in DOMAIN output
        BY <4>1, <4>2, <3>2, <3>4 DEF OutputOK
      <4>3. CASE j = Len(output) + 1
        BY <4>1, <4>3, <3>2 DEF OutputOK
      <4> QED
        BY <4>2, <4>3, <3>2
    <3> QED
      BY <3>3, <3>4 DEF OutputOK
  <2> QED
    BY <2>1, <2>2
<1>13. CountOK'
  <2>1. CASE ~ valid
    <3>1. output' = output /\ rejected' = rejected + 1 /\ hits' = hits + 1
      BY <2>1, <1>2
    <3>2. Unclean' = Unclean /\ Cardinality(Unclean) \in Nat
      <4>1. IsFiniteSet(1 .. Len(output))
        BY <1>4, FS_Interval
      <4>2. Unclean \subseteq 1 .. Len(output)
        BY <1>11 DEF Unclean
      <4>3. Cardinality(Unclean) \in Nat
        BY <4>1, <4>2, FS_Subset, FS_CardinalityType
      <4> QED
        BY <4>3, <3>1 DEF Unclean
    <3> QED
      BY <3>1, <3>2, <1>4 DEF CountOK
  <2>2. CASE valid
    <3> DEFINE r == [seq |-> Handled, clean |-> clean]
    <3>1. output' = Append(output, r) /\ rejected' = rejected
          /\ IF hit THEN hits' = hits + 1 ELSE hits' = hits /\ r.clean
      BY <2>2, <1>2
    <3> HIDE DEF r
    <3>2. /\ Cardinality(Unclean') = Cardinality(Unclean) + (IF r.clean THEN 0 ELSE 1)
          /\ Cardinality(Unclean) \in Nat
      BY <3>1, UncleanGrows
    <3>3. Cardinality(Unclean)' = Cardinality(Unclean')
      OBVIOUS
    <3> QED
      BY <3>1, <3>2, <3>3, <1>4 DEF CountOK
  <2> QED
    BY <2>1, <2>2
<1> QED
  BY <1>8, <1>9, <1>10, <1>12, <1>13

\* Every step of either program keeps the invariant.
LEMMA NextInv == IInv /\ [Next]_vars => IInv'
<1> SUFFICES ASSUME IInv, [Next]_vars PROVE IInv'
  OBVIOUS
<1>1. CASE UNCHANGED vars
  BY <1>1 DEF vars, sender, receiver, IInv, TypeOK, WireOK, OutputOK, CountOK, Complete,
              Handled, Good, Unclean
<1>2. CASE Over
  BY <1>2, <1>1 DEF Over
<1> QED
  BY <1>1, <1>2, SendInv, CloseInv, DieInv, OpenInv, ReceiveInv, EofInv DEF Next

\* The connection holds the frames that follow those handled, sealed and numbered; what
\* the receiver lost or altered was hit.
THEOREM Invariance == Spec => []IInv
<1>1. Init => IInv
  BY InitInv
<1>2. IInv /\ [Next]_vars => IInv'
  BY NextInv
<1> QED
  BY <1>1, <1>2, PTL DEF Spec

\* The locals of both programs keep their types, no message has another number than its
\* place in the file allows, and an error never flips a bit beyond the frame.
THEOREM TypeCorrect == Spec => []TypeOK
<1>1. IInv => TypeOK
  BY DEF IInv
<1> QED
  BY <1>1, Invariance, PTL

\* What the invariant says of the whole transfer.
LEMMA InvReassembled == IInv => FileIsReassembled
<1> SUFFICES ASSUME IInv PROVE FileIsReassembled
  OBVIOUS
<1> USE DEF IInv
<1> DEFINE Whole == {k \in DOMAIN wire : wire[k] # Half}
<1>1. /\ DOMAIN wire = 1 .. Len(wire) /\ Len(wire) \in Nat /\ Complete \in Nat
      /\ Complete <= Len(wire) /\ (Complete = Len(wire) \/ Complete = Len(wire) - 1)
      /\ Complete = Len(wire) <=> (wire = << >> \/ wire[Len(wire)] # Half)
  BY Counts DEF WireOK
<1>2. Len(wire) \in Nat /\ Complete \in Nat /\ Complete <= Len(wire)
  BY <1>1
<1>3. Whole = 1 .. Complete
  <2>1. ASSUME NEW k \in 1 .. Complete PROVE k \in Whole
    <3>1. wire[k] \in Message
      BY DEF WireOK, Good
    <3>2. wire[k] # Half
      BY <3>1, HalfAssumption
    <3>3. k \in 1 .. Len(wire)
      BY <1>2
    <3> QED
      BY <3>2, <3>3, <1>1
  <2>2. ASSUME NEW k \in Whole PROVE k \in 1 .. Complete
    <3>1. k \in 1 .. Len(wire) /\ wire[k] # Half
      BY <1>1
    <3>2. CASE Complete = Len(wire)
      BY <3>1, <3>2
    <3>3. CASE Complete # Len(wire)
      <4>1. wire[Len(wire)] = Half /\ Complete = Len(wire) - 1
        BY <3>3, <1>1
      <4>2. k # Len(wire)
        BY <3>1, <4>1
      <4> HIDE DEF Whole
      <4> QED
        BY <3>1, <4>1, <4>2, <1>1
    <3> QED
      BY <3>2, <3>3
  <2> HIDE DEF Whole
  <2> QED
    BY <2>1, <2>2
<1>4. Cardinality(Whole) = Complete
  <2>1. Cardinality(1 .. Complete) = IF 1 > Complete THEN 0 ELSE Complete - 1 + 1
    BY <1>2, FS_Interval
  <2>2. Cardinality(1 .. Complete) = Complete
    BY <2>1, <1>2
  <2> QED
    BY <2>2, <1>3
<1>5. rpc # "failed" => Len(output) + rejected + Cardinality(Whole) = seq
  BY <1>4 DEF WireOK, Handled
<1> QED
  BY <1>5 DEF FileIsReassembled, OutputOK, CountOK, Unclean

\* For every file, chunk size, code and number of hits, and wherever either program
\* fails: the frames in the output, those rejected and those still in the connection
\* are the frames sent; the output is in the order of the file; and no more frames are
\* missing from it or altered in it than were hit.
THEOREM FileReassembled == Spec => []FileIsReassembled
BY Invariance, InvReassembled, PTL

-----------------------------------------------------------------------------
(* A CRC is linear: here begins what the codes notice.                     *)

\* Exclusive-or, bit by bit.
LEMMA XorBits ==
    ASSUME NEW A, NEW B
    PROVE  \A x : x \in SymDiff(A, B) <=> ~ (x \in A <=> x \in B)
BY DEF SymDiff

\* A register stays one.
LEMMA XorType == \A A, B \in Register : SymDiff(A, B) \in Register
BY DEF SymDiff, Register

\* A step moves every bit up and, if the top bit was set, adds the polynomial.
LEMMA StepBits ==
    ASSUME NEW g, Generator(g), NEW crc \in Register, NEW b \in 0 .. 31
    PROVE  b \in DivideStep(crc, g) <=>
              ~ ((b >= 1 /\ b - 1 \in crc) <=> (g.degree - 1 \in crc /\ b \in g.poly))
<1>1. b \in ShiftLeft(crc) <=> (b >= 1 /\ b - 1 \in crc)
  BY DEF ShiftLeft, Register
<1> QED
  BY <1>1, XorBits DEF DivideStep

\* A step of an exclusive-or is the exclusive-or of the steps.
LEMMA StepLinear ==
    ASSUME NEW g, Generator(g), NEW c \in Register, NEW d \in Register
    PROVE  DivideStep(SymDiff(c, d), g) = SymDiff(DivideStep(c, g), DivideStep(d, g))
<1>1. SymDiff(c, d) \in Register
  BY XorType
<1>2. /\ DivideStep(c, g) \in Register /\ DivideStep(d, g) \in Register
      /\ DivideStep(SymDiff(c, d), g) \in Register
  BY <1>1, StepType
<1>3. SymDiff(DivideStep(c, g), DivideStep(d, g)) \in Register
  BY <1>2, XorType
<1>4. ASSUME NEW b \in 0 .. 31
      PROVE  b \in DivideStep(SymDiff(c, d), g)
               <=> b \in SymDiff(DivideStep(c, g), DivideStep(d, g))
  <2>1. b \in DivideStep(SymDiff(c, d), g) <=>
              ~ ((b >= 1 /\ b - 1 \in SymDiff(c, d))
                  <=> (g.degree - 1 \in SymDiff(c, d) /\ b \in g.poly))
    BY <1>1, StepBits
  <2>2. b \in DivideStep(c, g) <=>
              ~ ((b >= 1 /\ b - 1 \in c) <=> (g.degree - 1 \in c /\ b \in g.poly))
    BY StepBits
  <2>3. b \in DivideStep(d, g) <=>
              ~ ((b >= 1 /\ b - 1 \in d) <=> (g.degree - 1 \in d /\ b \in g.poly))
    BY StepBits
  <2> QED
    BY <2>1, <2>2, <2>3, XorBits
<1> QED
  BY <1>2, <1>3, <1>4 DEF Register

\* Any function that DivideSteps may define has the values of DivideSteps.
LEMMA StepsAre ==
    ASSUME NEW g, Generator(g), NEW steps \in Nat, NEW d, IsDivide(d, g, steps)
    PROVE  \A n \in 0 .. steps : \A reg \in Register : d[<<n, reg>>] = DivideSteps(reg, g, n)
<1> SUFFICES ASSUME NEW n \in 0 .. steps, NEW reg \in Register
             PROVE  d[<<n, reg>>] = DivideSteps(reg, g, n)
  OBVIOUS
<1> DEFINE e == CHOOSE f : IsDivide(f, g, n)
<1>1. n \in Nat /\ IsDivide(e, g, n)
  <2>1. n \in Nat
    OBVIOUS
  <2> QED
    BY <2>1, DivideExists
<1>2. DivideSteps(reg, g, n) = e[<<n, reg>>]
  BY DEF DivideSteps, IsDivide
<1> HIDE DEF e
<1>3. \A k \in 0 .. n : \A r \in Register :
         e[<<k, r>>] = IF k = 0 THEN r ELSE e[<<k - 1, DivideStep(r, g)>>]
  BY <1>1 DEF IsDivide
<1>4. \A k \in 0 .. steps : \A r \in Register :
         d[<<k, r>>] = IF k = 0 THEN r ELSE d[<<k - 1, DivideStep(r, g)>>]
  BY DEF IsDivide
<1> DEFINE S == {k \in 0 .. n : \A r \in Register : d[<<k, r>>] = e[<<k, r>>]}
<1>5. 0 \in S
  <2>1. 0 \in 0 .. n /\ 0 \in 0 .. steps
    OBVIOUS
  <2> QED
    BY <2>1, <1>3, <1>4
<1>6. ASSUME NEW k \in 1 .. n, k - 1 \in S PROVE k \in S
  <2>1. k \in 0 .. n /\ k \in 0 .. steps /\ k # 0
    OBVIOUS
  <2>2. ASSUME NEW r \in Register PROVE d[<<k, r>>] = e[<<k, r>>]
    <3>1. DivideStep(r, g) \in Register
      BY StepType
    <3>2. d[<<k - 1, DivideStep(r, g)>>] = e[<<k - 1, DivideStep(r, g)>>]
      BY <3>1, <1>6
    <3> QED
      BY <2>1, <3>2, <1>3, <1>4
  <2> QED
    BY <2>1, <2>2
<1>7. n \in S
  <2> HIDE DEF S
  <2>1. \A k \in 1 .. n : k - 1 \in S => k \in S
    BY <1>6
  <2>2. 0 .. n \subseteq S
    BY <1>1, <1>5, <2>1, InductionUpTo
  <2> QED
    BY <1>1, <2>2
<1> QED
  BY <1>2, <1>7

\* The steps one by one, from either end.
LEMMA StepsUnfold ==
    ASSUME NEW g, Generator(g), NEW crc \in Register
    PROVE  /\ DivideSteps(crc, g, 0) = crc
           /\ \A n \in Nat \ {0} :
                 DivideSteps(crc, g, n) = DivideSteps(DivideStep(crc, g), g, n - 1)
<1>1. ASSUME NEW n \in Nat
      PROVE  DivideSteps(crc, g, n) =
               IF n = 0 THEN crc ELSE DivideSteps(DivideStep(crc, g), g, n - 1)
  <2>1. PICK d : IsDivide(d, g, n)
    BY DivideExists
  <2>2. n \in 0 .. n /\ DivideStep(crc, g) \in Register
    BY StepType
  <2>3. d[<<n, crc>>] = IF n = 0 THEN crc ELSE d[<<n - 1, DivideStep(crc, g)>>]
    BY <2>1, <2>2 DEF IsDivide
  <2>4. d[<<n, crc>>] = DivideSteps(crc, g, n)
    BY <2>1, <2>2, StepsAre
  <2>5. n # 0 => d[<<n - 1, DivideStep(crc, g)>>]
                    = DivideSteps(DivideStep(crc, g), g, n - 1)
    <3>1. n # 0 => n - 1 \in 0 .. n
      OBVIOUS
    <3> QED
      BY <3>1, <2>1, <2>2, StepsAre
  <2> QED
    BY <2>3, <2>4, <2>5
<1> QED
  BY <1>1

\* The last step taken off, where StepsUnfold takes the first.
LEMMA StepsLast ==
    ASSUME NEW g, Generator(g), NEW crc \in Register, NEW n \in Nat
    PROVE  DivideSteps(crc, g, n + 1) = DivideStep(DivideSteps(crc, g, n), g)
<1> DEFINE S == {k \in 0 .. n : \A r \in Register :
                   DivideSteps(r, g, k + 1) = DivideStep(DivideSteps(r, g, k), g)}
<1>1. 0 \in S
  <2>1. ASSUME NEW r \in Register
        PROVE  DivideSteps(r, g, 0 + 1) = DivideStep(DivideSteps(r, g, 0), g)
    <3>1. 0 + 1 \in Nat \ {0} /\ (0 + 1) - 1 = 0
      OBVIOUS
    <3>2. DivideSteps(r, g, 0 + 1) = DivideSteps(DivideStep(r, g), g, (0 + 1) - 1)
      BY <3>1, StepsUnfold
    <3>3. DivideSteps(r, g, 0) = r
      BY StepsUnfold
    <3>4. DivideStep(r, g) \in Register
      BY StepType
    <3>5. DivideSteps(DivideStep(r, g), g, 0) = DivideStep(r, g)
      BY <3>4, StepsUnfold
    <3> QED
      BY <3>1, <3>2, <3>3, <3>5
  <2>2. 0 \in 0 .. n
    OBVIOUS
  <2> QED
    BY <2>1, <2>2
<1>2. ASSUME NEW k \in 1 .. n, k - 1 \in S PROVE k \in S
  <2>1. ASSUME NEW r \in Register
        PROVE  DivideSteps(r, g, k + 1) = DivideStep(DivideSteps(r, g, k), g)
    <3> DEFINE t == DivideStep(r, g)
    <3>1. /\ k + 1 \in Nat \ {0} /\ (k + 1) - 1 = k
          /\ k \in Nat \ {0} /\ (k - 1) + 1 = k
      OBVIOUS
    <3>2. t \in Register
      BY StepType
    <3>3. DivideSteps(r, g, k + 1) = DivideSteps(t, g, (k + 1) - 1)
      BY <3>1, StepsUnfold
    <3>4. DivideSteps(r, g, k) = DivideSteps(t, g, k - 1)
      BY <3>1, StepsUnfold
    <3>5. DivideSteps(t, g, (k - 1) + 1) = DivideStep(DivideSteps(t, g, k - 1), g)
      BY <3>2, <1>2
    <3> HIDE DEF t
    <3> QED
      BY <3>1, <3>3, <3>4, <3>5
  <2>2. k \in 0 .. n
    OBVIOUS
  <2> QED
    BY <2>1, <2>2
<1>3. n \in S
  <2> HIDE DEF S
  <2>1. \A k \in 1 .. n : k - 1 \in S => k \in S
    BY <1>2
  <2>2. 0 .. n \subseteq S
    BY <1>1, <2>1, InductionUpTo
  <2>3. n \in 0 .. n
    OBVIOUS
  <2> QED
    BY <2>2, <2>3
<1> QED
  BY <1>3

\* Any number of steps is linear.
LEMMA StepsLinear ==
    ASSUME NEW g, Generator(g), NEW n \in Nat, NEW c \in Register, NEW d \in Register
    PROVE  DivideSteps(SymDiff(c, d), g, n)
             = SymDiff(DivideSteps(c, g, n), DivideSteps(d, g, n))
<1> DEFINE S == {k \in 0 .. n : DivideSteps(SymDiff(c, d), g, k)
                                  = SymDiff(DivideSteps(c, g, k), DivideSteps(d, g, k))}
<1>1. SymDiff(c, d) \in Register
  BY XorType
<1>2. 0 \in S
  BY <1>1, StepsUnfold
<1>3. ASSUME NEW k \in 1 .. n, k - 1 \in S PROVE k \in S
  <2> DEFINE j == k - 1
  <2>1. j \in Nat /\ j + 1 = k /\ k \in 0 .. n
    OBVIOUS
  <2>2. DivideSteps(SymDiff(c, d), g, j) = SymDiff(DivideSteps(c, g, j), DivideSteps(d, g, j))
    BY <1>3
  <2> HIDE DEF j
  <2>3. /\ DivideSteps(c, g, j) \in Register /\ DivideSteps(d, g, j) \in Register
    BY <2>1, StepsType
  <2>4. DivideSteps(SymDiff(c, d), g, j + 1)
          = DivideStep(SymDiff(DivideSteps(c, g, j), DivideSteps(d, g, j)), g)
    BY <2>1, <2>2, <1>1, StepsLast
  <2>5. /\ DivideSteps(c, g, j + 1) = DivideStep(DivideSteps(c, g, j), g)
        /\ DivideSteps(d, g, j + 1) = DivideStep(DivideSteps(d, g, j), g)
    BY <2>1, StepsLast
  <2> QED
    BY <2>1, <2>3, <2>4, <2>5, StepLinear
<1>4. n \in S
  <2> HIDE DEF S
  <2>1. \A k \in 1 .. n : k - 1 \in S => k \in S
    BY <1>3
  <2>2. 0 .. n \subseteq S
    BY <1>2, <2>1, InductionUpTo
  <2>3. n \in 0 .. n
    OBVIOUS
  <2> QED
    BY <2>2, <2>3
<1> QED
  BY <1>4

\* Steps follow each other.
LEMMA StepsAdd ==
    ASSUME NEW g, Generator(g), NEW m \in Nat, NEW n \in Nat, NEW crc \in Register
    PROVE  DivideSteps(crc, g, m + n) = DivideSteps(DivideSteps(crc, g, m), g, n)
<1> DEFINE S == {k \in 0 .. n : DivideSteps(crc, g, m + k)
                                  = DivideSteps(DivideSteps(crc, g, m), g, k)}
<1>1. DivideSteps(crc, g, m) \in Register
  BY StepsType
<1>2. 0 \in S
  <2>1. m + 0 = m
    OBVIOUS
  <2> QED
    BY <1>1, <2>1, StepsUnfold
<1>3. ASSUME NEW k \in 1 .. n, k - 1 \in S PROVE k \in S
  <2> DEFINE j == k - 1
  <2>1. j \in Nat /\ j + 1 = k /\ k \in 0 .. n /\ m + j \in Nat /\ (m + j) + 1 = m + k
    OBVIOUS
  <2>2. DivideSteps(crc, g, m + j) = DivideSteps(DivideSteps(crc, g, m), g, j)
    BY <1>3
  <2> HIDE DEF j
  <2>3. DivideSteps(crc, g, (m + j) + 1) = DivideStep(DivideSteps(crc, g, m + j), g)
    BY <2>1, StepsLast
  <2>4. DivideSteps(DivideSteps(crc, g, m), g, j + 1)
          = DivideStep(DivideSteps(DivideSteps(crc, g, m), g, j), g)
    BY <2>1, <1>1, StepsLast
  <2> QED
    BY <2>1, <2>2, <2>3, <2>4
<1>4. n \in S
  <2> HIDE DEF S
  <2>1. \A k \in 1 .. n : k - 1 \in S => k \in S
    BY <1>3
  <2>2. 0 .. n \subseteq S
    BY <1>2, <2>1, InductionUpTo
  <2>3. n \in 0 .. n
    OBVIOUS
  <2> QED
    BY <2>2, <2>3
<1> QED
  BY <1>4

\* The part of the register that counts.
Low(crc, g) == crc \cap (0 .. g.degree - 1)

\* A step depends on that part alone, and loses nothing of it: the generators have a
\* constant term, so that a bit that leaves at the top comes back at the bottom.
LEMMA StepLow ==
    ASSUME NEW g, Generator(g), NEW crc \in Register
    PROVE  /\ Low(crc, g) \in Register
           /\ Low(DivideStep(crc, g), g) = Low(DivideStep(Low(crc, g), g), g)
           /\ Low(DivideStep(crc, g), g) = {} <=> Low(crc, g) = {}
<1>1. g.degree \in Nat /\ g.degree >= 8 /\ g.degree <= 32
  BY DEF Generator
<1>2. Low(crc, g) \in Register
  BY DEF Low, Register
<1>3. \A b \in 0 .. g.degree - 1 : b \in 0 .. 31 /\ (b >= 1 => b - 1 \in 0 .. g.degree - 1)
  BY <1>1
<1>4. g.degree - 1 \in 0 .. g.degree - 1
  BY <1>1
<1>5. ASSUME NEW b \in 0 .. g.degree - 1
      PROVE  b \in DivideStep(crc, g) <=> b \in DivideStep(Low(crc, g), g)
  <2>1. b \in DivideStep(crc, g) <=>
              ~ ((b >= 1 /\ b - 1 \in crc) <=> (g.degree - 1 \in crc /\ b \in g.poly))
    BY <1>3, StepBits
  <2>2. b \in DivideStep(Low(crc, g), g) <=>
              ~ ((b >= 1 /\ b - 1 \in Low(crc, g))
                  <=> (g.degree - 1 \in Low(crc, g) /\ b \in g.poly))
    BY <1>2, <1>3, StepBits
  <2>3. /\ g.degree - 1 \in crc <=> g.degree - 1 \in Low(crc, g)
        /\ b >= 1 => (b - 1 \in crc <=> b - 1 \in Low(crc, g))
    BY <1>3, <1>4 DEF Low
  <2> QED
    BY <2>1, <2>2, <2>3
<1>6. ASSUME Low(crc, g) # {} PROVE Low(DivideStep(crc, g), g) # {}
  <2>1. CASE g.degree - 1 \in crc
    <3>1. 0 \in DivideStep(crc, g)
      BY <2>1, StepBits DEF Generator
    <3> QED
      BY <3>1, <1>1 DEF Low
  <2>2. CASE g.degree - 1 \notin crc
    <3>1. PICK c \in crc : c \in 0 .. g.degree - 1
      BY <1>6 DEF Low
    <3>2. c + 1 \in 0 .. g.degree - 1 /\ c + 1 \in 0 .. 31 /\ c + 1 >= 1 /\ (c + 1) - 1 = c
      BY <2>2, <3>1, <1>1
    <3>3. c + 1 \in DivideStep(crc, g)
      BY <2>2, <3>1, <3>2, StepBits
    <3> QED
      BY <3>2, <3>3 DEF Low
  <2> QED
    BY <2>1, <2>2
<1>7. ASSUME Low(crc, g) = {} PROVE Low(DivideStep(crc, g), g) = {}
  <2>1. \A b \in 0 .. g.degree - 1 : b \notin crc
    BY <1>7 DEF Low
  <2>2. ASSUME NEW b \in 0 .. g.degree - 1 PROVE b \notin DivideStep(crc, g)
    BY <2>1, <1>3, <1>4, StepBits
  <2> QED
    BY <2>2 DEF Low
<1> QED
  BY <1>2, <1>5, <1>6, <1>7 DEF Low

\* The same for any number of steps.
LEMMA StepsLow ==
    ASSUME NEW g, Generator(g), NEW crc \in Register, NEW n \in Nat
    PROVE  /\ Low(crc, g) \in Register
           /\ Low(DivideSteps(crc, g, n), g) = Low(DivideSteps(Low(crc, g), g, n), g)
           /\ Low(DivideSteps(crc, g, n), g) = {} <=> Low(crc, g) = {}
<1> DEFINE low == Low(crc, g)
           S == {k \in 0 .. n :
                   /\ Low(DivideSteps(crc, g, k), g) = Low(DivideSteps(low, g, k), g)
                   /\ Low(DivideSteps(crc, g, k), g) = {} <=> low = {}}
<1>1. low \in Register
  BY StepLow
<1>2. Low(low, g) = low
  BY DEF Low
<1> HIDE DEF low
<1>3. 0 \in S
  BY <1>1, <1>2, StepsUnfold DEF low
<1>4. ASSUME NEW k \in 1 .. n, k - 1 \in S PROVE k \in S
  <2> DEFINE j == k - 1
  <2>1. j \in Nat /\ j + 1 = k /\ k \in 0 .. n
    OBVIOUS
  <2>2. /\ Low(DivideSteps(crc, g, j), g) = Low(DivideSteps(low, g, j), g)
        /\ Low(DivideSteps(crc, g, j), g) = {} <=> low = {}
    BY <1>4
  <2> HIDE DEF j
  <2> DEFINE c == DivideSteps(crc, g, j)
             d == DivideSteps(low, g, j)
  <2>3. c \in Register /\ d \in Register
    BY <2>1, <1>1, StepsType
  <2>4. /\ DivideSteps(crc, g, j + 1) = DivideStep(c, g)
        /\ DivideSteps(low, g, j + 1) = DivideStep(d, g)
    BY <2>1, <1>1, StepsLast
  <2>5. Low(c, g) = Low(d, g) /\ (Low(c, g) = {} <=> low = {})
    BY <2>2
  <2> HIDE DEF c, d
  <2>6. /\ Low(DivideStep(c, g), g) = Low(DivideStep(Low(c, g), g), g)
        /\ Low(DivideStep(d, g), g) = Low(DivideStep(Low(d, g), g), g)
        /\ Low(DivideStep(c, g), g) = {} <=> Low(c, g) = {}
    BY <2>3, StepLow
  <2> QED
    BY <2>1, <2>4, <2>5, <2>6
<1>5. n \in S
  <2> HIDE DEF S
  <2>1. \A k \in 1 .. n : k - 1 \in S => k \in S
    BY <1>4
  <2>2. 0 .. n \subseteq S
    BY <1>3, <2>1, InductionUpTo
  <2>3. n \in 0 .. n
    OBVIOUS
  <2> QED
    BY <2>2, <2>3
<1> QED
  BY <1>1, <1>5 DEF low

-----------------------------------------------------------------------------
(* Polynomials modulo the generator.                                       *)

\* A residue times a power of x.
Times(r, g, n) == Low(DivideSteps(r, g, n), g)

\* Multiplications by powers of x follow each other, and none of them makes something
\* of nothing or nothing of something.
LEMMA TimesLaws ==
    ASSUME NEW g, Generator(g), NEW m \in Nat, NEW n \in Nat, NEW r \in Register
    PROVE  /\ Times(r, g, n) \in Register
           /\ Times(Low(r, g), g, n) = Times(r, g, n)
           /\ Times(Times(r, g, m), g, n) = Times(r, g, m + n)
           /\ Times(r, g, n) = {} <=> Low(r, g) = {}
           /\ Low(Times(r, g, n), g) = Times(r, g, n)
           /\ Times(r, g, 0) = Low(r, g)
<1>1. DivideSteps(r, g, m) \in Register /\ DivideSteps(r, g, n) \in Register
  BY StepsType
<1>2. Low(DivideSteps(DivideSteps(r, g, m), g, n), g)
        = Low(DivideSteps(Low(DivideSteps(r, g, m), g), g, n), g)
  BY <1>1, StepsLow
<1>3. DivideSteps(DivideSteps(r, g, m), g, n) = DivideSteps(r, g, m + n)
  BY StepsAdd
<1>4. Low(DivideSteps(r, g, n), g) \in Register
  BY <1>1, StepsLow
<1>5. Low(Low(DivideSteps(r, g, n), g), g) = Low(DivideSteps(r, g, n), g)
  BY DEF Low
<1> QED
  BY <1>2, <1>3, <1>4, <1>5, StepsLow, StepsUnfold DEF Times

\* Cutting off the upper bits is linear.
LEMMA LowXor == \A A, B, g : Low(SymDiff(A, B), g) = SymDiff(Low(A, g), Low(B, g))
BY DEF Low, SymDiff

\* So is multiplying.
LEMMA TimesLinear ==
    ASSUME NEW g, Generator(g), NEW n \in Nat, NEW r \in Register, NEW s \in Register
    PROVE  Times(SymDiff(r, s), g, n) = SymDiff(Times(r, g, n), Times(s, g, n))
BY StepsLinear, LowXor DEF Times

\* The residue of a power of x.
Power(e, g) == Times({0}, g, e)

\* The residues of powers are registers below the degree, and multiply.
LEMMA PowerType ==
    ASSUME NEW g, Generator(g), NEW e \in Nat
    PROVE  /\ {0} \in Register
           /\ Power(e, g) \in Register /\ Power(e, g) \subseteq 0 .. g.degree - 1
           /\ \A n \in Nat : Power(e + n, g) = Times(Power(e, g), g, n)
<1>1. {0} \in Register
  BY DEF Register
<1>2. Power(e, g) \in Register
  BY <1>1, TimesLaws DEF Power
<1>3. Power(e, g) \subseteq 0 .. g.degree - 1
  BY DEF Power, Times, Low
<1>4. \A n \in Nat : Times(Times({0}, g, e), g, n) = Times({0}, g, e + n)
  BY <1>1, TimesLaws
<1> QED
  BY <1>1, <1>2, <1>3, <1>4 DEF Power

\* Below the degree it is that power itself; at the degree it is the polynomial.
LEMMA PowerLow ==
    ASSUME NEW g, Generator(g)
    PROVE  /\ \A e \in 0 .. g.degree - 1 : Power(e, g) = {e}
           /\ Power(g.degree, g) = g.poly
<1>1. g.degree \in Nat /\ g.degree >= 8 /\ g.degree <= 32
  BY DEF Generator
<1>2. ASSUME NEW e \in 0 .. g.degree - 1
      PROVE  /\ {e} \in Register
             /\ e + 1 < g.degree => Low(DivideStep({e}, g), g) = {e + 1}
             /\ e + 1 = g.degree => Low(DivideStep({e}, g), g) = g.poly
  <2>1. e \in 0 .. 31
    BY <1>1
  <2>2. {e} \in Register
    BY <2>1 DEF Register
  <2>3. ASSUME NEW b \in 0 .. g.degree - 1
        PROVE  b \in DivideStep({e}, g) <=>
                 ~ (b = e + 1 <=> (e + 1 = g.degree /\ b \in g.poly))
    <3>1. b \in 0 .. 31 /\ b \in Nat /\ e \in Nat
      BY <1>1
    <3>2. b \in DivideStep({e}, g) <=>
            ~ ((b >= 1 /\ b - 1 \in {e}) <=> (g.degree - 1 \in {e} /\ b \in g.poly))
      BY <2>2, <3>1, StepBits
    <3>3. (b >= 1 /\ b - 1 \in {e} <=> b = e + 1) /\ (g.degree - 1 \in {e} <=> e + 1 = g.degree)
      BY <3>1, <1>1
    <3> QED
      BY <3>2, <3>3
  <2>4. CASE e + 1 < g.degree
    <3>1. e + 1 \in 0 .. g.degree - 1 /\ ~ (e + 1 = g.degree)
      BY <2>4, <1>1
    <3>2. \A b \in 0 .. g.degree - 1 : b \in DivideStep({e}, g) <=> b = e + 1
      BY <2>3, <3>1, Zenon
    <3>3. Low(DivideStep({e}, g), g) = {e + 1}
      BY <3>1, <3>2 DEF Low
    <3> QED
      BY <2>2, <2>4, <3>3, <1>1
  <2>5. CASE e + 1 = g.degree
    <3>1. \A b \in 0 .. g.degree - 1 : b \in DivideStep({e}, g) <=> b \in g.poly
      BY <2>3, <2>5, <1>1
    <3>2. \A b \in g.poly : b \in 0 .. g.degree - 1
      BY <1>1 DEF Generator, Register
    <3>3. Low(DivideStep({e}, g), g) = g.poly
      BY <3>1, <3>2 DEF Low
    <3> QED
      BY <2>2, <2>5, <3>3, <1>1
  <2>6. e + 1 < g.degree \/ e + 1 = g.degree
    BY <1>1
  <2> QED
    BY <2>4, <2>5, <2>6
<1>3. ASSUME NEW e \in Nat PROVE Power(e + 1, g) = Low(DivideStep(Power(e, g), g), g)
  <2>1. DivideSteps(Power(e, g), g, 1) = DivideStep(Power(e, g), g)
    <3>1. Power(e, g) \in Register
      BY PowerType
    <3>2. DivideSteps(Power(e, g), g, 0) = Power(e, g) /\ 0 + 1 = 1
      BY <3>1, StepsUnfold
    <3>3. DivideSteps(Power(e, g), g, 0 + 1) = DivideStep(DivideSteps(Power(e, g), g, 0), g)
      BY <3>1, StepsLast
    <3> QED
      BY <3>2, <3>3
  <2>2. Power(e + 1, g) = Times(Power(e, g), g, 1)
    BY PowerType
  <2> QED
    BY <2>1, <2>2 DEF Times
<1>4. Power(0, g) = {0}
  <2>1. {0} \in Register
    BY PowerType
  <2>2. Power(0, g) = Low({0}, g)
    BY <2>1, TimesLaws DEF Power
  <2>3. 0 \in 0 .. g.degree - 1
    BY <1>1
  <2> QED
    BY <2>2, <2>3 DEF Low
<1> DEFINE n == g.degree - 1
           S == {e \in 0 .. n : Power(e, g) = {e}}
<1>5. 0 .. n \subseteq S
  <2>1. 0 \in S /\ n \in Nat
    BY <1>1, <1>4
  <2>2. ASSUME NEW k \in 1 .. n, k - 1 \in S PROVE k \in S
    <3>1. k - 1 \in 0 .. g.degree - 1 /\ (k - 1) + 1 = k /\ (k - 1) + 1 < g.degree
          /\ k \in 0 .. n /\ k - 1 \in Nat
      BY <1>1
    <3>2. Power(k - 1, g) = {k - 1}
      BY <2>2
    <3>3. Power((k - 1) + 1, g) = {(k - 1) + 1}
      BY <3>1, <3>2, <1>2, <1>3
    <3> QED
      BY <3>1, <3>3
  <2> HIDE DEF S, n
  <2>3. \A k \in 1 .. n : k - 1 \in S => k \in S
    BY <2>2
  <2> QED
    BY <2>1, <2>3, InductionUpTo
<1>6. Power(g.degree, g) = g.poly
  <2>1. n \in 0 .. g.degree - 1 /\ n + 1 = g.degree /\ n \in 0 .. n /\ n \in Nat
    BY <1>1
  <2>2. Power(n, g) = {n}
    BY <2>1, <1>5
  <2>3. Power(n + 1, g) = g.poly
    BY <2>1, <2>2, <1>2, <1>3
  <2> QED
    BY <2>1, <2>3
<1> QED
  BY <1>5, <1>6

Odd(n) == n % 2 = 1

\* The size of a symmetric difference, as far as it matters.
LEMMA OddXor ==
    ASSUME NEW A, NEW B, IsFiniteSet(A), IsFiniteSet(B)
    PROVE  Odd(Cardinality(SymDiff(A, B)))
             <=> ~ (Odd(Cardinality(A)) <=> Odd(Cardinality(B)))
<1> DEFINE a == Cardinality(A)
           b == Cardinality(B)
           i == Cardinality(A \cap B)
           s == Cardinality(SymDiff(A, B))
<1>1. a \in Nat /\ b \in Nat
  BY FS_CardinalityType
<1>2. IsFiniteSet(A \cap B) /\ i \in Nat
  <2>1. A \cap B \in SUBSET A
    OBVIOUS
  <2>2. IsFiniteSet(A \cap B)
    BY <2>1, FS_Subset
  <2> QED
    BY <2>2, FS_CardinalityType
<1>3. IsFiniteSet(A \ B) /\ Cardinality(A \ B) = a - i
  BY FS_Difference
<1>4. IsFiniteSet(B \ A) /\ Cardinality(B \ A) = b - i
  <2>1. B \cap A = A \cap B
    OBVIOUS
  <2> QED
    BY <2>1, FS_Difference
<1>5. s = (a - i) + (b - i)
  <2>1. /\ Cardinality((A \ B) \cup (B \ A))
             = Cardinality(A \ B) + Cardinality(B \ A) - Cardinality((A \ B) \cap (B \ A))
    BY <1>3, <1>4, FS_Union
  <2>2. (A \ B) \cap (B \ A) = {}
    OBVIOUS
  <2>3. Cardinality({}) = 0
    BY FS_EmptySet
  <2>4. Cardinality((A \ B) \cup (B \ A)) = (a - i) + (b - i)
    <3>1. Cardinality((A \ B) \cup (B \ A)) = (a - i) + (b - i) - 0
      BY <2>1, <2>2, <2>3, <1>3, <1>4
    <3> HIDE DEF a, b, i
    <3>2. (a - i) + (b - i) - 0 = (a - i) + (b - i)
      BY <1>1, <1>2
    <3> QED
      BY <3>1, <3>2
  <2> QED
    BY <2>4 DEF SymDiff
<1> HIDE DEF a, b, i, s
<1>6. s \in Int /\ s = a + b - 2 * i
  BY <1>1, <1>2, <1>5
<1>7. (s % 2 = 1) <=> ~ ((a % 2 = 1) <=> (b % 2 = 1))
  BY <1>1, <1>2, <1>6
<1> QED
  BY <1>7 DEF Odd, a, b, s

\* The residue of a polynomial: the bits that an odd number of its powers have.
Residue(p, g) ==
    {r \in 0 .. g.degree - 1 : Odd(Cardinality({e \in p : r \in Power(e, g)}))}

\* A polynomial is a finite set of exponents.
IsPolynomial(p) == p \subseteq Nat /\ IsFiniteSet(p)

\* So are the residues of polynomials; that of zero is zero.
LEMMA ResidueType ==
    ASSUME NEW g, Generator(g), NEW p
    PROVE  /\ Residue(p, g) \in Register
           /\ Low(Residue(p, g), g) = Residue(p, g)
           /\ Residue({}, g) = {}
<1>1. \A r \in 0 .. g.degree - 1 : r \in 0 .. 31
  BY DEF Generator
<1>2. Residue(p, g) \in Register
  BY <1>1 DEF Residue, Register
<1>3. Low(Residue(p, g), g) = Residue(p, g)
  BY DEF Residue, Low
<1>4. Residue({}, g) = {}
  <2>1. \A r : {e \in {} : r \in Power(e, g)} = {}
    OBVIOUS
  <2>2. ~ Odd(Cardinality({}))
    BY FS_EmptySet DEF Odd
  <2> QED
    BY <2>1, <2>2 DEF Residue
<1> QED
  BY <1>2, <1>3, <1>4

\* The residue of a sum is the sum of the residues.
LEMMA ResidueLinear ==
    ASSUME NEW g, NEW p, NEW q, IsPolynomial(p), IsPolynomial(q)
    PROVE  Residue(SymDiff(p, q), g) = SymDiff(Residue(p, g), Residue(q, g))
<1> DEFINE With(P, r) == {e \in P : r \in Power(e, g)}
<1>1. ASSUME NEW r
      PROVE  Odd(Cardinality(With(SymDiff(p, q), r)))
               <=> ~ (Odd(Cardinality(With(p, r))) <=> Odd(Cardinality(With(q, r))))
  <2>1. With(SymDiff(p, q), r) = SymDiff(With(p, r), With(q, r))
    BY DEF SymDiff
  <2>2. With(p, r) \in SUBSET p /\ With(q, r) \in SUBSET q
    OBVIOUS
  <2> HIDE DEF With
  <2>3. IsFiniteSet(With(p, r)) /\ IsFiniteSet(With(q, r))
    BY <2>2, FS_Subset DEF IsPolynomial
  <2> QED
    BY <2>1, <2>3, OddXor
<1> HIDE DEF With
<1>2. \A P : Residue(P, g) = {r \in 0 .. g.degree - 1 : Odd(Cardinality(With(P, r)))}
  BY DEF Residue, With
<1> DEFINE X == Residue(SymDiff(p, q), g)
           Y == SymDiff(Residue(p, g), Residue(q, g))
<1>3. \A r : r \in X <=> r \in Y
  BY <1>1, <1>2, XorBits
<1> HIDE DEF X, Y
<1>4. X = Y
  BY <1>3
<1> QED
  BY <1>4 DEF X, Y

\* A polynomial of less than the degree is its own residue; a power has that of Power.
LEMMA ResidueLow ==
    ASSUME NEW g, Generator(g)
    PROVE  /\ \A p \in SUBSET (0 .. g.degree - 1) : Residue(p, g) = p
           /\ \A e \in Nat : Residue({e}, g) = Power(e, g)
<1>1. \A x : Odd(Cardinality({x}))
  <2>1. \A x : Cardinality({x}) = 1
    BY FS_Singleton
  <2>2. Odd(1)
    BY DEF Odd
  <2> QED
    BY <2>1, <2>2
<1>2. ~ Odd(Cardinality({}))
  BY FS_EmptySet DEF Odd
<1>3. ASSUME NEW p \in SUBSET (0 .. g.degree - 1) PROVE Residue(p, g) = p
  <2>1. ASSUME NEW r \in 0 .. g.degree - 1
        PROVE  Odd(Cardinality({e \in p : r \in Power(e, g)})) <=> r \in p
    <3>1. \A e \in p : Power(e, g) = {e}
      BY PowerLow
    <3>2. {e \in p : r \in Power(e, g)} = IF r \in p THEN {r} ELSE {}
      BY <3>1
    <3> QED
      BY <3>2, <1>1, <1>2
  <2> QED
    BY <2>1 DEF Residue
<1>4. ASSUME NEW e \in Nat PROVE Residue({e}, g) = Power(e, g)
  <2>1. ASSUME NEW r
        PROVE  Odd(Cardinality({d \in {e} : r \in Power(d, g)})) <=> r \in Power(e, g)
    <3>1. {d \in {e} : r \in Power(d, g)} = IF r \in Power(e, g) THEN {e} ELSE {}
      OBVIOUS
    <3> QED
      BY <3>1, <1>1, <1>2
  <2>2. Power(e, g) \subseteq 0 .. g.degree - 1
    BY PowerType
  <2> QED
    BY <2>1, <2>2 DEF Residue
<1> QED
  BY <1>3, <1>4

\* A polynomial times a power of x.
Shift(p, n) == {e + n : e \in p}

\* Multiplying keeps a polynomial a polynomial, with as many terms.
LEMMA ShiftType ==
    ASSUME NEW p, IsPolynomial(p), NEW n \in Nat
    PROVE  /\ IsPolynomial(Shift(p, n))
           /\ Cardinality(Shift(p, n)) = Cardinality(p)
<1> DEFINE f == [e \in p |-> e + n]
<1>1. f \in Bijection(p, Shift(p, n))
  <2>1. f \in [p -> Shift(p, n)]
    BY DEF Shift
  <2>2. \A x, y \in p : f[x] = f[y] => x = y
    BY DEF IsPolynomial
  <2>3. \A z \in Shift(p, n) : \E x \in p : f[x] = z
    BY DEF Shift
  <2> HIDE DEF f
  <2> QED
    BY <2>1, <2>2, <2>3 DEF Bijection, Injection, Surjection, IsInjective
<1>2. ExistsBijection(p, Shift(p, n))
  BY <1>1 DEF ExistsBijection
<1>3. Shift(p, n) \subseteq Nat
  BY DEF Shift, IsPolynomial
<1> QED
  BY <1>2, <1>3, FS_Bijection DEF IsPolynomial

\* Shifts follow each other.
LEMMA ShiftShift ==
    ASSUME NEW p, IsPolynomial(p), NEW m \in Nat, NEW n \in Nat
    PROVE  Shift(Shift(p, m), n) = Shift(p, m + n) /\ Shift(p, 0) = p
<1>1. \A e \in p : (e + m) + n = e + (m + n) /\ e + 0 = e
  BY DEF IsPolynomial
<1>2. Shift(Shift(p, m), n) = {(e + m) + n : e \in p}
  BY DEF Shift
<1> QED
  BY <1>1, <1>2 DEF Shift

\* Its residue is the residue times that power.
LEMMA ResidueUp ==
    ASSUME NEW g, Generator(g), NEW p, IsPolynomial(p)
    PROVE  Residue(Shift(p, 1), g) = Times(Residue(p, g), g, 1)
<1> DEFINE With(P, r) == {e \in P : r \in Power(e, g)}
           odd(P, r) == Odd(Cardinality(With(P, r)))
           top == g.degree - 1
           res == Residue(p, g)
<1>1. g.degree \in Nat /\ g.degree >= 8 /\ g.degree <= 32
      /\ \A r \in 0 .. g.degree - 1 : r \in 0 .. 31 /\ r \in Nat
      /\ top \in 0 .. g.degree - 1
  BY DEF Generator
<1>2. ASSUME NEW reg \in Register PROVE Times(reg, g, 1) = Low(DivideStep(reg, g), g)
  <2>1. DivideSteps(reg, g, 0) = reg /\ 0 + 1 = 1
    BY StepsUnfold
  <2>2. DivideSteps(reg, g, 0 + 1) = DivideStep(DivideSteps(reg, g, 0), g)
    BY StepsLast
  <2> QED
    BY <2>1, <2>2 DEF Times
<1>3. ASSUME NEW e \in p, NEW r \in 0 .. g.degree - 1
      PROVE  r \in Power(e + 1, g) <=>
                ~ ((r >= 1 /\ r - 1 \in Power(e, g)) <=> (top \in Power(e, g) /\ r \in g.poly))
  <2>1. e \in Nat
    BY DEF IsPolynomial
  <2>2. Power(e, g) \in Register /\ Power(e + 1, g) = Times(Power(e, g), g, 1)
    BY <2>1, PowerType
  <2>3. Power(e + 1, g) = Low(DivideStep(Power(e, g), g), g)
    BY <2>2, <1>2
  <2> QED
    BY <2>2, <2>3, <1>1, StepBits DEF Low
<1>4. ASSUME NEW r
      PROVE  IsPolynomial(With(p, r)) /\ IsFiniteSet(With(p, r))
  <2>1. With(p, r) \in SUBSET p
    OBVIOUS
  <2> HIDE DEF With
  <2> QED
    BY <2>1, FS_Subset DEF IsPolynomial
<1>5. ASSUME NEW r \in 0 .. g.degree - 1
      PROVE  odd(Shift(p, 1), r) <=>
                ~ ((r >= 1 /\ odd(p, r - 1)) <=> (odd(p, top) /\ r \in g.poly))
  <2> DEFINE A == IF r >= 1 THEN With(p, r - 1) ELSE {}
             B == IF r \in g.poly THEN With(p, top) ELSE {}
             D == {e \in p : r \in Power(e + 1, g)}
  <2>1. D = SymDiff(A, B)
    <3>1. \A e : e \in D <=> e \in SymDiff(A, B)
      BY <1>3, XorBits
    <3> HIDE DEF D, A, B
    <3> QED
      BY <3>1
  <2>2. With(Shift(p, 1), r) = Shift(D, 1)
    BY DEF Shift
  <2>3. IsFiniteSet({}) /\ Cardinality({}) = 0 /\ ~ Odd(0)
    BY FS_EmptySet DEF Odd
  <2>4. IsFiniteSet(A) /\ IsFiniteSet(B)
    BY <2>3, <1>4
  <2>5. IsPolynomial(D)
    <3>1. D \in SUBSET p
      OBVIOUS
    <3> HIDE DEF D
    <3> QED
      BY <3>1, FS_Subset DEF IsPolynomial
  <2>6. Odd(Cardinality(A)) <=> (r >= 1 /\ odd(p, r - 1))
    BY <2>3
  <2>7. Odd(Cardinality(B)) <=> (odd(p, top) /\ r \in g.poly)
    BY <2>3
  <2> HIDE DEF A, B, D, With
  <2>8. Cardinality(With(Shift(p, 1), r)) = Cardinality(SymDiff(A, B))
    BY <2>1, <2>2, <2>5, ShiftType
  <2> QED
    BY <2>4, <2>6, <2>7, <2>8, OddXor
<1>6. \A P : Residue(P, g) = {r \in 0 .. g.degree - 1 : odd(P, r)}
  BY DEF Residue
<1> HIDE DEF odd, With
<1>7. res \in Register /\ Times(res, g, 1) = Low(DivideStep(res, g), g)
  BY <1>2, ResidueType
<1>8. ASSUME NEW r \in 0 .. g.degree - 1
      PROVE  r \in Residue(Shift(p, 1), g) <=> r \in Low(DivideStep(res, g), g)
  <2>1. r \in Residue(Shift(p, 1), g) <=> odd(Shift(p, 1), r)
    BY <1>6
  <2>2. r \in Low(DivideStep(res, g), g) <=>
           ~ ((r >= 1 /\ r - 1 \in res) <=> (top \in res /\ r \in g.poly))
    BY <1>1, <1>7, StepBits DEF Low
  <2>3. r >= 1 => (r - 1 \in res <=> odd(p, r - 1))
    BY <1>1, <1>6
  <2>4. top \in res <=> odd(p, top)
    BY <1>1, <1>6
  <2> HIDE DEF res, top
  <2> QED
    BY <2>1, <2>2, <2>3, <2>4, <1>5
<1>9. Residue(Shift(p, 1), g) \subseteq 0 .. g.degree - 1
  BY <1>6
<1>10. Low(DivideStep(res, g), g) \subseteq 0 .. g.degree - 1
  BY DEF Low
<1> HIDE DEF res
<1>11. Residue(Shift(p, 1), g) = Low(DivideStep(res, g), g)
  BY <1>8, <1>9, <1>10
<1> QED
  BY <1>7, <1>11 DEF res

\* ... and for any power of x.
LEMMA ResidueShift ==
    ASSUME NEW g, Generator(g), NEW p, IsPolynomial(p), NEW n \in Nat
    PROVE  Residue(Shift(p, n), g) = Times(Residue(p, g), g, n)
<1> DEFINE S == {k \in 0 .. n : Residue(Shift(p, k), g) = Times(Residue(p, g), g, k)}
<1>1. Residue(p, g) \in Register /\ Low(Residue(p, g), g) = Residue(p, g)
  BY ResidueType
<1>2. 0 \in S
  <2>1. Shift(p, 0) = p
    BY ShiftShift
  <2>2. Times(Residue(p, g), g, 0) = Residue(p, g)
    BY <1>1, TimesLaws
  <2> QED
    BY <2>1, <2>2
<1>3. ASSUME NEW k \in 1 .. n, k - 1 \in S PROVE k \in S
  <2> DEFINE j == k - 1
  <2>1. j \in Nat /\ j + 1 = k /\ k \in 0 .. n
    OBVIOUS
  <2>2. Residue(Shift(p, j), g) = Times(Residue(p, g), g, j)
    BY <1>3
  <2> HIDE DEF j
  <2>3. IsPolynomial(Shift(p, j)) /\ Shift(Shift(p, j), 1) = Shift(p, j + 1)
    BY <2>1, ShiftType, ShiftShift
  <2>4. Residue(Shift(Shift(p, j), 1), g) = Times(Residue(Shift(p, j), g), g, 1)
    BY <2>3, ResidueUp
  <2>5. Times(Times(Residue(p, g), g, j), g, 1) = Times(Residue(p, g), g, j + 1)
    BY <2>1, <1>1, TimesLaws
  <2> QED
    BY <2>1, <2>2, <2>3, <2>4, <2>5
<1>4. n \in S
  <2> HIDE DEF S
  <2>1. \A k \in 1 .. n : k - 1 \in S => k \in S
    BY <1>3
  <2>2. 0 .. n \subseteq S
    BY <1>2, <2>1, InductionUpTo
  <2>3. n \in 0 .. n
    OBVIOUS
  <2> QED
    BY <2>2, <2>3
<1> QED
  BY <1>4

\* What stays below a bound is a polynomial.
LEMMA BoundedPolynomial ==
    ASSUME NEW n \in Int, NEW p \in SUBSET (0 .. n) PROVE IsPolynomial(p)
<1>1. IsFiniteSet(0 .. n)
  BY FS_Interval
<1>2. IsFiniteSet(p)
  BY <1>1, FS_Subset
<1> QED
  BY <1>2 DEF IsPolynomial

\* The generator itself.
Divisor(g) == g.poly \cup {g.degree}

\* Its residue is zero.
LEMMA DivisorVanishes ==
    ASSUME NEW g, Generator(g)
    PROVE  /\ IsPolynomial(Divisor(g)) /\ Residue(Divisor(g), g) = {}
           /\ \A e \in Divisor(g) : e \in 0 .. g.degree
<1>1. g.degree \in Nat /\ \A e \in g.poly : e \in Nat /\ e < g.degree
  BY DEF Generator, Register
<1>2. /\ Divisor(g) \in SUBSET (0 .. g.degree) /\ g.poly \in SUBSET (0 .. g.degree - 1)
      /\ {g.degree} \in SUBSET (0 .. g.degree)
  BY <1>1 DEF Divisor
<1>3. IsPolynomial(Divisor(g)) /\ IsPolynomial(g.poly) /\ IsPolynomial({g.degree})
  <2>1. g.degree \in Int /\ g.degree - 1 \in Int
    BY <1>1
  <2>2. IsPolynomial(Divisor(g)) /\ IsPolynomial({g.degree})
    BY <2>1, <1>2, BoundedPolynomial
  <2>3. IsPolynomial(g.poly)
    BY <2>1, <1>2, BoundedPolynomial
  <2> QED
    BY <2>2, <2>3
<1>4. Divisor(g) = SymDiff(g.poly, {g.degree})
  <2>1. g.degree \notin g.poly
    BY <1>1
  <2> QED
    BY <2>1 DEF Divisor, SymDiff
<1>5. Residue(g.poly, g) = g.poly /\ Residue({g.degree}, g) = g.poly
  BY <1>1, <1>2, ResidueLow, PowerLow
<1>6. Residue(Divisor(g), g) = {}
  BY <1>3, <1>4, <1>5, ResidueLinear DEF SymDiff
<1> QED
  BY <1>2, <1>3, <1>6

\* FiniteSetsExt's Max is the greatest element.
LEMMA MaxBelow ==
    ASSUME NEW n \in Nat, NEW p \in SUBSET (0 .. n), p # {}
    PROVE  Max(p) \in p /\ \A y \in p : Max(p) >= y
<1> DEFINE T == {n - e : e \in p}
<1>1. T \subseteq Nat /\ T # {}
  <2>1. \A e \in p : n - e \in Nat
    OBVIOUS
  <2> QED
    BY <2>1
<1> HIDE DEF T
<1>2. PICK t \in T : \A u \in T : t <= u
  BY <1>1, LeastElement
<1> USE DEF T
<1>3. PICK e \in p : t = n - e
  OBVIOUS
<1>4. \A y \in p : e >= y
  BY <1>2, <1>3
<1> QED
  BY <1>4 DEF Max

\* The function that Remainder defines.
IsRest(rest, g) ==
    rest = [p \in SUBSET (0 .. 8 * REGION_LEN) |->
              IF p = {} \/ Max(p) < g.degree
                THEN p
                ELSE rest[SymDiff(p, {e + Max(p) - g.degree : e \in Divisor(g)})]]

\* One step of the long division: the greatest power goes, the residue stays.
LEMMA LongDivisionStep ==
    ASSUME NEW g, Generator(g), NEW n \in Nat, NEW p \in SUBSET (0 .. n), n \in p,
           n >= g.degree
    PROVE  LET q == SymDiff(p, {e + n - g.degree : e \in Divisor(g)})
           IN  /\ q \in SUBSET (0 .. n) /\ n \notin q
               /\ Residue(q, g) = Residue(p, g)
<1> DEFINE k == n - g.degree
           d == {e + n - g.degree : e \in Divisor(g)}
           q == SymDiff(p, d)
<1>1. g.degree \in Nat /\ k \in Nat /\ \A e \in Divisor(g) : e \in 0 .. g.degree
  BY DivisorVanishes DEF Generator
<1>2. d = Shift(Divisor(g), k)
  <2>1. \A e \in Divisor(g) : e + n - g.degree = e + k
    BY <1>1
  <2> QED
    BY <2>1 DEF Shift
<1>3. d \in SUBSET (0 .. n) /\ n \in d
  <2>1. g.degree \in Divisor(g) /\ g.degree + k = n
    BY <1>1 DEF Divisor
  <2>2. \A e \in Divisor(g) : e + k \in 0 .. n
    BY <1>1
  <2> HIDE DEF d, k
  <2> QED
    BY <2>1, <2>2, <1>2 DEF Shift
<1>4. IsPolynomial(p) /\ IsPolynomial(d)
  <2> HIDE DEF d
  <2>1. n \in Int
    OBVIOUS
  <2> QED
    BY <2>1, <1>3, BoundedPolynomial
<1>5. Residue(d, g) = {}
  <2>1. Residue(d, g) = Times({}, g, k)
    <3> HIDE DEF d, k
    <3> QED
      BY <1>1, <1>2, DivisorVanishes, ResidueShift
  <2>2. {} \in Register /\ Low({}, g) = {}
    BY DEF Register, Low
  <2> QED
    BY <2>1, <2>2, <1>1, TimesLaws
<1> HIDE DEF d
<1>6. Residue(q, g) = SymDiff(Residue(p, g), {})
  BY <1>4, <1>5, ResidueLinear
<1>7. q \in SUBSET (0 .. n) /\ n \notin q
  BY <1>3 DEF SymDiff
<1> QED
  BY <1>6, <1>7 DEF d, SymDiff

\* Long division computes the residue.
LEMMA RemainderIs ==
    ASSUME NEW g, Generator(g), NEW dividend \in SUBSET (0 .. 8 * REGION_LEN)
    PROVE  Remainder(dividend, g) = Residue(dividend, g)
<1> DEFINE N == 8 * REGION_LEN
           res == [p \in SUBSET (0 .. N) |-> Residue(p, g)]
           rest == CHOOSE f : IsRest(f, g)
<1>1. N \in Nat /\ g.degree \in Nat /\ g.degree >= 8
  BY Sizes DEF Generator
<1> HIDE DEF N, res, rest
<1>2. ASSUME NEW p \in SUBSET (0 .. N), p = {} \/ Max(p) < g.degree
      PROVE  Residue(p, g) = p
  <2>1. p \in SUBSET (0 .. g.degree - 1)
    <3>1. CASE p = {}
      BY <3>1
    <3>2. CASE p # {}
      <4>1. Max(p) \in p /\ \A y \in p : Max(p) >= y
        BY <3>2, <1>1, MaxBelow
      <4>2. Max(p) \in 0 .. N /\ Max(p) < g.degree
        BY <4>1, <3>2, <1>2
      <4>3. \A y \in p : y \in 0 .. N /\ Max(p) >= y
        BY <4>1
      <4>4. \A y \in p : y \in 0 .. g.degree - 1
        BY <4>2, <4>3, <1>1
      <4> QED
        BY <4>4
    <3> QED
      BY <3>1, <3>2
  <2> QED
    BY <2>1, ResidueLow
<1>3. ASSUME NEW p \in SUBSET (0 .. N), ~ (p = {} \/ Max(p) < g.degree)
      PROVE  LET q == SymDiff(p, {e + Max(p) - g.degree : e \in Divisor(g)})
             IN  /\ Max(p) \in 0 .. N /\ Max(p) \in p
                 /\ q \in SUBSET (0 .. N) /\ Residue(q, g) = Residue(p, g)
                 /\ q \in SUBSET (0 .. Max(p)) /\ Max(p) \notin q
  <2> DEFINE n == Max(p)
  <2>1. n \in p /\ \A y \in p : n >= y
    BY <1>1, <1>3, MaxBelow
  <2>2. n \in 0 .. N /\ ~ (n < g.degree) /\ \A y \in p : y \in 0 .. N /\ n >= y
    BY <2>1, <1>3
  <2>3. n \in Nat /\ n \in 0 .. N /\ p \in SUBSET (0 .. n) /\ n >= g.degree
    <3> HIDE DEF n
    <3>1. \A y \in p : y \in 0 .. n
      BY <2>2, <1>1
    <3> QED
      BY <2>2, <3>1, <1>1
  <2>4. SUBSET (0 .. n) \subseteq SUBSET (0 .. N)
    BY <2>3, <1>1
  <2> HIDE DEF n
  <2> QED
    BY <2>1, <2>3, <2>4, LongDivisionStep DEF n
<1>4. IsRest(res, g)
  <2>1. ASSUME NEW p \in SUBSET (0 .. N)
        PROVE  Residue(p, g) = IF p = {} \/ Max(p) < g.degree
                  THEN p
                  ELSE res[SymDiff(p, {e + Max(p) - g.degree : e \in Divisor(g)})]
    BY <1>2, <1>3 DEF res
  <2> QED
    BY <2>1 DEF IsRest, res, N
<1>5. IsRest(rest, g)
  BY <1>4 DEF rest
<1>6. Remainder(dividend, g) = rest[dividend]
  BY DEF Remainder, IsRest, Divisor, rest
<1>7. \A p \in SUBSET (0 .. N) :
         rest[p] = IF p = {} \/ Max(p) < g.degree
                     THEN p
                     ELSE rest[SymDiff(p, {e + Max(p) - g.degree : e \in Divisor(g)})]
  BY <1>5 DEF IsRest, N
<1> DEFINE Below(k) == {p \in SUBSET (0 .. N) : \A e \in p : e < k}
           S == {k \in 0 .. N + 1 : \A p \in Below(k) : rest[p] = Residue(p, g)}
<1>8. 0 \in S
  <2>1. ASSUME NEW p \in Below(0) PROVE p = {} /\ p \in SUBSET (0 .. N)
    BY <1>1
  <2>2. 0 \in 0 .. N + 1
    BY <1>1
  <2> QED
    BY <2>1, <2>2, <1>2, <1>7
<1>9. ASSUME NEW k \in 1 .. N + 1, k - 1 \in S PROVE k \in S
  <2>1. k \in 0 .. N + 1 /\ k \in Nat
    BY <1>1
  <2>2. ASSUME NEW p \in Below(k) PROVE rest[p] = Residue(p, g)
    <3>1. CASE p = {} \/ Max(p) < g.degree
      BY <3>1, <1>2, <1>7
    <3>2. CASE ~ (p = {} \/ Max(p) < g.degree)
      <4> DEFINE q == SymDiff(p, {e + Max(p) - g.degree : e \in Divisor(g)})
                 n == Max(p)
      <4>1. /\ n \in 0 .. N /\ n \in p /\ q \in SUBSET (0 .. N)
            /\ Residue(q, g) = Residue(p, g) /\ q \in SUBSET (0 .. n) /\ n \notin q
        BY <3>2, <1>3
      <4>2. rest[p] = rest[q]
        BY <3>2, <1>7
      <4> HIDE DEF q, n
      <4>3. n < k
        BY <4>1
      <4>4. \A e \in q : e < k - 1
        <5>1. \A e \in q : e \in 0 .. n /\ e # n
          BY <4>1
        <5> QED
          BY <5>1, <4>1, <4>3, <2>1, <1>1
      <4>5. q \in Below(k - 1)
        BY <4>1, <4>4
      <4>6. rest[q] = Residue(q, g)
        BY <4>5, <1>9
      <4> QED
        BY <4>1, <4>2, <4>6
    <3> QED
      BY <3>1, <3>2
  <2> QED
    BY <2>1, <2>2
<1>10. N + 1 \in S
  <2> HIDE DEF S
  <2>1. \A k \in 1 .. N + 1 : k - 1 \in S => k \in S
    BY <1>9
  <2>2. 0 .. N + 1 \subseteq S
    BY <1>1, <1>8, <2>1, InductionUpTo
  <2>3. N + 1 \in 0 .. N + 1
    BY <1>1
  <2> QED
    BY <2>2, <2>3
<1>11. dividend \in Below(N + 1)
  BY <1>1 DEF N
<1> HIDE DEF Below
<1> QED
  BY <1>6, <1>10, <1>11

-----------------------------------------------------------------------------
(* The CRC of damaged data.                                                *)

\* A byte aligned with the top of the register.
Aligned(byte, g) == {b + g.degree - 8 : b \in byte}

\* Alignment is a multiplication by a power of x.
LEMMA AlignedType ==
    ASSUME NEW g, Generator(g), NEW byte \in Byte
    PROVE  /\ Aligned(byte, g) \in Register
           /\ Aligned(byte, g) \subseteq 0 .. g.degree - 1
           /\ g.degree - 8 \in Nat /\ Aligned(byte, g) = Shift(byte, g.degree - 8)
<1>1. g.degree \in Nat /\ g.degree >= 8 /\ g.degree <= 32 /\ g.degree - 8 \in Nat
      /\ \A b \in byte : b \in 0 .. 7
  BY DEF Generator, Byte
<1>2. \A b \in byte : /\ b + g.degree - 8 \in 0 .. 31
                      /\ b + g.degree - 8 \in 0 .. g.degree - 1
                      /\ b + g.degree - 8 = b + (g.degree - 8)
  BY <1>1
<1> QED
  BY <1>1, <1>2 DEF Aligned, Shift, Register

\* Alignment is linear.
LEMMA AlignedXor ==
    ASSUME NEW g, Generator(g), NEW a \in Byte, NEW b \in Byte
    PROVE  Aligned(SymDiff(a, b), g) = SymDiff(Aligned(a, g), Aligned(b, g))
<1>1. g.degree \in Nat /\ \A x \in a \cup b : x \in Nat
  BY DEF Generator, Byte
<1>2. \A x, y \in a \cup b : x + g.degree - 8 = y + g.degree - 8 => x = y
  BY <1>1
<1> QED
  BY <1>2 DEF Aligned, SymDiff

\* A byte through the register is a multiplication.
LEMMA NextRegIs ==
    ASSUME NEW g, Generator(g), NEW crc \in Register, NEW byte \in Byte
    PROVE  NextReg(crc, byte, g) = Times(SymDiff(crc, Aligned(byte, g)), g, 8)
BY DEF NextReg, Times, Low, Aligned

\* A byte through the register is linear in the register and in the byte.
LEMMA NextRegLinear ==
    ASSUME NEW g, Generator(g), NEW c \in Register, NEW d \in Register,
           NEW a \in Byte, NEW b \in Byte
    PROVE  NextReg(SymDiff(c, d), SymDiff(a, b), g)
             = SymDiff(NextReg(c, a, g), NextReg(d, b, g))
<1> DEFINE A == Aligned(a, g)
           B == Aligned(b, g)
<1>1. A \in Register /\ B \in Register /\ Aligned(SymDiff(a, b), g) = SymDiff(A, B)
  BY AlignedType, AlignedXor
<1>2. SymDiff(a, b) \in Byte
  BY DEF SymDiff, Byte
<1>3. SymDiff(c, d) \in Register
  BY XorType
<1>4. /\ NextReg(SymDiff(c, d), SymDiff(a, b), g)
           = Times(SymDiff(SymDiff(c, d), SymDiff(A, B)), g, 8)
      /\ NextReg(c, a, g) = Times(SymDiff(c, A), g, 8)
      /\ NextReg(d, b, g) = Times(SymDiff(d, B), g, 8)
  BY <1>1, <1>2, <1>3, NextRegIs
<1> HIDE DEF A, B
<1>5. SymDiff(SymDiff(c, d), SymDiff(A, B)) = SymDiff(SymDiff(c, A), SymDiff(d, B))
  BY DEF SymDiff
<1>6. SymDiff(c, A) \in Register /\ SymDiff(d, B) \in Register
  BY <1>1, XorType
<1>7. 8 \in Nat
  OBVIOUS
<1>8. Times(SymDiff(SymDiff(c, A), SymDiff(d, B)), g, 8)
        = SymDiff(Times(SymDiff(c, A), g, 8), Times(SymDiff(d, B), g, 8))
  BY <1>6, <1>7, TimesLinear
<1> QED
  BY <1>4, <1>5, <1>8

\* The CRC of an exclusive-or is the exclusive-or of the CRCs.
THEOREM CrcIsLinear ==
    ASSUME NEW g, Generator(g), NEW len \in Nat, NEW data, NEW error, NEW sum,
           \A k \in 0 .. len - 1 : /\ data[k] \in Byte /\ error[k] \in Byte
                                   /\ sum[k] = SymDiff(data[k], error[k])
    PROVE  crc_compute(sum, len, g)
             = SymDiff(crc_compute(data, len, g), crc_compute(error, len, g))
<1>1. PICK r \in [0 .. len -> Register] :
         /\ IsReg(r, data, len, g)
         /\ crc_compute(data, len, g) = DivideSteps(r[len], g, g.degree)
  BY RegExists
<1>2. PICK e \in [0 .. len -> Register] :
         /\ IsReg(e, error, len, g)
         /\ crc_compute(error, len, g) = DivideSteps(e[len], g, g.degree)
  BY RegExists
<1>3. \A k \in 0 .. len - 1 : sum[k] \in Byte
  BY DEF SymDiff, Byte
<1>4. PICK s \in [0 .. len -> Register] :
         /\ IsReg(s, sum, len, g)
         /\ crc_compute(sum, len, g) = DivideSteps(s[len], g, g.degree)
  BY <1>3, RegExists
<1> DEFINE S == {k \in 0 .. len : s[k] = SymDiff(r[k], e[k])}
<1>5. 0 \in S
  <2>1. r[0] = {} /\ e[0] = {} /\ s[0] = {} /\ 0 \in 0 .. len
    BY <1>1, <1>2, <1>4, RegUnfolds
  <2> QED
    BY <2>1 DEF SymDiff
<1>6. ASSUME NEW k \in 1 .. len, k - 1 \in S PROVE k \in S
  <2>1. /\ r[k] = NextReg(r[k - 1], data[k - 1], g)
        /\ e[k] = NextReg(e[k - 1], error[k - 1], g)
        /\ s[k] = NextReg(s[k - 1], sum[k - 1], g)
    BY <1>1, <1>2, <1>4, RegUnfolds
  <2>2. /\ k - 1 \in 0 .. len /\ k - 1 \in 0 .. len - 1 /\ k \in 0 .. len
        /\ s[k - 1] = SymDiff(r[k - 1], e[k - 1])
    BY <1>6
  <2>3. /\ r[k - 1] \in Register /\ e[k - 1] \in Register
        /\ data[k - 1] \in Byte /\ error[k - 1] \in Byte
        /\ sum[k - 1] = SymDiff(data[k - 1], error[k - 1])
    BY <2>2
  <2>4. NextReg(s[k - 1], sum[k - 1], g)
          = SymDiff(NextReg(r[k - 1], data[k - 1], g), NextReg(e[k - 1], error[k - 1], g))
    BY <2>2, <2>3, NextRegLinear
  <2> QED
    BY <2>1, <2>2, <2>4
<1>7. len \in S
  <2> HIDE DEF S
  <2>1. \A k \in 1 .. len : k - 1 \in S => k \in S
    BY <1>6
  <2>2. 0 .. len \subseteq S
    BY <1>5, <2>1, InductionUpTo
  <2>3. len \in 0 .. len
    OBVIOUS
  <2> QED
    BY <2>2, <2>3
<1>8. s[len] = SymDiff(r[len], e[len]) /\ r[len] \in Register /\ e[len] \in Register
  BY <1>7
<1>9. g.degree \in Nat
  BY DEF Generator
<1> QED
  BY <1>1, <1>2, <1>4, <1>8, <1>9, StepsLinear

\* An error as a polynomial, from the end of the data on: the first byte has the highest
\* powers.
ErrorPolynomial(error, len) ==
    {n \in Nat : \E k \in 0 .. len - 1, b \in 0 .. 7 :
                    b \in error[k] /\ n = 8 * (len - 1 - k) + b}

\* It is a polynomial.
LEMMA ErrorPolynomialType ==
    ASSUME NEW len \in Nat, NEW error
    PROVE  IsPolynomial(ErrorPolynomial(error, len))
<1>1. \A k \in 0 .. len - 1, b \in 0 .. 7 : 8 * (len - 1 - k) + b \in 0 .. 8 * len
  OBVIOUS
<1>2. ErrorPolynomial(error, len) \in SUBSET (0 .. 8 * len) /\ 8 * len \in Int
  BY <1>1 DEF ErrorPolynomial
<1> QED
  BY <1>2, BoundedPolynomial

\* One byte more.
LEMMA ErrorPolynomialUp ==
    ASSUME NEW len \in Nat, NEW error, error[len] \in Byte
    PROVE  ErrorPolynomial(error, len + 1)
             = SymDiff(Shift(ErrorPolynomial(error, len), 8), error[len])
<1> DEFINE P == ErrorPolynomial(error, len)
           Q == ErrorPolynomial(error, len + 1)
<1>1. \A b \in error[len] : b \in 0 .. 7
  BY DEF Byte
<1>2. ASSUME NEW n \in Q PROVE n \in Shift(P, 8) \/ n \in error[len]
  <2>1. PICK k \in 0 .. (len + 1) - 1, b \in 0 .. 7 :
          b \in error[k] /\ n = 8 * ((len + 1) - 1 - k) + b
    BY <1>2 DEF ErrorPolynomial
  <2>2. CASE k = len
    BY <2>1, <2>2
  <2>3. CASE k # len
    <3>1. k \in 0 .. len - 1 /\ n = (8 * (len - 1 - k) + b) + 8
          /\ 8 * (len - 1 - k) + b \in Nat
      BY <2>1, <2>3
    <3>2. 8 * (len - 1 - k) + b \in P
      BY <2>1, <3>1 DEF ErrorPolynomial
    <3> HIDE DEF P
    <3> QED
      BY <3>1, <3>2 DEF Shift
  <2> QED
    BY <2>2, <2>3
<1>3. ASSUME NEW n \in Shift(P, 8) PROVE n \in Q /\ n \notin error[len]
  <2>1. PICK m \in P : n = m + 8
    BY DEF Shift
  <2>2. PICK k \in 0 .. len - 1, b \in 0 .. 7 : b \in error[k] /\ m = 8 * (len - 1 - k) + b
    BY DEF ErrorPolynomial
  <2>3. k \in 0 .. (len + 1) - 1 /\ n = 8 * ((len + 1) - 1 - k) + b /\ n \in Nat /\ n >= 8
    BY <2>1, <2>2
  <2>4. n \in Q
    BY <2>2, <2>3 DEF ErrorPolynomial
  <2> QED
    BY <2>3, <2>4, <1>1
<1>4. ASSUME NEW n \in error[len] PROVE n \in Q
  <2>1. len \in 0 .. (len + 1) - 1 /\ n \in 0 .. 7 /\ n = 8 * ((len + 1) - 1 - len) + n
        /\ n \in Nat
    BY <1>1
  <2> QED
    BY <2>1 DEF ErrorPolynomial
<1> HIDE DEF P, Q
<1>5. Q = SymDiff(Shift(P, 8), error[len])
  BY <1>2, <1>3, <1>4 DEF SymDiff
<1> QED
  BY <1>5 DEF P, Q

\* A byte at the end of an error, as the register sees it: it is above the powers of what
\* has not come yet by the degree.
LEMMA NextRegOfError ==
    ASSUME NEW g, Generator(g), NEW p, IsPolynomial(p), NEW byte \in Byte
    PROVE  NextReg(Times(Residue(p, g), g, g.degree), byte, g)
             = Times(Residue(SymDiff(Shift(p, 8), byte), g), g, g.degree)
<1> DEFINE d == g.degree
           r == Residue(p, g)
           a == Aligned(byte, g)
           v == Residue(byte, g)
<1>1. d \in Nat /\ d - 8 \in Nat /\ (d - 8) + 8 = d /\ 8 \in Nat /\ d + 8 = 8 + d
  BY DEF Generator
<1>2. r \in Register /\ v \in Register /\ Times(r, g, d) \in Register
  BY <1>1, ResidueType, TimesLaws
<1>3. IsPolynomial(byte) /\ IsPolynomial(Shift(p, 8))
  <2>1. byte \in SUBSET (0 .. 7) /\ 7 \in Int
    BY DEF Byte
  <2> QED
    BY <2>1, <1>1, BoundedPolynomial, ShiftType
<1>4. a \in Register /\ a \in SUBSET (0 .. g.degree - 1) /\ a = Shift(byte, d - 8)
  BY AlignedType
<1>5. a = Times(v, g, d - 8)
  <2>1. Residue(a, g) = a
    BY <1>4, ResidueLow
  <2>2. Residue(Shift(byte, d - 8), g) = Times(Residue(byte, g), g, d - 8)
    BY <1>1, <1>3, ResidueShift
  <2> QED
    BY <2>1, <2>2, <1>4
<1> HIDE DEF a, d
<1>6. Times(a, g, 8) = Times(v, g, d)
  <2> HIDE DEF v
  <2>1. Times(Times(v, g, d - 8), g, 8) = Times(v, g, (d - 8) + 8)
    BY <1>1, <1>2, TimesLaws
  <2> QED
    BY <2>1, <1>1, <1>5
<1>7. Times(Times(r, g, d), g, 8) = Times(Times(r, g, 8), g, d)
  <2> HIDE DEF r
  <2>1. /\ Times(Times(r, g, d), g, 8) = Times(r, g, d + 8)
        /\ Times(Times(r, g, 8), g, d) = Times(r, g, 8 + d)
    BY <1>1, <1>2, TimesLaws
  <2> QED
    BY <2>1, <1>1
<1>8. Residue(Shift(p, 8), g) = Times(r, g, 8)
  BY <1>1, ResidueShift
<1>9. Residue(SymDiff(Shift(p, 8), byte), g) = SymDiff(Times(r, g, 8), v)
  BY <1>3, <1>8, ResidueLinear
<1> HIDE DEF r, v
<1>10. NextReg(Times(r, g, d), byte, g) = Times(SymDiff(Times(r, g, d), a), g, 8)
  BY <1>2, NextRegIs DEF a
<1>11. Times(SymDiff(Times(r, g, d), a), g, 8)
         = SymDiff(Times(Times(r, g, d), g, 8), Times(a, g, 8))
  BY <1>1, <1>2, <1>4, TimesLinear
<1>12. Times(r, g, 8) \in Register
  BY <1>1, <1>2, TimesLaws
<1>13. Times(SymDiff(Times(r, g, 8), v), g, d)
         = SymDiff(Times(Times(r, g, 8), g, d), Times(v, g, d))
  BY <1>1, <1>2, <1>12, TimesLinear
<1> QED
  BY <1>6, <1>7, <1>9, <1>10, <1>11, <1>13 DEF r, d

\* Nothing comes of nothing.
LEMMA StepsOfNothing ==
    ASSUME NEW g, Generator(g), NEW n \in Nat
    PROVE  DivideSteps({}, g, n) = {}
<1>1. {} \in Register /\ SymDiff({}, {}) = {}
  BY DEF Register, SymDiff
<1>2. DivideSteps(SymDiff({}, {}), g, n)
        = SymDiff(DivideSteps({}, g, n), DivideSteps({}, g, n))
  BY <1>1, StepsLinear
<1> QED
  BY <1>1, <1>2 DEF SymDiff

\* A CRC is zero exactly if the generator divides the data.
THEOREM CrcDivides ==
    ASSUME NEW g, Generator(g), NEW len \in Nat, NEW error,
           \A k \in 0 .. len - 1 : error[k] \in Byte
    PROVE  crc_compute(error, len, g) = {} <=> Residue(ErrorPolynomial(error, len), g) = {}
<1>1. PICK e \in [0 .. len -> Register] :
         /\ IsReg(e, error, len, g)
         /\ crc_compute(error, len, g) = DivideSteps(e[len], g, g.degree)
  BY RegExists
<1>2. g.degree \in Nat
  <2>1. g.degree \in 8 .. 32
    BY DEF Generator
  <2>2. \A d \in 8 .. 32 : d \in Nat
    OBVIOUS
  <2> QED
    BY <2>1, <2>2
<1> DEFINE E(k) == ErrorPolynomial(error, k)
           S == {k \in 0 .. len : e[k] = Times(Residue(E(k), g), g, g.degree)}
<1>3. 0 \in S
  <2>1. e[0] = {}
    BY <1>1, RegUnfolds
  <2>2. E(0) = {}
    BY DEF ErrorPolynomial
  <2>3. Residue(E(0), g) = {}
    BY <2>2, ResidueType
  <2>4. Times({}, g, g.degree) = {}
    BY <1>2, StepsOfNothing DEF Times, Low
  <2>5. 0 \in 0 .. len
    OBVIOUS
  <2> HIDE DEF E
  <2> QED
    BY <2>1, <2>3, <2>4, <2>5
<1>4. ASSUME NEW k \in 1 .. len, k - 1 \in S PROVE k \in S
  <2> DEFINE j == k - 1
  <2>1. j \in Nat /\ j + 1 = k /\ k \in 0 .. len /\ j \in 0 .. len - 1
    OBVIOUS
  <2>2. e[j] = Times(Residue(E(j), g), g, g.degree)
    BY <1>4
  <2>3. e[k] = NextReg(e[j], error[j], g)
    BY <1>1, RegUnfolds
  <2> HIDE DEF j
  <2>4. error[j] \in Byte
    BY <2>1
  <2>5. IsPolynomial(E(j))
    BY <2>1, ErrorPolynomialType
  <2>6. E(j + 1) = SymDiff(Shift(E(j), 8), error[j])
    BY <2>1, <2>4, ErrorPolynomialUp
  <2> HIDE DEF E
  <2>7. e[k] = Times(Residue(E(k), g), g, g.degree)
    BY <2>1, <2>2, <2>3, <2>4, <2>5, <2>6, NextRegOfError
  <2> QED
    BY <2>1, <2>7
<1>5. len \in S
  <2> HIDE DEF S
  <2>1. \A k \in 1 .. len : k - 1 \in S => k \in S
    BY <1>4
  <2>2. 0 .. len \subseteq S
    BY <1>3, <2>1, InductionUpTo
  <2>3. len \in 0 .. len
    OBVIOUS
  <2> QED
    BY <2>2, <2>3
<1> DEFINE r == Residue(E(len), g)
<1>6. r \in Register /\ Low(r, g) = r
  BY ResidueType
<1>7. e[len] = Times(r, g, g.degree) /\ e[len] \in Register
  BY <1>5
<1> HIDE DEF r
<1>8. /\ Times(r, g, g.degree) = {} <=> r = {}
      /\ Low(Times(r, g, g.degree), g) = Times(r, g, g.degree)
  <2> DEFINE d == g.degree
  <2> HIDE DEF d
  <2>1. d \in Nat
    BY <1>2 DEF d
  <2>2. Times(r, g, d) = {} <=> r = {}
    <3>1. Times(r, g, d) = {} <=> Low(r, g) = {}
      BY <2>1, <1>6, TimesLaws
    <3> QED
      BY <3>1, <1>6
  <2>3. Low(Times(r, g, d), g) = Times(r, g, d)
    BY <2>1, <1>6, TimesLaws
  <2> QED
    BY <2>2, <2>3 DEF d
<1>9. DivideSteps(e[len], g, g.degree) = {} => Low(e[len], g) = {}
  <2>1. Low({}, g) = {}
    BY DEF Low
  <2>2. e[len] \in Register
    BY <1>7
  <2>3. Low(DivideSteps(e[len], g, g.degree), g) = {} <=> Low(e[len], g) = {}
    BY <1>2, <2>2, StepsLow
  <2> QED
    BY <2>1, <2>3, Zenon
<1>10. e[len] = {} => DivideSteps(e[len], g, g.degree) = {}
  BY <1>2, StepsOfNothing
<1> QED
  BY <1>1, <1>7, <1>8, <1>9, <1>10 DEF r

-----------------------------------------------------------------------------
(* Damaged frames.                                                         *)

\* A bit by its byte and its number there.
LEMMA BitPlace ==
    /\ \A i \in Nat : /\ i \div 8 \in Nat /\ i % 8 \in 0 .. 7
                      /\ i = 8 * (i \div 8) + (i % 8)
    /\ \A k \in Nat, b \in 0 .. 7 : (8 * k + b) \div 8 = k /\ (8 * k + b) % 8 = b
<1>1. ASSUME NEW i \in Nat
      PROVE  /\ i \div 8 \in Nat /\ i % 8 \in 0 .. 7 /\ i = 8 * (i \div 8) + (i % 8)
  OBVIOUS
<1>2. ASSUME NEW k \in Nat, NEW b \in 0 .. 7
      PROVE  (8 * k + b) \div 8 = k /\ (8 * k + b) % 8 = b
  OBVIOUS
<1> QED
  BY <1>1, <1>2

\* What an error does to the bytes, and to the FCS that is received.
ErrorByte(error, k) == {b \in 0 .. 7 : 8 * k + b \in error}
ErrorBytes(error) == [k \in 0 .. FRAME_SIZE - 1 |-> ErrorByte(error, k)]
TrailerError(error) == {b \in 0 .. 31 : b % 8 \in ErrorByte(error, REGION_LEN + 3 - b \div 8)}

\* Flipping bits of a frame adds the error, byte by byte.
LEMMA FlippedFrame ==
    ASSUME NEW f \in FrameBytes, NEW error
    PROVE  /\ Flipped(f, error) \in FrameBytes
           /\ \A k \in 0 .. FRAME_SIZE - 1 :
                 /\ ErrorBytes(error)[k] = ErrorByte(error, k) /\ ErrorByte(error, k) \in Byte
                 /\ Flipped(f, error)[k] = SymDiff(f[k], ErrorByte(error, k))
<1>1. \A k : ErrorByte(error, k) \in Byte
  BY DEF ErrorByte, Byte
<1>2. \A A, B \in Byte : SymDiff(A, B) \in Byte
  BY DEF SymDiff, Byte
<1>3. Flipped(f, error) = [k \in 0 .. FRAME_SIZE - 1 |-> SymDiff(f[k], ErrorByte(error, k))]
  BY DEF Flipped, ErrorByte
<1> QED
  BY <1>1, <1>2, <1>3 DEF FrameBytes, ErrorBytes

\* The FCS that is received is the one that was sent plus the error in the trailer.
LEMMA ReceivedDamaged ==
    ASSUME NEW f \in FrameBytes, NEW fcs \in Register, NEW error
    PROVE  ReceivedFcs(Flipped(Sealed(f, fcs), error)) = SymDiff(fcs, TrailerError(error))
<1> DEFINE s == Sealed(f, fcs)
           h == Flipped(s, error)
           e(b) == ErrorByte(error, REGION_LEN + 3 - b \div 8)
<1>1. s \in FrameBytes
  BY SealedFrame
<1>2. ReceivedFcs(s) = fcs
  BY FcsSurvives
<1> HIDE DEF s
<1>3. ASSUME NEW b \in 0 .. 31
      PROVE  h[REGION_LEN + 3 - b \div 8] = SymDiff(s[REGION_LEN + 3 - b \div 8], e(b))
  <2>1. b \div 8 \in 0 .. 3
    OBVIOUS
  <2> DEFINE q == b \div 8
  <2> HIDE DEF q
  <2>2. REGION_LEN + 3 - q \in 0 .. FRAME_SIZE - 1
    BY <2>1, Sizes DEF q
  <2> QED
    BY <1>1, <2>2, FlippedFrame DEF q
<1> HIDE DEF h, e
<1>4. ReceivedFcs(h) = {b \in 0 .. 31 : b % 8 \in h[REGION_LEN + 3 - b \div 8]}
  BY DEF ReceivedFcs
<1>5. fcs = {b \in 0 .. 31 : b % 8 \in s[REGION_LEN + 3 - b \div 8]}
  BY <1>2 DEF ReceivedFcs
<1>6. TrailerError(error) = {b \in 0 .. 31 : b % 8 \in e(b)}
  BY DEF TrailerError, e
<1>7. ASSUME NEW b \in 0 .. 31
      PROVE  b % 8 \in h[REGION_LEN + 3 - b \div 8]
               <=> ~ (b % 8 \in s[REGION_LEN + 3 - b \div 8] <=> b % 8 \in e(b))
  BY <1>3, XorBits
<1> DEFINE X == ReceivedFcs(h)
           Y == SymDiff(fcs, TrailerError(error))
<1>8. \A b : b \in X <=> b \in Y
  <2>1. \A b : b \in Y <=> ~ (b \in fcs <=> b \in TrailerError(error))
    BY XorBits
  <2> QED
    BY <1>4, <1>5, <1>6, <1>7, <2>1
<1> HIDE DEF X, Y
<1>9. X = Y
  BY <1>8
<1> QED
  BY <1>9 DEF X, Y, h, s

\* The received FCS is damaged if and only if a bit of the trailer is hit.
LEMMA TrailerHit ==
    ASSUME NEW error, error \subseteq BitOfFrame
    PROVE  TrailerError(error) = {} <=> \A i \in error : i < 8 * REGION_LEN
<1>1. REGION_LEN \in Nat /\ FRAME_SIZE = REGION_LEN + 4
  BY Sizes
<1>2. ASSUME NEW i \in error, ~ (i < 8 * REGION_LEN) PROVE TrailerError(error) # {}
  <2> DEFINE k == i \div 8
             b == i % 8
             p == 8 * (REGION_LEN + 3 - k) + b
  <2>1. i \in Nat /\ i < 8 * (REGION_LEN + 4) /\ i >= 8 * REGION_LEN
    BY <1>1, <1>2 DEF BitOfFrame
  <2>2. k \in Nat /\ b \in 0 .. 7 /\ i = 8 * k + b
    BY <2>1, BitPlace
  <2> HIDE DEF k, b
  <2>3. REGION_LEN + 3 - k \in 0 .. 3
    BY <1>1, <2>1, <2>2
  <2>4. p \in 0 .. 31 /\ p \div 8 = REGION_LEN + 3 - k /\ p % 8 = b
    <3>1. REGION_LEN + 3 - k \in Nat
      BY <2>3
    <3>2. p \in 0 .. 31
      BY <2>2, <2>3
    <3> QED
      BY <2>2, <3>1, <3>2, BitPlace
  <2>5. REGION_LEN + 3 - p \div 8 = k
    BY <1>1, <2>2, <2>4
  <2>6. p % 8 \in ErrorByte(error, REGION_LEN + 3 - p \div 8)
    BY <1>2, <2>2, <2>4, <2>5 DEF ErrorByte
  <2> HIDE DEF p
  <2> QED
    BY <2>4, <2>6 DEF TrailerError
<1>3. ASSUME NEW p \in TrailerError(error) PROVE \E i \in error : ~ (i < 8 * REGION_LEN)
  <2> DEFINE k == REGION_LEN + 3 - p \div 8
             b == p % 8
  <2>1. p \in 0 .. 31 /\ b \in ErrorByte(error, k)
    BY DEF TrailerError
  <2>2. p \div 8 \in 0 .. 3
    BY <2>1
  <2>3. k \in Int /\ k >= REGION_LEN
    BY <1>1, <2>2
  <2> HIDE DEF k, b
  <2>4. b \in 0 .. 7 /\ 8 * k + b \in error
    BY <2>1 DEF ErrorByte
  <2>5. ~ (8 * k + b < 8 * REGION_LEN)
    BY <1>1, <2>3, <2>4
  <2> QED
    BY <2>4, <2>5
<1> QED
  BY <1>2, <1>3

\* The powers of the error, as the first byte of the region has the highest ones.
Powers(error) ==
    {8 * (REGION_LEN - 1 - (i \div 8)) + (i % 8) : i \in {j \in error : j < 8 * REGION_LEN}}

\* They are those of the error polynomial.
LEMMA PowersAre ==
    ASSUME NEW error, error \subseteq BitOfFrame
    PROVE  /\ Powers(error) = ErrorPolynomial(ErrorBytes(error), REGION_LEN)
           /\ Powers(error) \in SUBSET (0 .. 8 * REGION_LEN)
<1> DEFINE N == REGION_LEN
           P == Powers(error)
           E == ErrorPolynomial(ErrorBytes(error), N)
<1>1. N \in Nat /\ FRAME_SIZE = N + 4
  BY Sizes
<1>2. \A k \in 0 .. N - 1 : ErrorBytes(error)[k] = ErrorByte(error, k)
  BY <1>1 DEF ErrorBytes
<1>3. ASSUME NEW n \in P PROVE n \in E /\ n \in 0 .. 8 * N
  <2>1. PICK i \in error : i < 8 * N /\ n = 8 * (N - 1 - (i \div 8)) + (i % 8)
    BY DEF Powers
  <2> DEFINE k == i \div 8
             b == i % 8
  <2>2. i \in Nat
    BY <1>1 DEF BitOfFrame
  <2>3. k \in Nat /\ b \in 0 .. 7 /\ i = 8 * k + b
    BY <2>2, BitPlace
  <2>4. n = 8 * (N - 1 - k) + b
    BY <2>1
  <2> HIDE DEF k, b, N
  <2>5. k \in 0 .. N - 1
    BY <1>1, <2>1, <2>3
  <2>6. n \in Nat /\ n \in 0 .. 8 * N
    BY <1>1, <2>3, <2>4, <2>5
  <2>7. b \in ErrorBytes(error)[k]
    BY <1>2, <2>1, <2>3, <2>5 DEF ErrorByte
  <2> QED
    BY <2>3, <2>4, <2>5, <2>6, <2>7 DEF ErrorPolynomial
<1>4. ASSUME NEW n \in E PROVE n \in P
  <2>1. PICK k \in 0 .. N - 1, b \in 0 .. 7 :
          b \in ErrorBytes(error)[k] /\ n = 8 * (N - 1 - k) + b
    BY DEF ErrorPolynomial
  <2> DEFINE i == 8 * k + b
  <2> HIDE DEF N
  <2>2. i \in error
    BY <1>2, <2>1 DEF ErrorByte
  <2>3. k \in Nat /\ i < 8 * N
    BY <1>1
  <2>4. i \div 8 = k /\ i % 8 = b
    BY <2>3, BitPlace
  <2>5. n = 8 * (N - 1 - (i \div 8)) + (i % 8)
    BY <2>1, <2>4
  <2> HIDE DEF i
  <2> QED
    BY <2>2, <2>3, <2>5 DEF Powers, N
<1> HIDE DEF P, E
<1>5. P = E
  BY <1>3, <1>4
<1>6. P \in SUBSET (0 .. 8 * N)
  BY <1>3
<1> QED
  BY <1>5, <1>6 DEF P, E, N

\* Where the error begins does not matter to the division.
LEMMA LowestPower ==
    ASSUME NEW g, Generator(g), NEW error, error \subseteq BitOfFrame
    PROVE  Remainder(Polynomial(error), g) = {}
             <=> Residue(ErrorPolynomial(ErrorBytes(error), REGION_LEN), g) = {}
<1> DEFINE N == 8 * REGION_LEN
           P == Powers(error)
           m == Min(P)
           Q == {e - m : e \in P}
<1>1. N \in Nat
  BY Sizes
<1>2. P \in SUBSET (0 .. N) /\ P = ErrorPolynomial(ErrorBytes(error), REGION_LEN)
  BY PowersAre
<1>3. Polynomial(error) = Q
  BY DEF Polynomial, Powers
<1> HIDE DEF P, N
<1>4. CASE P = {}
  <2>1. Q = {} /\ {} \in SUBSET (0 .. N)
    BY <1>4
  <2>2. Remainder({}, g) = Residue({}, g)
    BY RemainderIs DEF N
  <2> QED
    BY <1>2, <1>3, <1>4, <2>1, <2>2
<1>5. CASE P # {}
  <2>1. P \subseteq Nat
    BY <1>2
  <2>2. m \in P /\ \A y \in P : m <= y
    <3>1. \E x \in P : \A y \in P : x <= y
      BY <1>5, <2>1, LeastElement
    <3> QED
      BY <3>1 DEF Min
  <2> HIDE DEF m
  <2>3. m \in Nat /\ \A y \in P : y - m \in 0 .. N /\ (y - m) + m = y
    BY <1>1, <1>2, <2>2
  <2>4. Q \in SUBSET (0 .. N)
    BY <2>3
  <2>5. P = Shift(Q, m)
    BY <2>3 DEF Shift
  <2> HIDE DEF Q
  <2>6. N \in Int
    BY <1>1
  <2>7. IsPolynomial(Q)
    BY <2>4, <2>6, BoundedPolynomial
  <2>8. Residue(P, g) = Times(Residue(Q, g), g, m)
    BY <2>3, <2>5, <2>7, ResidueShift
  <2>9. Residue(Q, g) \in Register /\ Low(Residue(Q, g), g) = Residue(Q, g)
    BY ResidueType
  <2>10. Times(Residue(Q, g), g, m) = {} <=> Residue(Q, g) = {}
    BY <2>3, <2>9, TimesLaws
  <2>11. Remainder(Q, g) = Residue(Q, g)
    BY <2>4, RemainderIs DEF N
  <2> QED
    BY <1>2, <1>3, <2>8, <2>10, <2>11
<1> QED
  BY <1>4, <1>5

\* A CRC accepts a damaged frame exactly if the error in the region and the error in the
\* trailer make the same difference.
LEMMA CrcOfDamaged ==
    ASSUME NEW g, Generator(g), NEW f \in FrameBytes, NEW error
    PROVE  LET fcs   == crc_compute(f, REGION_LEN, g)
               frame == Flipped(Sealed(f, fcs), error)
           IN  /\ fcs \in Register
               /\ crc_verify(frame, REGION_LEN, g, ReceivedFcs(frame))
                    <=> crc_compute(ErrorBytes(error), REGION_LEN, g) = TrailerError(error)
<1> DEFINE N == REGION_LEN
           fcs == crc_compute(f, N, g)
           s == Sealed(f, fcs)
           h == Flipped(s, error)
           e == ErrorBytes(error)
<1>1. N \in Nat /\ \A k \in 0 .. N - 1 : k \in 0 .. FRAME_SIZE - 1
  BY Sizes
<1>2. \A k \in 0 .. N - 1 : f[k] \in Byte
  BY <1>1 DEF FrameBytes
<1>3. fcs \in Register
  <2>1. \A k \in 0 .. N - 1 : f[k] \in Byte /\ f[k] = f[k]
    BY <1>2
  <2> QED
    BY <1>1, <2>1, CrcIsLocal
<1> HIDE DEF N
<1>4. s \in FrameBytes /\ \A k \in 0 .. N - 1 : s[k] = f[k]
  <2> HIDE DEF fcs
  <2> QED
    BY <1>3, SealedFrame DEF N
<1>5. crc_compute(s, N, g) = fcs
  <2>1. \A k \in 0 .. N - 1 : f[k] \in Byte /\ s[k] = f[k]
    BY <1>2, <1>4
  <2> HIDE DEF s
  <2> QED
    BY <1>1, <2>1, CrcIsLocal
<1>6. \A k \in 0 .. N - 1 : s[k] \in Byte /\ e[k] \in Byte /\ h[k] = SymDiff(s[k], e[k])
  <2> HIDE DEF s
  <2>1. ASSUME NEW k \in 0 .. FRAME_SIZE - 1
        PROVE  s[k] \in Byte /\ e[k] \in Byte /\ h[k] = SymDiff(s[k], e[k])
    <3>1. s[k] \in Byte
      BY <1>4 DEF FrameBytes
    <3>2. e[k] = ErrorByte(error, k) /\ ErrorByte(error, k) \in Byte
          /\ h[k] = SymDiff(s[k], ErrorByte(error, k))
      BY <1>4, FlippedFrame
    <3> QED
      BY <3>1, <3>2
  <2> QED
    BY <1>1, <2>1
<1>7. ReceivedFcs(h) = SymDiff(fcs, TrailerError(error))
  <2> HIDE DEF fcs
  <2> QED
    BY <1>3, ReceivedDamaged
<1> HIDE DEF s, h, e
<1>8. crc_compute(h, N, g) = SymDiff(crc_compute(s, N, g), crc_compute(e, N, g))
  BY <1>1, <1>6, CrcIsLinear
<1> HIDE DEF fcs
<1>9. \A A, B, C : SymDiff(A, B) = SymDiff(A, C) <=> B = C
  BY DEF SymDiff
<1>10. crc_verify(h, N, g, ReceivedFcs(h)) <=> crc_compute(e, N, g) = TrailerError(error)
  BY <1>5, <1>7, <1>8, <1>9 DEF crc_verify
<1> QED
  BY <1>3, <1>10 DEF fcs, s, h, e, N

\* What remains within the region, or within the trailer, is decided by the division.
THEOREM CrcVerdict ==
    ASSUME NEW g, Generator(g), NEW f \in FrameBytes,
           NEW error, error \subseteq BitOfFrame,
           \/ \A i \in error : i < 8 * REGION_LEN
           \/ \A i \in error : ~ (i < 8 * REGION_LEN)
    PROVE  LET frame == Flipped(Sealed(f, crc_compute(f, REGION_LEN, g)), error)
           IN  crc_verify(frame, REGION_LEN, g, ReceivedFcs(frame))
                 <=> /\ Remainder(Polynomial(error), g) = {}
                     /\ \A i \in error : i < 8 * REGION_LEN
<1> DEFINE N == REGION_LEN
           e == ErrorBytes(error)
           frame == Flipped(Sealed(f, crc_compute(f, REGION_LEN, g)), error)
           valid == crc_verify(frame, REGION_LEN, g, ReceivedFcs(frame))
<1>1. valid <=> crc_compute(e, N, g) = TrailerError(error)
  BY CrcOfDamaged
<1> HIDE DEF valid
<1>2. crc_compute(e, N, g) = {} <=> Residue(ErrorPolynomial(e, N), g) = {}
  <2>1. N \in Nat /\ \A k \in 0 .. N - 1 : k \in 0 .. FRAME_SIZE - 1
    BY Sizes
  <2>2. \A k : ErrorByte(error, k) \in Byte
    BY DEF ErrorByte, Byte
  <2>3. \A k \in 0 .. N - 1 : e[k] \in Byte
    BY <2>1, <2>2 DEF ErrorBytes
  <2> HIDE DEF e, N
  <2> QED
    BY <2>1, <2>3, CrcDivides
<1>3. Remainder(Polynomial(error), g) = {} <=> Residue(ErrorPolynomial(e, N), g) = {}
  BY LowestPower
<1>4. TrailerError(error) = {} <=> \A i \in error : i < 8 * REGION_LEN
  BY TrailerHit
<1>5. CASE \A i \in error : i < 8 * REGION_LEN
  BY <1>1, <1>2, <1>3, <1>4, <1>5 DEF valid
<1>6. CASE (\A i \in error : ~ (i < 8 * REGION_LEN)) /\ error # {}
  <2>1. Powers(error) = {}
    BY <1>6 DEF Powers
  <2>2. ErrorPolynomial(e, N) = {}
    BY <2>1, PowersAre
  <2>3. crc_compute(e, N, g) = {}
    BY <1>2, <2>2, ResidueType
  <2>4. TrailerError(error) # {}
    BY <1>4, <1>6
  <2>5. ~ \A i \in error : i < 8 * REGION_LEN
    BY <1>6
  <2> QED
    BY <1>1, <2>3, <2>4, <2>5 DEF valid
<1> QED
  BY <1>5, <1>6

-----------------------------------------------------------------------------
(* The errors that are injected, under a CRC.                              *)

\* Each of them hits the region or the trailer, and only a flip the trailer.
LEMMA DamagePlace ==
    ASSUME NEW f, scheme \in Scheme, NEW d \in {NoDamage} \cup Damages(f)
    PROVE  \/ \A i \in d.error : i < 8 * REGION_LEN
           \/ d.kind = "flip" /\ \A i \in d.error : ~ (i < 8 * REGION_LEN)
<1>1. ASSUME NEW e \in SingleFlips
      PROVE  (\A i \in e : i < 8 * REGION_LEN) \/ \A i \in e : ~ (i < 8 * REGION_LEN)
  BY <1>1 DEF SingleFlips
<1>2. ASSUME NEW e \in CompensatingErrors(f) PROVE \A i \in e : i < 8 * REGION_LEN
  <2> DEFINE Bit(word, c) == IF c < 8 THEN 8 * (2 * word + 1) + c ELSE 8 * (2 * word) + c - 8
  <2>1. PICK t \in Words \X Words \X (0 .. 15) : e = {Bit(t[1], t[3]), Bit(t[2], t[3])}
    BY <1>2 DEF CompensatingErrors
  <2>2. ASSUME NEW w \in Words, NEW c \in 0 .. 15 PROVE Bit(w, c) < 8 * REGION_LEN
    <3>1. w \in 0 .. (REGION_LEN \div 2) - 1
      BY WordsAssumption
    <3>2. w \in Nat /\ 2 * w + 1 < REGION_LEN
      BY <3>1, Sizes
    <3> QED
      BY <3>2, Sizes
  <2> HIDE DEF Bit
  <2> QED
    BY <2>1, <2>2
<1>3. ASSUME NEW length \in Nat, NEW e \in Bursts(length)
      PROVE  \A i \in e : i < 8 * REGION_LEN
  <2>1. PICK i \in 0 .. 8 * REGION_LEN - length : e = i .. i + length - 1
    BY <1>3 DEF Bursts
  <2>2. 8 * REGION_LEN - length \in Int /\ 8 * REGION_LEN \in Int
    BY Sizes
  <2> QED
    BY <2>1, <2>2
<1>4. ASSUME NEW g, Generator(g)
      PROVE  \A i \in GeneratorMultiple(g) : i < 8 * REGION_LEN
  <2>1. ASSUME NEW k \in 0 .. g.degree PROVE 8 * (k \div 8) + 7 - (k % 8) < 8 * REGION_LEN
    <3>1. k \in 0 .. 32
      BY <1>4 DEF Generator
    <3>2. 8 * (k \div 8) + 7 - (k % 8) \in 0 .. 39
      BY <3>1
    <3> QED
      BY <3>2, Sizes
  <2> QED
    BY <2>1 DEF GeneratorMultiple
<1>5. CASE d = NoDamage
  BY <1>5 DEF NoDamage
<1>6. CASE d \in {[kind |-> "flip", error |-> e] : e \in SingleFlips}
            \/ d \in {[kind |-> "compensating", error |-> e] : e \in CompensatingErrors(f)}
  BY <1>6, <1>1, <1>2
<1>7. CASE scheme # "checksum"
            /\ LET g == crc_generator(scheme)
               IN  \/ d \in {[kind |-> "burst", error |-> e] :
                               e \in Bursts(g.degree) \cup Bursts(g.degree + 1)}
                   \/ d = [kind |-> "multiple", error |-> GeneratorMultiple(g)]
  <2> DEFINE g == crc_generator(scheme)
  <2>1. Generator(g)
    BY <1>7, Generators DEF Scheme
  <2>2. g.degree \in Nat /\ g.degree + 1 \in Nat
    BY <2>1 DEF Generator
  <2>3. \/ \E e \in Bursts(g.degree) \cup Bursts(g.degree + 1) : d.error = e
        \/ d.error = GeneratorMultiple(g)
    BY <1>7
  <2> QED
    BY <2>1, <2>2, <2>3, <1>3, <1>4
<1> QED
  BY <1>5, <1>6, <1>7 DEF Damages

\* No power of x is a multiple of the generator.
LEMMA FlipLeavesRest ==
    ASSUME NEW g, Generator(g), NEW i \in BitOfFrame, i < 8 * REGION_LEN
    PROVE  Remainder(Polynomial({i}), g) # {}
<1> DEFINE n == 8 * (REGION_LEN - 1 - (i \div 8)) + (i % 8)
<1>1. {i} \subseteq BitOfFrame
  OBVIOUS
<1>2. Powers({i}) = {n}
  BY DEF Powers
<1>3. n \in Nat
  <2>1. Powers({i}) \in SUBSET (0 .. 8 * REGION_LEN) /\ 8 * REGION_LEN \in Nat
    BY <1>1, PowersAre, Sizes
  <2> HIDE DEF n
  <2> QED
    BY <1>2, <2>1
<1> HIDE DEF n
<1>4. Residue({n}, g) = Power(n, g)
  BY <1>3, ResidueLow
<1>5. {0} \in Register /\ Low({0}, g) # {}
  <2>1. 0 \in 0 .. g.degree - 1
    BY DEF Generator
  <2> QED
    BY <2>1 DEF Register, Low
<1>6. Power(n, g) # {}
  BY <1>3, <1>5, TimesLaws DEF Power
<1> QED
  BY <1>1, <1>2, <1>4, <1>6, PowersAre, LowestPower

\* The generator laid over the frame is one.
LEMMA MultipleLeavesNothing ==
    ASSUME NEW g, Generator(g)
    PROVE  /\ GeneratorMultiple(g) \subseteq BitOfFrame
           /\ Remainder(Polynomial(GeneratorMultiple(g)), g) = {}
<1> DEFINE N == REGION_LEN
           M == GeneratorMultiple(g)
           d == g.degree
           up == 8 * N - 1 - d
           Term(k) == k = 0 \/ d - k \in g.poly
           at(k) == 8 * (k \div 8) + 7 - (k % 8)
<1>1. N \in Nat /\ N >= 18 /\ FRAME_SIZE = N + 4 /\ d \in 8 .. 32 /\ up \in Nat
  BY Sizes DEF Generator
<1>2. ASSUME NEW k \in 0 .. d
      PROVE  /\ at(k) \in 0 .. 39 /\ at(k) < 8 * N /\ at(k) \in BitOfFrame
             /\ 8 * (N - 1 - (at(k) \div 8)) + (at(k) % 8) = (d - k) + up
  <2> DEFINE q == k \div 8
             b == k % 8
  <2>1. k \in 0 .. 32
    BY <1>1
  <2>2. q \in 0 .. 4 /\ b \in 0 .. 7 /\ k = 8 * q + b
    BY <2>1
  <2>3. at(k) = 8 * q + 7 - b
    OBVIOUS
  <2> HIDE DEF q, b
  <2>4. q \in Nat /\ 7 - b \in 0 .. 7 /\ 8 * q + 7 - b = 8 * q + (7 - b)
    BY <2>2
  <2>5. at(k) \div 8 = q /\ at(k) % 8 = 7 - b
    <3> DEFINE c == 7 - b
    <3>1. c \in 0 .. 7 /\ at(k) = 8 * q + c
      BY <2>3, <2>4
    <3> HIDE DEF c, at
    <3>2. (8 * q + c) \div 8 = q /\ (8 * q + c) % 8 = c
      BY <2>4, <3>1, BitPlace
    <3> QED
      BY <3>1, <3>2 DEF c
  <2>6. at(k) \in 0 .. 39
    <3>1. 8 * q + (7 - b) \in 0 .. 39
      BY <2>2
    <3> HIDE DEF at
    <3> QED
      BY <2>3, <2>4, <3>1
  <2> HIDE DEF at, N, d
  <2>7. 8 * (N - 1 - q) + (7 - b) = (d - k) + (8 * N - 1 - d)
    BY <1>1, <2>2
  <2>8. at(k) < 8 * N /\ at(k) \in BitOfFrame
    BY <1>1, <2>6 DEF BitOfFrame
  <2> QED
    BY <2>5, <2>6, <2>7, <2>8
<1>3. M = {at(k) : k \in {n \in 0 .. d : Term(n)}}
  BY DEF GeneratorMultiple
<1> HIDE DEF at
<1>4. M \subseteq BitOfFrame /\ \A i \in M : i < 8 * N
  <2> HIDE DEF M, Term
  <2> QED
    BY <1>2, <1>3
<1>5. \A e : e \in Divisor(g) <=> \E k \in 0 .. d : Term(k) /\ e = d - k
  <2>1. \A e \in Divisor(g) : e \in 0 .. d /\ d - e \in 0 .. d /\ d - (d - e) = e
    <3>1. \A e \in Divisor(g) : e \in 0 .. d
      BY DivisorVanishes
    <3>2. \A e \in 0 .. d : d - e \in 0 .. d /\ d - (d - e) = e
      BY <1>1
    <3> QED
      BY <3>1, <3>2
  <2>2. ASSUME NEW e \in Divisor(g) PROVE \E k \in 0 .. d : Term(k) /\ e = d - k
    <3>1. CASE e = d
      <4>1. 0 \in 0 .. d /\ d - 0 = d
        BY <1>1
      <4> QED
        BY <3>1, <4>1
    <3>2. CASE e # d
      <4>1. e \in g.poly
        BY <3>2 DEF Divisor
      <4>2. d - e \in 0 .. d /\ d - (d - e) = e
        BY <2>1
      <4>3. Term(d - e)
        BY <4>1, <4>2
      <4> HIDE DEF Term
      <4> QED
        BY <4>2, <4>3
    <3> QED
      BY <3>1, <3>2
  <2>3. ASSUME NEW k \in 0 .. d, Term(k) PROVE d - k \in Divisor(g)
    <3>1. CASE k = 0
      <4>1. d - k = d
        BY <3>1, <1>1
      <4> QED
        BY <4>1 DEF Divisor
    <3>2. CASE k # 0
      BY <3>2, <2>3 DEF Divisor
    <3> QED
      BY <3>1, <3>2
  <2> HIDE DEF Term
  <2> QED
    BY <2>2, <2>3
<1> HIDE DEF Term
<1>6. Powers(M) = Shift(Divisor(g), up)
  <2> DEFINE pow(i) == 8 * (N - 1 - (i \div 8)) + (i % 8)
             P == Powers(M)
             Q == Shift(Divisor(g), up)
  <2>1. P = {pow(i) : i \in {j \in M : j < 8 * N}}
    BY DEF Powers
  <2>2. \A k \in 0 .. d : pow(at(k)) = (d - k) + up
    BY <1>2
  <2>3. Q = {e + up : e \in Divisor(g)}
    BY DEF Shift
  <2> HIDE DEF pow, P, Q, M, up, d, N
  <2>4. ASSUME NEW n \in P PROVE n \in Q
    <3>1. PICK i \in M : n = pow(i)
      BY <2>1
    <3>2. PICK k \in 0 .. d : Term(k) /\ i = at(k)
      BY <1>3
    <3>3. n = (d - k) + up /\ d - k \in Divisor(g)
      BY <3>1, <3>2, <2>2, <1>5
    <3> QED
      BY <3>3, <2>3
  <2>5. ASSUME NEW n \in Q PROVE n \in P
    <3>1. PICK e \in Divisor(g) : n = e + up
      BY <2>3
    <3>2. PICK k \in 0 .. d : Term(k) /\ e = d - k
      BY <1>5
    <3>3. at(k) \in M /\ at(k) < 8 * N
      BY <3>2, <1>3, <1>4
    <3>4. n = pow(at(k))
      BY <3>1, <3>2, <2>2
    <3> QED
      BY <3>3, <3>4, <2>1
  <2>6. P = Q
    BY <2>4, <2>5
  <2> QED
    BY <2>6 DEF P, Q
<1>7. Residue(Powers(M), g) = Times({}, g, up)
  <2> HIDE DEF M, up
  <2> QED
    BY <1>1, <1>6, DivisorVanishes, ResidueShift
<1>8. Times({}, g, up) = {}
  <2> HIDE DEF up
  <2> QED
    BY <1>1, StepsOfNothing DEF Times, Low
<1> HIDE DEF M, up
<1>9. Residue(ErrorPolynomial(ErrorBytes(M), REGION_LEN), g) = {}
  BY <1>4, <1>7, <1>8, PowersAre
<1>10. Remainder(Polynomial(M), g) = {}
  BY <1>4, <1>9, LowestPower
<1> QED
  BY <1>4, <1>10 DEF M

-----------------------------------------------------------------------------
(* The words of a region, added up as they are.                            *)

WordCount == (REGION_LEN + 1) \div 2
WordAt(f, w) == 256 * Value(f[2 * w]) + Value(f[2 * w + 1])

\* All words lie within the frame and are 16 bits wide.
LEMMA WordAtType ==
    /\ WordCount \in Nat /\ WordCount > 0
    /\ \A w \in 0 .. WordCount - 1 : /\ 2 * w \in 0 .. REGION_LEN
                                     /\ 2 * w + 1 \in 0 .. REGION_LEN
    /\ 0 .. REGION_LEN \subseteq 0 .. FRAME_SIZE - 1
    /\ \A f \in FrameBytes : \A w \in 0 .. WordCount - 1 :
          WordAt(f, w) \in Nat /\ WordAt(f, w) <= 65535
<1>1. WordCount \in Nat /\ WordCount > 0
  BY Sizes DEF WordCount
<1>2. ASSUME NEW w \in 0 .. WordCount - 1
      PROVE  2 * w \in 0 .. REGION_LEN /\ 2 * w + 1 \in 0 .. REGION_LEN
  BY Sizes DEF WordCount
<1>3. 0 .. REGION_LEN \subseteq 0 .. FRAME_SIZE - 1
  BY Sizes
<1>4. ASSUME NEW f \in FrameBytes, NEW w \in 0 .. WordCount - 1
      PROVE  WordAt(f, w) \in Nat /\ WordAt(f, w) <= 65535
  <2>1. f[2 * w] \in Byte /\ f[2 * w + 1] \in Byte
    BY <1>2, <1>3 DEF FrameBytes
  <2>2. /\ Value(f[2 * w]) \in Nat /\ Value(f[2 * w]) <= 255
        /\ Value(f[2 * w + 1]) \in Nat /\ Value(f[2 * w + 1]) <= 255
    BY <2>1, ValueType
  <2> QED
    BY <2>2 DEF WordAt
<1> QED
  BY <1>1, <1>2, <1>3, <1>4

\* The totals after so many words.
IsTotals(total, f) ==
    /\ total \in [0 .. WordCount -> Nat]
    /\ total[0] = 0
    /\ \A k \in 1 .. WordCount : total[k] = total[k - 1] + WordAt(f, k - 1)

\* There are such totals.
LEMMA TotalsExist ==
    ASSUME NEW f \in FrameBytes
    PROVE  \E total : IsTotals(total, f)
<1> DEFINE n == WordCount
           more == [k \in Nat |-> [t \in Nat |->
                      IF k \in 1 .. n THEN t + WordAt(f, k - 1) ELSE t]]
<1>1. n \in Nat /\ 0 \in Nat
  BY WordAtType
<1>2. \A k \in 1 .. n : WordAt(f, k - 1) \in Nat
  <2>1. \A k \in 1 .. n : k - 1 \in 0 .. n - 1
    BY <1>1
  <2> QED
    BY <2>1, WordAtType
<1> HIDE DEF n
<1>3. more \in [Nat -> [Nat -> Nat]]
  BY <1>2
<1> HIDE DEF more
<1>4. PICK t : Runs(t, n, Nat, 0, more)
  BY <1>1, <1>3, Recursion
<1>5. ASSUME NEW k \in 1 .. n PROVE t[k] = t[k - 1] + WordAt(f, k - 1)
  <2>1. t[k] = more[k][t[k - 1]] /\ t[k - 1] \in Nat /\ k \in Nat
    BY <1>1, <1>4 DEF Runs
  <2> QED
    BY <2>1 DEF more
<1>6. t \in [0 .. n -> Nat] /\ t[0] = 0
  BY <1>4 DEF Runs
<1> QED
  BY <1>5, <1>6 DEF IsTotals, n

\* The function that WordsOf defines, for all sets of words.
IsWordSum(sum, f, S) ==
    sum = [s \in SUBSET S |->
             IF s = {}
               THEN 0
               ELSE WordAt(f, CHOOSE x \in s : TRUE) + sum[s \ {CHOOSE x \in s : TRUE}]]

\* It takes the words in whatever order: it is the last of the totals.
LEMMA WordsOfIs ==
    ASSUME NEW f \in FrameBytes, NEW total, IsTotals(total, f)
    PROVE  WordsOf(f) = total[WordCount]
<1> DEFINE n == WordCount
           S == 0 .. n - 1
           word == [w \in S |-> WordAt(f, w)]
           V == [SUBSET S -> Nat]
           none == [s \in SUBSET S |-> 0]
           more == [k \in Nat |-> [h \in V |-> [s \in SUBSET S |->
                      IF k - 1 \in s THEN h[s] + word[k - 1] ELSE h[s]]]]
           sum == CHOOSE g : IsWordSum(g, f, S)
<1>1. n \in Nat /\ (REGION_LEN - 1) \div 2 = n - 1
  BY Sizes DEF WordCount
<1>2. WordsOf(f) = sum[S]
  BY <1>1 DEF WordsOf, MapThenSumSet, MapThenFoldSet, IsWordSum, WordAt
<1>3. word \in [S -> Nat]
  BY WordAtType
<1> HIDE DEF word, sum
<1>4. none \in V /\ more \in [Nat -> [V -> V]]
  <2>1. ASSUME NEW k \in Nat, NEW h \in V
        PROVE  [s \in SUBSET S |-> IF k - 1 \in s THEN h[s] + word[k - 1] ELSE h[s]] \in V
    <3>1. \A s \in SUBSET S : k - 1 \in s => word[k - 1] \in Nat
      BY <1>3
    <3> HIDE DEF S
    <3> QED
      BY <3>1
  <2> HIDE DEF V, S
  <2>2. none \in V
    BY DEF V
  <2> QED
    BY <2>1, <2>2
<1> HIDE DEF more, none, n
<1>5. PICK t : Runs(t, n, V, none, more)
  <2> HIDE DEF V
  <2> QED
    BY <1>1, <1>4, Recursion
<1>6. /\ \A k \in 0 .. n : t[k] \in V
      /\ \A s \in SUBSET S : t[0][s] = 0
      /\ \A k \in 1 .. n : \A s \in SUBSET S :
            t[k][s] = IF k - 1 \in s THEN t[k - 1][s] + word[k - 1] ELSE t[k - 1][s]
  <2>1. t \in [0 .. n -> V] /\ t[0] = none /\ \A k \in 1 .. n : t[k] = more[k][t[k - 1]]
    BY <1>5 DEF Runs
  <2>2. \A s \in SUBSET S : t[0][s] = 0
    <3> HIDE DEF S
    <3> QED
      BY <2>1 DEF none
  <2>3. ASSUME NEW k \in 1 .. n, NEW s \in SUBSET S
        PROVE t[k][s] = IF k - 1 \in s THEN t[k - 1][s] + word[k - 1] ELSE t[k - 1][s]
    <3>1. k \in Nat /\ k - 1 \in 0 .. n
      BY <1>1
    <3>2. t[k - 1] \in V
      <4> HIDE DEF V
      <4> QED
        BY <2>1, <3>1
    <3> HIDE DEF S, V
    <3> QED
      BY <2>1, <3>1, <3>2 DEF more
  <2> HIDE DEF S, V
  <2> QED
    BY <2>1, <2>2, <2>3
<1> HIDE DEF V
\* Without one of its words a set has that word less.
<1>7. ASSUME NEW s \in SUBSET S, NEW x \in s
      PROVE  t[n][s] = word[x] + t[n][s \ {x}]
  <2> DEFINE r == s \ {x}
             K == {k \in 0 .. n : t[k][s] = (IF x < k THEN word[x] ELSE 0) + t[k][r]}
  <2>1. x \in Nat /\ x < n /\ word[x] \in Nat /\ r \in SUBSET S
    BY <1>1, <1>3
  <2>2. \A k \in 1 .. n : k - 1 \in s <=> (k - 1 \in r \/ k - 1 = x)
    OBVIOUS
  <2>3. \A k \in 1 .. n : k - 1 = x => k - 1 \notin r
    OBVIOUS
  <2>4. \A k \in 0 .. n : t[k][s] \in Nat /\ t[k][r] \in Nat
    <3> HIDE DEF S, r
    <3> QED
      BY <1>6, <2>1 DEF V
  <2>5. \A k \in 1 .. n : /\ k \in 0 .. n /\ k - 1 \in 0 .. n
                          /\ (k - 1 \in r => word[k - 1] \in Nat)
    <3>1. \A k \in 1 .. n : k \in 0 .. n /\ k - 1 \in 0 .. n
      BY <1>1
    <3>2. \A k \in 1 .. n : k - 1 \in r => k - 1 \in S
      OBVIOUS
    <3> HIDE DEF S, r
    <3> QED
      BY <3>1, <3>2, <1>3
  <2> HIDE DEF r
  <2>6. 0 \in K
    <3>1. 0 \in 0 .. n /\ ~ (x < 0)
      BY <1>1, <2>1
    <3>2. t[0][s] = 0 /\ t[0][r] = 0
      <4> HIDE DEF S
      <4> QED
        BY <1>6, <2>1
    <3> QED
      BY <3>1, <3>2
  <2>7. ASSUME NEW k \in 1 .. n, k - 1 \in K PROVE k \in K
    <3> DEFINE a == t[k - 1][s]
               b == t[k - 1][r]
    <3>1. a = (IF x < k - 1 THEN word[x] ELSE 0) + b /\ a \in Nat /\ b \in Nat
      BY <2>7, <2>4, <2>5
    <3>2. t[k][s] = IF k - 1 \in s THEN a + word[k - 1] ELSE a
      <4> HIDE DEF S
      <4> QED
        BY <1>6
    <3>3. t[k][r] = IF k - 1 \in r THEN b + word[k - 1] ELSE b
      <4> HIDE DEF S
      <4> QED
        BY <1>6, <2>1
    <3> HIDE DEF a, b, S
    <3>4. CASE k - 1 = x
      <4>1. t[k][s] = a + word[x] /\ t[k][r] = b /\ ~ (x < k - 1) /\ x < k
        BY <3>2, <3>3, <3>4, <2>2, <2>3, <2>1
      <4> QED
        BY <4>1, <3>1, <2>1, <2>5
    <3>5. CASE k - 1 # x /\ k - 1 \in r
      <4>1. t[k][s] = a + word[k - 1] /\ t[k][r] = b + word[k - 1] /\ word[k - 1] \in Nat
        BY <3>2, <3>3, <3>5, <2>2, <2>5
      <4>2. x < k - 1 <=> x < k
        BY <3>5, <2>1
      <4> QED
        BY <4>1, <4>2, <3>1, <2>1, <2>5
    <3>6. CASE k - 1 # x /\ k - 1 \notin r
      <4>1. t[k][s] = a /\ t[k][r] = b
        BY <3>2, <3>3, <3>6, <2>2
      <4>2. x < k - 1 <=> x < k
        BY <3>6, <2>1
      <4> QED
        BY <4>1, <4>2, <3>1, <2>1, <2>5
    <3> QED
      BY <3>4, <3>5, <3>6
  <2>8. n \in K
    <3> HIDE DEF K
    <3>1. \A k \in 1 .. n : k - 1 \in K => k \in K
      BY <2>7
    <3>2. 0 .. n \subseteq K
      BY <1>1, <2>6, <3>1, InductionUpTo
    <3>3. n \in 0 .. n
      BY <1>1
    <3> QED
      BY <3>2, <3>3
  <2> QED
    BY <2>1, <2>8 DEF r
\* So the last of these functions is the one that the fold defines, ...
<1>8. \A s \in SUBSET S : \A x \in s : WordAt(f, x) = word[x]
  BY DEF word
<1>9. t[n][{}] = 0
  <2> DEFINE K == {k \in 0 .. n : t[k][{}] = 0}
  <2>1. {} \in SUBSET S
    OBVIOUS
  <2> HIDE DEF S
  <2>2. 0 \in K
    BY <1>1, <1>6, <2>1
  <2>3. \A k \in 1 .. n : k - 1 \in K => k \in K
    <3>1. \A k \in 1 .. n : k \in 0 .. n /\ k - 1 \notin {}
      BY <1>1
    <3> QED
      BY <3>1, <1>6, <2>1
  <2> HIDE DEF K
  <2>4. 0 .. n \subseteq K
    BY <1>1, <2>2, <2>3, InductionUpTo
  <2>5. n \in 0 .. n
    BY <1>1
  <2>6. n \in K
    BY <2>4, <2>5
  <2> QED
    BY <2>6 DEF K
<1> DEFINE final == [s \in SUBSET S |-> t[n][s]]
<1>10. IsWordSum(final, f, S)
  <2>1. ASSUME NEW s \in SUBSET S, s # {}
        PROVE  LET x == CHOOSE x \in s : TRUE IN t[n][s] = WordAt(f, x) + final[s \ {x}]
    <3> DEFINE x == CHOOSE x \in s : TRUE
    <3>1. x \in s /\ s \ {x} \in SUBSET S
      BY <2>1
    <3> HIDE DEF x, S
    <3>2. t[n][s] = word[x] + t[n][s \ {x}]
      BY <3>1, <1>7
    <3> QED
      BY <3>1, <3>2, <1>8 DEF x
  <2> HIDE DEF S
  <2> QED
    BY <1>9, <2>1 DEF IsWordSum
<1> HIDE DEF final
<1>11. IsWordSum(sum, f, S)
  BY <1>10 DEF sum
\* ... which there is only one of, ...
<1> DEFINE Small(k) == {s \in SUBSET S : IsFiniteSet(s) /\ Cardinality(s) = k}
           K == {k \in 0 .. n : \A s \in Small(k) : sum[s] = t[n][s]}
<1>12. \A s \in SUBSET S :
          sum[s] = IF s = {} THEN 0
                   ELSE WordAt(f, CHOOSE x \in s : TRUE) + sum[s \ {CHOOSE x \in s : TRUE}]
  <2> HIDE DEF S
  <2> QED
    BY <1>11 DEF IsWordSum
<1>13. 0 \in K
  <2>1. ASSUME NEW s \in Small(0) PROVE s = {}
    BY FS_EmptySet
  <2>2. {} \in SUBSET S /\ 0 \in 0 .. n
    BY <1>1
  <2>3. sum[{}] = 0
    <3> HIDE DEF S
    <3> QED
      BY <1>12, <2>2
  <2> HIDE DEF S
  <2> QED
    BY <2>1, <2>2, <2>3, <1>9
<1>14. ASSUME NEW k \in 1 .. n, k - 1 \in K PROVE k \in K
  <2>1. ASSUME NEW s \in Small(k) PROVE sum[s] = t[n][s]
    <3> DEFINE x == CHOOSE x \in s : TRUE
               r == s \ {x}
    <3>1. k # 0 /\ k \in Nat
      BY <1>1
    <3>2. s \in SUBSET S /\ IsFiniteSet(s) /\ Cardinality(s) = k
      OBVIOUS
    <3>3. s # {}
      BY <3>1, <3>2, FS_EmptySet
    <3>4. x \in s
      BY <3>3
    <3> HIDE DEF x
    <3>5. IsFiniteSet(r) /\ Cardinality(r) = k - 1
      BY <3>2, <3>4, FS_RemoveElement
    <3>6. r \in SUBSET S
      BY <3>2
    <3>7. r \in Small(k - 1)
      BY <3>5, <3>6
    <3>8. sum[r] = t[n][r]
      BY <1>14, <3>7
    <3>9. sum[s] = WordAt(f, x) + sum[r]
      <4> HIDE DEF S
      <4> QED
        BY <1>12, <3>2, <3>3 DEF x
    <3> HIDE DEF S
    <3>10. t[n][s] = word[x] + t[n][r] /\ WordAt(f, x) = word[x]
      BY <1>7, <1>8, <3>2, <3>4
    <3> QED
      BY <3>8, <3>9, <3>10
  <2>2. k \in 0 .. n
    BY <1>1
  <2> HIDE DEF Small
  <2> QED
    BY <2>1, <2>2
<1>15. sum[S] = t[n][S]
  <2>1. IsFiniteSet(S) /\ Cardinality(S) = n /\ S \in SUBSET S
    <3>1. 0 \in Int /\ n - 1 \in Int /\ (IF 0 > n - 1 THEN 0 ELSE n - 1 - 0 + 1) = n
      BY <1>1
    <3>2. IsFiniteSet(S) /\ Cardinality(S) = IF 0 > n - 1 THEN 0 ELSE n - 1 - 0 + 1
      BY <3>1, FS_Interval
    <3> QED
      BY <3>1, <3>2
  <2>2. n \in K
    <3> HIDE DEF K
    <3>1. \A k \in 1 .. n : k - 1 \in K => k \in K
      BY <1>14
    <3>2. 0 .. n \subseteq K
      BY <1>1, <1>13, <3>1, InductionUpTo
    <3>3. n \in 0 .. n
      BY <1>1
    <3> QED
      BY <3>2, <3>3
  <2> HIDE DEF S
  <2> QED
    BY <2>1, <2>2
\* ... and for the set of all words it is the last of the totals.
<1> DEFINE J == {k \in 0 .. n : t[k][S] = total[k]}
<1>16. \A k \in 1 .. n : k \in 0 .. n /\ k - 1 \in S /\ WordAt(f, k - 1) = word[k - 1]
  BY <1>1 DEF word
<1>17. total[0] = 0 /\ \A k \in 1 .. n : total[k] = total[k - 1] + WordAt(f, k - 1)
  BY DEF IsTotals, n
<1>18. t[n][S] = total[n]
  <2> HIDE DEF S
  <2>1. 0 \in J
    BY <1>1, <1>6, <1>16, <1>17
  <2>2. \A k \in 1 .. n : k - 1 \in J => k \in J
    BY <1>6, <1>16, <1>17
  <2> HIDE DEF J
  <2>3. 0 .. n \subseteq J
    BY <1>1, <2>1, <2>2, InductionUpTo
  <2>4. n \in 0 .. n
    BY <1>1
  <2>5. n \in J
    BY <2>3, <2>4
  <2> QED
    BY <2>5 DEF J
<1> QED
  BY <1>2, <1>15, <1>18 DEF n

-----------------------------------------------------------------------------
(* The checksum of damaged frames.                                         *)

\* What bringing the carries around makes of a total: the rest of a division by 65535,
\* except that only 0 gives 0.
Folded(sum, total) ==
    /\ sum \in Word /\ total \in Nat
    /\ sum = 0 <=> total = 0
    /\ \E q \in Nat : total = sum + 65535 * q

\* Adding a word with an end-around carry is adding it, folded.
LEMMA FoldedStep ==
    ASSUME NEW sum, NEW total, Folded(sum, total), NEW w \in Nat, w <= 65535
    PROVE  Folded(EndAroundCarry(sum + w), total + w)
<1> DEFINE next == EndAroundCarry(sum + w)
<1>1. sum \in Nat /\ sum <= 65535 /\ total \in Nat /\ (sum = 0 <=> total = 0)
  BY DEF Folded, Word
<1>2. PICK q \in Nat : total = sum + 65535 * q
  BY DEF Folded
<1>3. CASE sum + w <= 65535
  <2>1. next = sum + w
    BY <1>1, <1>3 DEF EndAroundCarry
  <2> HIDE DEF next
  <2>2. next \in Nat /\ next <= 65535 /\ total + w = next + 65535 * q
    BY <2>1, <1>1, <1>2, <1>3
  <2>3. next = 0 <=> total + w = 0
    BY <2>1, <1>1
  <2>4. total + w \in Nat
    BY <1>1
  <2>5. next \in Word
    BY <2>2 DEF Word
  <2> QED
    BY <2>2, <2>3, <2>4, <2>5 DEF Folded, next
<1>4. CASE sum + w > 65535
  <2>1. next = sum + w - 65535
    <3>1. (sum + w) % 65536 = sum + w - 65536 /\ (sum + w) \div 65536 = 1
      BY <1>1, <1>4
    <3> QED
      BY <3>1, <1>1 DEF EndAroundCarry
  <2> HIDE DEF next
  <2> DEFINE p == q + 1
  <2>2. next \in Nat /\ next <= 65535 /\ total + w = next + 65535 * p /\ p \in Nat
    BY <2>1, <1>1, <1>2, <1>4
  <2> HIDE DEF p
  <2>3. next # 0 /\ total + w # 0
    BY <2>1, <1>1, <1>4
  <2>4. total + w \in Nat
    BY <1>1
  <2>5. next \in Word
    BY <2>2 DEF Word
  <2> QED
    BY <2>2, <2>3, <2>4, <2>5 DEF Folded, next
<1> QED
  BY <1>1, <1>3, <1>4

\* The loop folds the sum of the words.
LEMMA SumIsFolded ==
    ASSUME NEW f \in FrameBytes
    PROVE  Folded(ones_comp_sum(f, REGION_LEN), WordsOf(f))
<1> DEFINE n == WordCount
<1>1. PICK s \in [0 .. n -> Word] :
         IsSums(s, f, REGION_LEN) /\ ones_comp_sum(f, REGION_LEN) = s[n]
  <2>1. REGION_LEN \in Nat /\ \A k \in 0 .. REGION_LEN : f[k] \in Byte
    BY Sizes, WordAtType DEF FrameBytes
  <2> QED
    BY <2>1, SumsExist DEF WordCount
<1>2. s[0] = 0 /\ \A k \in 1 .. n : s[k] = NextSum(s[k - 1], f[2 * k - 2], f[2 * k - 1])
  <2>1. REGION_LEN \in Nat /\ n = (REGION_LEN + 1) \div 2
    BY Sizes DEF WordCount
  <2>2. IsSums(s, f, REGION_LEN)
    BY <1>1
  <2> HIDE DEF n
  <2> QED
    BY <2>1, <2>2, SumsUnfold
<1>3. PICK t : IsTotals(t, f)
  BY TotalsExist
<1>4. t[0] = 0 /\ \A k \in 1 .. n : t[k] = t[k - 1] + WordAt(f, k - 1)
  BY <1>3 DEF IsTotals
<1>5. WordsOf(f) = t[n]
  BY <1>3, WordsOfIs
<1>6. n \in Nat
  BY WordAtType
<1> HIDE DEF n
<1> DEFINE S == {k \in 0 .. n : Folded(s[k], t[k])}
<1>7. 0 \in S
  <2>1. Folded(0, 0)
    BY 0 = 0 + 65535 * 0 DEF Folded, Word
  <2> QED
    BY <1>2, <1>4, <1>6, <2>1
<1>8. ASSUME NEW k \in 1 .. n, k - 1 \in S PROVE k \in S
  <2> DEFINE w == WordAt(f, k - 1)
  <2>1. k \in 0 .. n /\ k - 1 \in 0 .. n - 1 /\ 2 * (k - 1) = 2 * k - 2
        /\ 2 * (k - 1) + 1 = 2 * k - 1
    BY <1>6
  <2>2. w \in Nat /\ w <= 65535
    BY <2>1, WordAtType DEF n
  <2>3. Folded(s[k - 1], t[k - 1])
    BY <1>8
  <2>4. s[k] = EndAroundCarry(s[k - 1] + w)
    <3> DEFINE high == f[2 * k - 2]
               low == f[2 * k - 1]
    <3>1. w = 256 * Value(high) + Value(low)
      BY <2>1 DEF WordAt
    <3>2. s[k] = EndAroundCarry(s[k - 1] + 256 * Value(high) + Value(low))
      BY <1>2 DEF NextSum
    <3>3. s[k - 1] \in Nat
      BY <2>3 DEF Folded, Word
    <3>4. high \in Byte /\ low \in Byte
      <4>1. 2 * (k - 1) \in 0 .. REGION_LEN /\ 2 * (k - 1) + 1 \in 0 .. REGION_LEN
        <5> DEFINE j == k - 1
        <5>1. j \in 0 .. WordCount - 1
          BY <2>1 DEF n
        <5> HIDE DEF j
        <5>2. 2 * j \in 0 .. REGION_LEN /\ 2 * j + 1 \in 0 .. REGION_LEN
          BY <5>1, WordAtType
        <5> QED
          BY <5>2 DEF j
      <4>2. 2 * k - 2 \in 0 .. FRAME_SIZE - 1 /\ 2 * k - 1 \in 0 .. FRAME_SIZE - 1
        BY <4>1, <2>1, WordAtType
      <4> QED
        BY <4>2 DEF FrameBytes
    <3>5. Value(high) \in Nat /\ Value(low) \in Nat
      BY <3>4, ValueType
    <3> HIDE DEF high, low, w
    <3>6. s[k - 1] + 256 * Value(high) + Value(low) = s[k - 1] + w
      BY <3>1, <3>3, <3>5
    <3> QED
      BY <3>2, <3>6
  <2>5. t[k] = t[k - 1] + w
    BY <1>4
  <2> HIDE DEF w
  <2>6. Folded(EndAroundCarry(s[k - 1] + w), t[k - 1] + w)
    BY <2>2, <2>3, FoldedStep
  <2> QED
    BY <2>1, <2>4, <2>5, <2>6
<1>9. n \in S
  <2> HIDE DEF S
  <2>1. \A k \in 1 .. n : k - 1 \in S => k \in S
    BY <1>8
  <2>2. 0 .. n \subseteq S
    BY <1>6, <1>7, <2>1, InductionUpTo
  <2>3. n \in 0 .. n
    BY <1>6
  <2> QED
    BY <2>2, <2>3
<1> QED
  BY <1>1, <1>5, <1>9

\* Arithmetic modulo 65535: what a folded sum and a received word say of the total.
LEMMA FoldedVerdict ==
    ASSUME NEW sum, NEW total, Folded(sum, total), total # 0, NEW r \in Nat, r <= 65535
    PROVE  EndAroundCarry(sum + r) = 65535 <=> (total + r) % 65535 = 0
<1>1. sum \in Nat /\ sum <= 65535 /\ sum > 0
  BY DEF Folded, Word
<1>2. PICK q \in Nat : total = sum + 65535 * q
  BY DEF Folded
<1> DEFINE v == sum + r
<1>3. v \in Nat /\ v > 0 /\ v <= 131070 /\ total + r = v + 65535 * q
  BY <1>1, <1>2
<1> HIDE DEF v
<1>4. EndAroundCarry(v) = 65535 <=> (v = 65535 \/ v = 131070)
  <2>1. CASE v <= 65535
    BY <2>1, <1>3 DEF EndAroundCarry
  <2>2. CASE v > 65535
    <3>1. v % 65536 = v - 65536 /\ v \div 65536 = 1
      BY <2>2, <1>3
    <3> QED
      BY <3>1, <2>2, <1>3 DEF EndAroundCarry
  <2> QED
    BY <1>3, <2>1, <2>2
<1>5. (v + 65535 * q) % 65535 = v % 65535
  BY <1>3
<1>6. v % 65535 = 0 <=> (v = 65535 \/ v = 131070)
  BY <1>3
<1> QED
  BY <1>3, <1>4, <1>5, <1>6 DEF v

\* The checksum accepts what adds up to a multiple of 65535, unless all words are zero.
THEOREM ChecksumVerdict ==
    ASSUME NEW f \in FrameBytes, WordsOf(f) # 0, NEW received
    PROVE  checksum16_verify(f, REGION_LEN, received)
             <=> (WordsOf(f) + Value(received \cap (0 .. 15))) % 65535 = 0
<1> DEFINE r == Value(received \cap (0 .. 15))
<1>1. r \in Nat /\ r <= 65535
  <2>1. received \cap (0 .. 15) \in SUBSET (0 .. 15)
    OBVIOUS
  <2> QED
    BY <2>1, ValueType
<1> HIDE DEF r
<1>2. EndAroundCarry(ones_comp_sum(f, REGION_LEN) + r) = 65535
        <=> (WordsOf(f) + r) % 65535 = 0
  BY <1>1, SumIsFolded, FoldedVerdict
<1> QED
  BY <1>2 DEF checksum16_verify, r

\* What a bit counts in the word that it belongs to, and what flipping it adds.
BitWeight(i) == (IF (i \div 8) % 2 = 0 THEN 256 ELSE 1) * 2 ^ (i % 8)
Gain(f, i) == IF i % 8 \in f[i \div 8] THEN - BitWeight(i) ELSE BitWeight(i)

\* The bounds of a weight: it is never 0 nor 65535 in the arithmetic of the checksum.
LEMMA BitWeightType ==
    ASSUME NEW i \in Nat
    PROVE  /\ BitWeight(i) \in Nat /\ 1 <= BitWeight(i) /\ BitWeight(i) <= 65280
           /\ 2 ^ (i % 8) \in Nat
<1> DEFINE b == i % 8
           p == 2 ^ b
<1>1. b \in 0 .. 7
  OBVIOUS
<1> HIDE DEF b
<1>2. p \in Nat /\ 1 <= p /\ p <= 255
  <2>1. b \in {b} /\ b \in 0 .. 15 /\ {b} \in Byte
    BY <1>1 DEF Byte
  <2>2. Weight({b}) = p + Weight({b} \ {b}) /\ p \in Nat /\ p > 0
    BY <2>1, WeightStep
  <2>3. Weight({b}) \in Nat /\ Weight({b}) <= 255 /\ Weight({b} \ {b}) \in Nat
    BY <2>1, WeightType
  <2> HIDE DEF p
  <2> QED
    BY <2>2, <2>3
<1>3. BitWeight(i) = (IF (i \div 8) % 2 = 0 THEN 256 ELSE 1) * p
  BY DEF BitWeight, b
<1> HIDE DEF p
<1>4. CASE (i \div 8) % 2 = 0
  <2>1. BitWeight(i) = 256 * p
    BY <1>3, <1>4
  <2> QED
    BY <1>2, <2>1 DEF p, b
<1>5. CASE (i \div 8) % 2 # 0
  <2>1. BitWeight(i) = 1 * p
    BY <1>3, <1>5
  <2> QED
    BY <1>2, <2>1 DEF p, b
<1> QED
  BY <1>4, <1>5

\* One bit of a byte or a word flipped.
LEMMA BitFlip ==
    ASSUME NEW S \in SUBSET (0 .. 15), NEW b \in 0 .. 15
    PROVE  Value(SymDiff(S, {b})) = Value(S) + (IF b \in S THEN - (2 ^ b) ELSE 2 ^ b)
<1> DEFINE T == SymDiff(S, {b})
<1>1. T \in SUBSET (0 .. 15)
  BY DEF SymDiff
<1>2. Value(S) = Weight(S) /\ Value(T) = Weight(T)
  BY <1>1, ValueIs
<1>3. Weight(S) \in Nat /\ Weight(T) \in Nat
  BY WeightType
<1>4. CASE b \in S
  <2>1. T = S \ {b}
    BY <1>4 DEF SymDiff
  <2> HIDE DEF T
  <2>2. Weight(S) = 2 ^ b + Weight(S \ {b}) /\ 2 ^ b \in Nat
    BY <1>1, <1>4, WeightStep
  <2>3. Weight(T) = Weight(S) + - (2 ^ b)
    BY <2>1, <2>2, <1>3
  <2> QED
    BY <2>3, <1>2, <1>4 DEF T
<1>5. CASE b \notin S
  <2>1. b \in T /\ T \ {b} = S
    BY <1>5 DEF SymDiff
  <2> HIDE DEF T
  <2>2. Weight(T) = 2 ^ b + Weight(T \ {b}) /\ 2 ^ b \in Nat
    BY <1>1, <2>1, WeightStep
  <2>3. Weight(T) = Weight(S) + 2 ^ b
    <3>1. Weight(T \ {b}) = Weight(S)
      BY <2>1
    <3> QED
      BY <3>1, <2>2, <1>3
  <2> QED
    BY <2>3, <1>2, <1>5 DEF T
<1> QED
  BY <1>4, <1>5

\* One bit of a frame flipped: one byte changes.
LEMMA OneFlipped ==
    ASSUME NEW f \in FrameBytes, NEW i \in BitOfFrame
    PROVE  /\ Flipped(f, {i}) \in FrameBytes
           /\ i \in Nat /\ i \div 8 \in 0 .. FRAME_SIZE - 1 /\ i % 8 \in 0 .. 7
           /\ Flipped(f, {i})[i \div 8] = SymDiff(f[i \div 8], {i % 8})
           /\ \A k \in 0 .. FRAME_SIZE - 1 : k # i \div 8 => Flipped(f, {i})[k] = f[k]
<1> DEFINE q == i \div 8
           b == i % 8
<1>1. FRAME_SIZE \in Nat /\ i \in Nat /\ i < 8 * FRAME_SIZE
  BY Sizes DEF BitOfFrame
<1>2. q \in Nat /\ b \in 0 .. 7 /\ i = 8 * q + b
  BY <1>1, BitPlace
<1> HIDE DEF q, b
<1>3. q \in 0 .. FRAME_SIZE - 1
  BY <1>1, <1>2
<1>4. ErrorByte({i}, q) = {b}
  <2>1. \A c \in 0 .. 7 : 8 * q + c = i <=> c = b
    BY <1>2
  <2> QED
    BY <1>2, <2>1 DEF ErrorByte
<1>5. ASSUME NEW k \in 0 .. FRAME_SIZE - 1, k # q PROVE ErrorByte({i}, k) = {}
  <2>1. \A c \in 0 .. 7 : 8 * k + c # i
    BY <1>2, <1>5
  <2> QED
    BY <2>1 DEF ErrorByte
<1>6. \A A : SymDiff(A, {}) = A
  BY DEF SymDiff
<1>7. Flipped(f, {i})[q] = SymDiff(f[q], {b})
  BY <1>3, <1>4, FlippedFrame
<1>8. ASSUME NEW k \in 0 .. FRAME_SIZE - 1, k # q PROVE Flipped(f, {i})[k] = f[k]
  <2>1. Flipped(f, {i})[k] = SymDiff(f[k], ErrorByte({i}, k))
    BY FlippedFrame
  <2>2. ErrorByte({i}, k) = {}
    BY <1>5, <1>8
  <2> QED
    BY <1>6, <2>1, <2>2
<1>9. Flipped(f, {i}) \in FrameBytes
  BY FlippedFrame
<1> QED
  BY <1>1, <1>2, <1>3, <1>7, <1>8, <1>9 DEF q, b

\* The words cover the region.
LEMMA RegionIsSummed ==
    ASSUME NEW i \in BitOfFrame, i < 8 * REGION_LEN
    PROVE  i \div 8 < 2 * WordCount
<1>1. i \in Nat /\ i \div 8 \in Nat /\ i >= 8 * (i \div 8)
  BY BitPlace DEF BitOfFrame
<1> DEFINE k == i \div 8
<1> HIDE DEF k
<1>2. k \in Nat /\ 8 * k < 8 * REGION_LEN
  BY <1>1, Sizes DEF k
<1>3. k < 2 * ((REGION_LEN + 1) \div 2)
  BY <1>2, Sizes
<1> QED
  BY <1>3 DEF k, WordCount

\* ... and one word, by the weight of the bit.
LEMMA WordFlip ==
    ASSUME NEW f \in FrameBytes, NEW i \in BitOfFrame, i \div 8 < 2 * WordCount
    PROVE  \E w \in 0 .. WordCount - 1 :
              /\ WordAt(Flipped(f, {i}), w) = WordAt(f, w) + Gain(f, i)
              /\ \A v \in 0 .. WordCount - 1 :
                    v # w => WordAt(Flipped(f, {i}), v) = WordAt(f, v)
<1> DEFINE h == Flipped(f, {i})
           k == i \div 8
           b == i % 8
           w == k \div 2
           n == WordCount
           p == 2 ^ b
<1>1. REGION_LEN \in Nat /\ FRAME_SIZE = REGION_LEN + 4 /\ n = (REGION_LEN + 1) \div 2
  BY Sizes DEF WordCount
<1>2. /\ i \in Nat /\ k \in 0 .. FRAME_SIZE - 1 /\ b \in 0 .. 7
      /\ h[k] = SymDiff(f[k], {b})
      /\ \A c \in 0 .. FRAME_SIZE - 1 : c # k => h[c] = f[c]
  BY OneFlipped
<1>3. i = 8 * k + b
  BY <1>2, BitPlace
<1>4. p \in Nat
  BY <1>2, BitWeightType
<1>5. BitWeight(i) = (IF k % 2 = 0 THEN 256 ELSE 1) * p
  BY DEF BitWeight
<1>6. Gain(f, i) = IF b \in f[k] THEN - BitWeight(i) ELSE BitWeight(i)
  BY DEF Gain
<1>7. Value(h[k]) = Value(f[k]) + (IF b \in f[k] THEN - p ELSE p)
  <2>1. f[k] \in SUBSET (0 .. 15)
    <3>1. f[k] \in Byte
      BY <1>2 DEF FrameBytes
    <3> HIDE DEF k
    <3> QED
      BY <3>1 DEF Byte
  <2>2. h[k] = SymDiff(f[k], {b}) /\ b \in 0 .. 15
    BY <1>2
  <2> HIDE DEF h, k, b
  <2>3. Value(SymDiff(f[k], {b})) = Value(f[k]) + (IF b \in f[k] THEN - (2 ^ b) ELSE 2 ^ b)
    BY <2>1, <2>2, BitFlip
  <2> QED
    BY <2>2, <2>3
<1>8. k \in 0 .. 2 * n - 1
  BY <1>1, <1>2
<1> HIDE DEF h, k, b, n, p
<1>9. w \in 0 .. n - 1 /\ (k = 2 * w \/ k = 2 * w + 1)
      /\ (k % 2 = 0 <=> k = 2 * w)
  BY <1>1, <1>8
<1> HIDE DEF w
<1>10. \A v \in 0 .. n - 1 : 2 * v \in 0 .. FRAME_SIZE - 1 /\ 2 * v + 1 \in 0 .. FRAME_SIZE - 1
  BY <1>1
<1>11. ASSUME NEW v \in 0 .. n - 1, v # w PROVE WordAt(h, v) = WordAt(f, v)
  <2>1. 2 * v # k /\ 2 * v + 1 # k
    BY <1>9, <1>11
  <2>2. h[2 * v] = f[2 * v] /\ h[2 * v + 1] = f[2 * v + 1]
    BY <1>2, <1>10, <2>1
  <2> QED
    BY <2>2 DEF WordAt
<1>12. WordAt(h, w) = WordAt(f, w) + Gain(f, i)
  <2> DEFINE d == IF b \in f[k] THEN - p ELSE p
             x == Value(f[2 * w])
             y == Value(f[2 * w + 1])
  <2>1. x \in Nat /\ y \in Nat /\ d \in Int
    <3>1. f[2 * w] \in Byte /\ f[2 * w + 1] \in Byte
      BY <1>9, <1>10 DEF FrameBytes
    <3> QED
      BY <3>1, <1>4, ValueType
  <2>2. CASE k = 2 * w
    <3>1. 2 * w + 1 # k
      BY <1>9, <2>2
    <3>2. h[2 * w + 1] = f[2 * w + 1]
      BY <1>2, <1>9, <1>10, <3>1
    <3>3. WordAt(h, w) = 256 * (x + d) + y
      BY <1>7, <2>2, <3>2 DEF WordAt
    <3>4. BitWeight(i) = 256 * p
      BY <1>5, <1>9, <2>2
    <3>5. Gain(f, i) = 256 * d
      <4>1. CASE b \in f[k]
        BY <4>1, <3>4, <1>6, <1>4
      <4>2. CASE b \notin f[k]
        BY <4>2, <3>4, <1>6, <1>4
      <4> QED
        BY <4>1, <4>2
    <3>6. WordAt(f, w) = 256 * x + y
      BY DEF WordAt
    <3> HIDE DEF x, y, d
    <3> QED
      BY <2>1, <3>3, <3>5, <3>6
  <2>3. CASE k = 2 * w + 1
    <3>1. 2 * w # k
      BY <1>9, <2>3
    <3>2. h[2 * w] = f[2 * w]
      BY <1>2, <1>9, <1>10, <3>1
    <3>3. WordAt(h, w) = 256 * x + (y + d)
      BY <1>7, <2>3, <3>2 DEF WordAt
    <3>4. BitWeight(i) = p
      BY <1>4, <1>5, <1>9, <3>1
    <3>5. Gain(f, i) = d
      BY <3>4, <1>6
    <3>6. WordAt(f, w) = 256 * x + y
      BY DEF WordAt
    <3> HIDE DEF x, y, d
    <3> QED
      BY <2>1, <3>3, <3>5, <3>6
  <2> QED
    BY <1>9, <2>2, <2>3
<1> QED
  BY <1>9, <1>11, <1>12 DEF h, n

\* So the sum of all words changes by the weight of the bit.
LEMMA TotalFlip ==
    ASSUME NEW f \in FrameBytes, NEW i \in BitOfFrame, i \div 8 < 2 * WordCount
    PROVE  /\ WordsOf(Flipped(f, {i})) = WordsOf(f) + Gain(f, i)
           /\ WordsOf(f) \in Nat
<1> DEFINE h == Flipped(f, {i})
           n == WordCount
           d == Gain(f, i)
<1>1. h \in FrameBytes /\ i \in Nat
  BY OneFlipped
<1>2. n \in Nat
  BY WordAtType
<1>3. d \in Int
  <2>1. BitWeight(i) \in Nat
    BY <1>1, BitWeightType
  <2> QED
    BY <2>1 DEF Gain
<1>4. PICK w \in 0 .. n - 1 :
         /\ WordAt(h, w) = WordAt(f, w) + d
         /\ \A v \in 0 .. n - 1 : v # w => WordAt(h, v) = WordAt(f, v)
  BY WordFlip
<1>5. PICK t : IsTotals(t, f)
  BY TotalsExist
<1> HIDE DEF h
<1>6. PICK u : IsTotals(u, h)
  BY <1>1, TotalsExist
<1>7. WordsOf(f) = t[n] /\ WordsOf(h) = u[n]
  BY <1>1, <1>5, <1>6, WordsOfIs
<1>8. /\ t \in [0 .. n -> Nat] /\ t[0] = 0
      /\ \A k \in 1 .. n : t[k] = t[k - 1] + WordAt(f, k - 1)
  BY <1>5 DEF IsTotals
<1>9. /\ u \in [0 .. n -> Nat] /\ u[0] = 0
      /\ \A k \in 1 .. n : u[k] = u[k - 1] + WordAt(h, k - 1)
  BY <1>6 DEF IsTotals
<1>10. \A v \in 0 .. n - 1 : WordAt(f, v) \in Nat
  BY WordAtType
<1> HIDE DEF n, d
<1> DEFINE S == {k \in 0 .. n : u[k] = t[k] + (IF w < k THEN d ELSE 0)}
<1>11. 0 \in S
  BY <1>2, <1>8, <1>9
<1>12. ASSUME NEW k \in 1 .. n, k - 1 \in S PROVE k \in S
  <2> DEFINE j == k - 1
  <2>1. j \in 0 .. n - 1 /\ k \in 0 .. n /\ j \in 0 .. n /\ k = j + 1
    BY <1>2
  <2>2. u[j] = t[j] + (IF w < j THEN d ELSE 0) /\ t[j] \in Nat /\ t[k] \in Nat
    BY <1>12, <2>1, <1>8
  <2>3. t[k] = t[j] + WordAt(f, j) /\ u[k] = u[j] + WordAt(h, j)
    BY <1>8, <1>9
  <2> HIDE DEF j
  <2>4. WordAt(f, j) \in Nat
    BY <1>10, <2>1
  <2>5. CASE j = w
    <3>1. u[j] = t[j] + 0 /\ WordAt(h, j) = WordAt(f, j) + d /\ w < k
      BY <1>4, <2>1, <2>2, <2>5
    <3>2. u[k] = t[k] + d
      BY <3>1, <2>2, <2>3, <2>4, <1>3
    <3> QED
      BY <2>1, <3>1, <3>2
  <2>6. CASE j # w
    <3>1. WordAt(h, j) = WordAt(f, j) /\ (w < j <=> w < k)
      BY <1>4, <2>1, <2>6
    <3>2. u[k] = t[k] + (IF w < k THEN d ELSE 0)
      <4> DEFINE e == IF w < j THEN d ELSE 0
      <4>1. e \in Int /\ u[j] = t[j] + e /\ e = IF w < k THEN d ELSE 0
        BY <1>3, <2>2, <3>1
      <4> HIDE DEF e
      <4> QED
        BY <4>1, <3>1, <2>2, <2>3, <2>4
    <3> QED
      BY <2>1, <3>2
  <2> QED
    BY <2>5, <2>6
<1>13. n \in S
  <2> HIDE DEF S
  <2>1. \A k \in 1 .. n : k - 1 \in S => k \in S
    BY <1>12
  <2>2. 0 .. n \subseteq S
    BY <1>2, <1>11, <2>1, InductionUpTo
  <2>3. n \in 0 .. n
    BY <1>2
  <2> QED
    BY <2>2, <2>3
<1>14. w < n /\ n \in 0 .. n
  BY <1>2
<1> QED
  BY <1>7, <1>8, <1>13, <1>14 DEF h, d

\* Behind the words a flip changes nothing of the sum.
LEMMA TotalKept ==
    ASSUME NEW f \in FrameBytes, NEW i \in BitOfFrame, ~ (i \div 8 < 2 * WordCount)
    PROVE  WordsOf(Flipped(f, {i})) = WordsOf(f)
<1> DEFINE h == Flipped(f, {i})
           n == WordCount
<1>1. /\ h \in FrameBytes /\ i \div 8 \in 0 .. FRAME_SIZE - 1
      /\ \A c \in 0 .. FRAME_SIZE - 1 : c # i \div 8 => h[c] = f[c]
  BY OneFlipped
<1> HIDE DEF h
<1>2. ASSUME NEW w \in 0 .. n - 1 PROVE WordAt(h, w) = WordAt(f, w)
  <2>1. 2 * w \in 0 .. FRAME_SIZE - 1 /\ 2 * w + 1 \in 0 .. FRAME_SIZE - 1
    BY WordAtType
  <2>2. 2 * w # i \div 8 /\ 2 * w + 1 # i \div 8
    <3> DEFINE k == i \div 8
    <3>1. k \in 0 .. FRAME_SIZE - 1 /\ n \in Nat /\ ~ (k < 2 * n)
      BY <1>1, WordAtType
    <3> HIDE DEF k, n
    <3>2. 2 * w # k /\ 2 * w + 1 # k
      BY <3>1
    <3> QED
      BY <3>2 DEF k
  <2>3. h[2 * w] = f[2 * w] /\ h[2 * w + 1] = f[2 * w + 1]
    BY <1>1, <2>1, <2>2
  <2> QED
    BY <2>3 DEF WordAt
<1>3. PICK t : IsTotals(t, f)
  BY TotalsExist
<1>4. IsTotals(t, h)
  <2>1. \A k \in 1 .. n : k - 1 \in 0 .. n - 1
    BY WordAtType
  <2>2. \A k \in 1 .. n : WordAt(h, k - 1) = WordAt(f, k - 1)
    BY <1>2, <2>1
  <2> QED
    BY <1>3, <2>2 DEF IsTotals
<1> QED
  BY <1>1, <1>3, <1>4, WordsOfIs DEF h

\* What a frame must be for the checksum: bytes, a zero trailer, and the source address.
SumFrame(f) == f \in FrameBytes /\ f[REGION_LEN] = {} /\ f[1] = SrcByte

\* Its checksum makes the words of the sealed frame a multiple of 65535.
LEMMA SealedSum ==
    ASSUME NEW f, SumFrame(f)
    PROVE  LET fcs == checksum16_compute(f, REGION_LEN)
               s   == Sealed(f, fcs)
           IN  /\ fcs \in Register /\ fcs \cap (0 .. 15) = fcs
               /\ s \in FrameBytes /\ \A k \in 0 .. REGION_LEN : s[k] = f[k]
               /\ Value(fcs) \in Nat
               /\ (WordsOf(s) + Value(fcs)) % 65535 = 0
<1> DEFINE N == REGION_LEN
           sum == ones_comp_sum(f, N)
           fcs == checksum16_compute(f, N)
           s == Sealed(f, fcs)
<1>1. /\ N \in Nat /\ f \in FrameBytes /\ f[N] = {}
      /\ \A k \in 0 .. N : f[k] \in Byte /\ f[k] = f[k]
  BY Sizes, WordAtType DEF SumFrame, FrameBytes
<1>2. fcs \in SUBSET (0 .. 15)
  <2> HIDE DEF N
  <2> QED
    BY <1>1, ChecksumVerifies
<1>3. fcs \in Register /\ fcs \cap (0 .. 15) = fcs
  <2> HIDE DEF fcs
  <2>1. \A b \in 0 .. 15 : b \in 0 .. 31
    OBVIOUS
  <2>2. fcs \in Register
    BY <1>2, <2>1 DEF Register
  <2>3. \A b \in fcs : b \in 0 .. 15
    BY <1>2
  <2> QED
    BY <2>2, <2>3
<1>4. sum \in Nat /\ sum <= 65535
  <2> HIDE DEF N
  <2> QED
    BY <1>1, SumIsLocal DEF Word
<1>5. Value(fcs) = 65535 - sum
  <2> HIDE DEF sum
  <2>1. 65535 - sum \in Nat /\ 65535 - sum <= 65535
    BY <1>4
  <2>2. fcs = Bits16(65535 - sum)
    BY DEF checksum16_compute, sum
  <2> HIDE DEF fcs
  <2> QED
    BY <2>1, <2>2, BitsOfNumber
<1> HIDE DEF fcs
<1>6. s \in FrameBytes /\ \A k \in 0 .. N : s[k] = f[k]
  <2>1. s \in FrameBytes
    BY <1>1, <1>3, SealedFrame
  <2>2. \A k \in 0 .. N - 1 : s[k] = f[k]
    BY <1>1, <1>3, SealedFrame
  <2>3. s[N] = f[N]
    <3>1. N + 0 = N /\ 0 \in 0 .. 3
      BY <1>1
    <3>2. s[N + 0] = BigEndianByte(fcs, 0, 4)
      BY <1>1, <1>3, <3>1, SealedFrame
    <3>3. \A b \in 0 .. 7 : 8 * (4 - 1 - 0) + b \notin 0 .. 15
      OBVIOUS
    <3>4. BigEndianByte(fcs, 0, 4) = {}
      BY <1>2, <3>3 DEF BigEndianByte
    <3> QED
      BY <1>1, <3>1, <3>2, <3>4
  <2> HIDE DEF s, N
  <2>4. \A k \in 0 .. N : k = N \/ k \in 0 .. N - 1
    BY <1>1
  <2> QED
    BY <2>1, <2>2, <2>3, <2>4
<1>7. ones_comp_sum(s, N) = sum
  <2>1. \A k \in 0 .. N : f[k] \in Byte /\ s[k] = f[k]
    BY <1>1, <1>6
  <2> HIDE DEF s, N
  <2> QED
    BY <1>1, <2>1, SumIsLocal
<1>8. Folded(sum, WordsOf(s))
  <2> HIDE DEF s, sum
  <2>1. Folded(ones_comp_sum(s, REGION_LEN), WordsOf(s))
    BY <1>6, SumIsFolded
  <2> QED
    BY <1>7, <2>1
<1> HIDE DEF s, sum
<1>9. (WordsOf(s) + Value(fcs)) % 65535 = 0
  <2>1. PICK q \in Nat : WordsOf(s) = sum + 65535 * q
    BY <1>8 DEF Folded
  <2>2. WordsOf(s) + Value(fcs) = 65535 * (q + 1)
    BY <1>4, <1>5, <2>1
  <2>3. (65535 * (q + 1)) % 65535 = 0
    OBVIOUS
  <2> QED
    BY <2>2, <2>3
<1>10. Value(fcs) \in Nat
  BY <1>4, <1>5
<1> QED
  BY <1>3, <1>6, <1>9, <1>10 DEF fcs, s

\* Two flips cannot clear the four bits of a byte of the source address.
LEMMA WordsRemain ==
    ASSUME NEW s \in FrameBytes, s[1] = SrcByte,
           NEW a, NEW b, NEW error, error \subseteq {a, b}
    PROVE  WordsOf(Flipped(s, error)) # 0
<1> DEFINE h == Flipped(s, error)
           n == WordCount
<1>1. h \in FrameBytes
  BY FlippedFrame
<1>2. 1 \in 0 .. FRAME_SIZE - 1
  BY Sizes
<1>3. h[1] # {}
  <2>1. h[1] = SymDiff(SrcByte, ErrorByte(error, 1))
    BY <1>2, FlippedFrame
  <2>2. ASSUME h[1] = {} PROVE FALSE
    <3>1. \A x \in SrcByte : x \in ErrorByte(error, 1)
      BY <2>1, <2>2 DEF SymDiff
    <3>2. 1 \in SrcByte /\ 3 \in SrcByte /\ 5 \in SrcByte
      BY DEF SrcByte
    <3>3. 9 \in error /\ 11 \in error /\ 13 \in error
      BY <3>1, <3>2 DEF ErrorByte
    <3> QED
      BY <3>3
  <2> QED
    BY <2>2
<1> HIDE DEF h
<1>4. h[1] \in Byte /\ h[0] \in Byte
  BY <1>1, Sizes DEF FrameBytes
<1>5. Value(h[1]) \in Nat /\ Value(h[1]) > 0 /\ Value(h[0]) \in Nat
  <2>1. PICK x \in h[1] : x \in 0 .. 15
    BY <1>3, <1>4 DEF Byte
  <2>2. Weight(h[1]) = 2 ^ x + Weight(h[1] \ {x}) /\ 2 ^ x \in Nat /\ 2 ^ x > 0
    BY <2>1, WeightStep
  <2>3. Weight(h[1] \ {x}) \in Nat
    BY WeightType
  <2>4. h[1] \in SUBSET (0 .. 15)
    BY <1>4 DEF Byte
  <2>5. Value(h[1]) = Weight(h[1])
    BY <2>4, ValueIs
  <2>6. Value(h[0]) \in Nat /\ Value(h[1]) \in Nat
    BY <1>4, ValueType
  <2> QED
    BY <2>2, <2>3, <2>5, <2>6
<1>6. WordAt(h, 0) > 0
  <2>1. WordAt(h, 0) = 256 * Value(h[0]) + Value(h[1])
    BY 2 * 0 = 0, 2 * 0 + 1 = 1 DEF WordAt
  <2> QED
    BY <1>5, <2>1
<1>7. n \in Nat /\ n > 0 /\ \A w \in 0 .. n - 1 : WordAt(h, w) \in Nat
  BY <1>1, WordAtType
<1>8. PICK t : IsTotals(t, h)
  BY <1>1, TotalsExist
<1>9. WordsOf(h) = t[n]
  BY <1>1, <1>8, WordsOfIs
<1>10. /\ t \in [0 .. n -> Nat] /\ t[0] = 0
       /\ \A k \in 1 .. n : t[k] = t[k - 1] + WordAt(h, k - 1)
  BY <1>8 DEF IsTotals
<1> HIDE DEF n
<1> DEFINE S == {k \in 0 .. n : k # 0 => t[k] > 0}
<1>11. 0 \in S
  BY <1>7
<1>12. ASSUME NEW k \in 1 .. n, k - 1 \in S PROVE k \in S
  <2> DEFINE j == k - 1
  <2>1. j \in 0 .. n - 1 /\ j \in 0 .. n /\ k \in 0 .. n
    BY <1>7
  <2>2. t[k] = t[j] + WordAt(h, j) /\ t[j] \in Nat /\ WordAt(h, j) \in Nat
    BY <1>7, <1>10, <2>1
  <2>3. j # 0 => t[j] > 0
    BY <1>12
  <2> HIDE DEF j
  <2>4. t[k] > 0
    BY <1>6, <2>2, <2>3
  <2> QED
    BY <2>1, <2>4
<1>13. n \in S
  <2> HIDE DEF S
  <2>1. \A k \in 1 .. n : k - 1 \in S => k \in S
    BY <1>12
  <2>2. 0 .. n \subseteq S
    BY <1>7, <1>11, <2>1, InductionUpTo
  <2>3. n \in 0 .. n
    BY <1>7
  <2> QED
    BY <2>2, <2>3
<1>14. t[n] > 0
  BY <1>7, <1>13
<1> QED
  BY <1>9, <1>14 DEF h

\* One flip in the region is seen, and two that cancel are not.
THEOREM ChecksumOfDamaged ==
    ASSUME NEW f, SumFrame(f), NEW i \in BitOfFrame, i < 8 * REGION_LEN
    PROVE  LET fcs   == checksum16_compute(f, REGION_LEN)
               after(error) == Flipped(Sealed(f, fcs), error)
               accepted(error) ==
                   checksum16_verify(after(error), REGION_LEN, ReceivedFcs(after(error)))
           IN  /\ ~ accepted({i})
               /\ \A j \in BitOfFrame :
                     /\ j < 8 * REGION_LEN /\ i # j /\ BitWeight(i) = BitWeight(j)
                     /\ ~ (i % 8 \in f[i \div 8] <=> j % 8 \in f[j \div 8])
                     => accepted({i, j})
<1> DEFINE fcs == checksum16_compute(f, REGION_LEN)
           s == Sealed(f, fcs)
           after(error) == Flipped(s, error)
           accepted(error) ==
               checksum16_verify(after(error), REGION_LEN, ReceivedFcs(after(error)))
           total == WordsOf(s)
           v == Value(fcs)
<1>1. /\ fcs \in Register /\ fcs \cap (0 .. 15) = fcs
      /\ s \in FrameBytes /\ \A k \in 0 .. REGION_LEN : s[k] = f[k]
  BY SealedSum
<1>10. v \in Nat /\ (total + v) % 65535 = 0
  BY SealedSum
<1>2. f \in FrameBytes /\ f[1] = SrcByte /\ s[1] = SrcByte
  <2>1. 1 \in 0 .. REGION_LEN
    BY Sizes
  <2> QED
    BY <1>1, <2>1 DEF SumFrame
<1>3. total \in Nat
  <2>1. s \in FrameBytes
    BY <1>1
  <2> HIDE DEF s
  <2> QED
    BY <2>1, RegionIsSummed, TotalFlip
<1> HIDE DEF fcs
<1>4. ASSUME NEW error, error \subseteq BitOfFrame, \A j \in error : j < 8 * REGION_LEN
      PROVE  ReceivedFcs(after(error)) = fcs
  <2>1. TrailerError(error) = {}
    BY <1>4, TrailerHit
  <2>2. ReceivedFcs(after(error)) = SymDiff(fcs, TrailerError(error))
    BY <1>1, <1>2, ReceivedDamaged
  <2> QED
    BY <2>1, <2>2 DEF SymDiff
<1> HIDE DEF s
\* The verdict on up to two flips in the region.
<1>5. ASSUME NEW j \in BitOfFrame, j < 8 * REGION_LEN
      PROVE  accepted({i, j}) <=> (WordsOf(after({i, j})) + v) % 65535 = 0
  <2> DEFINE e == {i, j}
  <2>1. ReceivedFcs(after(e)) = fcs
    BY <1>4, <1>5
  <2>2. WordsOf(after(e)) # 0
    <3>1. s \in FrameBytes /\ s[1] = SrcByte /\ e \subseteq {i, j}
      BY <1>1, <1>2
    <3> HIDE DEF e
    <3> QED
      BY <3>1, WordsRemain
  <2>3. after(e) \in FrameBytes
    BY <1>1, FlippedFrame
  <2> HIDE DEF e, after
  <2>4. checksum16_verify(after(e), REGION_LEN, ReceivedFcs(after(e)))
          <=> (WordsOf(after(e)) + Value(ReceivedFcs(after(e)) \cap (0 .. 15))) % 65535 = 0
    BY <2>2, <2>3, ChecksumVerdict
  <2>5. Value(ReceivedFcs(after(e)) \cap (0 .. 15)) = v
    <3> HIDE DEF v
    <3>1. fcs \cap (0 .. 15) = fcs
      BY <1>1
    <3> QED
      BY <2>1, <3>1 DEF v
  <2>6. checksum16_verify(after(e), REGION_LEN, ReceivedFcs(after(e)))
          <=> (WordsOf(after(e)) + v) % 65535 = 0
    <3> HIDE DEF v
    <3> QED
      BY <2>4, <2>5
  <2> QED
    BY <2>6 DEF e
<1>6. WordsOf(after({i})) = total + Gain(s, i)
  BY <1>1, RegionIsSummed, TotalFlip
<1>7. i \in Nat /\ BitWeight(i) \in Nat /\ 1 <= BitWeight(i) /\ BitWeight(i) <= 65280
  BY BitWeightType DEF BitOfFrame
<1> HIDE DEF total, v
<1>8. ~ accepted({i})
  <2> DEFINE W == BitWeight(i)
             a == total + v
  <2>1. {i, i} = {i}
    OBVIOUS
  <2>2. accepted({i}) <=> (WordsOf(after({i})) + v) % 65535 = 0
    <3> HIDE DEF accepted, after
    <3> QED
      BY <1>5, <2>1
  <2>3. WordsOf(after({i})) + v = a + W \/ WordsOf(after({i})) + v = a - W
    <3>1. Gain(s, i) = W \/ Gain(s, i) = - W
      BY DEF Gain
    <3> HIDE DEF W, after
    <3> QED
      BY <3>1, <1>10, <1>3, <1>6, <1>7 DEF W
  <2>4. a \in Nat /\ a % 65535 = 0 /\ W \in Nat /\ 1 <= W /\ W <= 65280
    BY <1>10, <1>3, <1>7 DEF total, v
  <2> HIDE DEF a, W, accepted, after
  <2>5. (a + W) % 65535 # 0 /\ (a - W) % 65535 # 0
    BY <2>4
  <2> QED
    BY <2>2, <2>3, <2>5
<1>9. ASSUME NEW j \in BitOfFrame, j < 8 * REGION_LEN, i # j, BitWeight(i) = BitWeight(j),
             ~ (i % 8 \in f[i \div 8] <=> j % 8 \in f[j \div 8])
      PROVE  accepted({i, j})
  <2> DEFINE h == after({i})
             p == i \div 8
             q == j \div 8
             W == BitWeight(i)
  <2>1. ASSUME NEW k \in BitOfFrame, k < 8 * REGION_LEN
        PROVE  /\ k \div 8 \in 0 .. FRAME_SIZE - 1 /\ k \div 8 \in 0 .. REGION_LEN
               /\ k % 8 \in 0 .. 7 /\ k = 8 * (k \div 8) + (k % 8)
    <3> DEFINE d == k \div 8
               m == k % 8
    <3>1. k \in Nat
      BY DEF BitOfFrame
    <3>2. d \in Nat /\ m \in 0 .. 7 /\ k = 8 * d + m
      BY <3>1, BitPlace
    <3> HIDE DEF d, m
    <3>3. d \in 0 .. FRAME_SIZE - 1 /\ d \in 0 .. REGION_LEN
      BY <3>2, <2>1, Sizes
    <3> QED
      BY <3>2, <3>3 DEF d, m
  <2>2. /\ p \in 0 .. REGION_LEN /\ p \in 0 .. FRAME_SIZE - 1 /\ i % 8 \in 0 .. 7
        /\ q \in 0 .. REGION_LEN /\ q \in 0 .. FRAME_SIZE - 1 /\ j % 8 \in 0 .. 7
        /\ i = 8 * p + (i % 8) /\ j = 8 * q + (j % 8)
    <3>1. p \in 0 .. REGION_LEN /\ p \in 0 .. FRAME_SIZE - 1 /\ i % 8 \in 0 .. 7
          /\ i = 8 * p + (i % 8)
      BY <2>1
    <3>2. q \in 0 .. REGION_LEN /\ q \in 0 .. FRAME_SIZE - 1 /\ j % 8 \in 0 .. 7
          /\ j = 8 * q + (j % 8)
      BY <2>1, <1>9
    <3> QED
      BY <3>1, <3>2
  <2>3. s[p] = f[p] /\ s[q] = f[q]
    BY <2>2, <1>1
  <2>4. h \in FrameBytes /\ \A k \in 0 .. FRAME_SIZE - 1 :
          h[k] = SymDiff(s[k], ErrorByte({i}, k))
    BY <1>1, FlippedFrame
  <2>5. j % 8 \in h[q] <=> j % 8 \in s[q]
    <3>1. j % 8 \notin ErrorByte({i}, q)
      <4> HIDE DEF p, q
      <4>1. ASSUME j % 8 \in ErrorByte({i}, q) PROVE FALSE
        <5>1. 8 * q + (j % 8) = i
          BY <4>1 DEF ErrorByte
        <5> QED
          BY <5>1, <2>2, <1>9
      <4> QED
        BY <4>1
    <3>2. h[q] = SymDiff(s[q], ErrorByte({i}, q))
      BY <2>2, <2>4
    <3> QED
      BY <3>1, <3>2, XorBits
  <2>6. Gain(s, i) + Gain(h, j) = 0
    <3>1. W \in Nat /\ BitWeight(j) = W
      BY <1>7, <1>9
    <3>2. Gain(s, i) = IF i % 8 \in f[p] THEN - W ELSE W
      BY <2>3 DEF Gain
    <3>3. Gain(h, j) = IF j % 8 \in f[q] THEN - W ELSE W
      BY <2>3, <2>5, <3>1 DEF Gain
    <3>4. ~ (i % 8 \in f[p] <=> j % 8 \in f[q])
      BY <1>9
    <3> HIDE DEF W, p, q, h
    <3> QED
      BY <3>1, <3>2, <3>3, <3>4
  <2>7. WordsOf(Flipped(h, {j})) = WordsOf(h) + Gain(h, j)
    <3> HIDE DEF h
    <3> QED
      BY <1>9, <2>4, RegionIsSummed, TotalFlip
  <2>8. Flipped(h, {j}) = after({i, j})
    <3>1. \A k : ErrorByte({i, j}, k) = SymDiff(ErrorByte({i}, k), ErrorByte({j}, k))
      <4>1. \A k, b : ~ (8 * k + b = i /\ 8 * k + b = j)
        BY <1>9
      <4> QED
        BY <4>1 DEF ErrorByte, SymDiff
    <3>2. \A A, B, C : SymDiff(SymDiff(A, B), C) = SymDiff(A, SymDiff(B, C))
      BY DEF SymDiff
    <3>3. \A g, error : Flipped(g, error) =
             [k \in 0 .. FRAME_SIZE - 1 |-> SymDiff(g[k], ErrorByte(error, k))]
      BY DEF Flipped, ErrorByte
    <3>4. ASSUME NEW k \in 0 .. FRAME_SIZE - 1
          PROVE  SymDiff(h[k], ErrorByte({j}, k)) = SymDiff(s[k], ErrorByte({i, j}, k))
      <4>1. h[k] = SymDiff(s[k], ErrorByte({i}, k))
        BY <2>4
      <4> DEFINE E == ErrorByte({i}, k)
                 F == ErrorByte({j}, k)
      <4> HIDE DEF h
      <4>2. ErrorByte({i, j}, k) = SymDiff(E, F)
        BY <3>1
      <4> HIDE DEF E, F
      <4>3. SymDiff(SymDiff(s[k], E), F) = SymDiff(s[k], SymDiff(E, F))
        BY <3>2
      <4> QED
        BY <4>1, <4>2, <4>3 DEF E, F
    <3>5. Flipped(h, {j}) = [k \in 0 .. FRAME_SIZE - 1 |-> SymDiff(h[k], ErrorByte({j}, k))]
      BY <3>3
    <3>6. after({i, j}) =
             [k \in 0 .. FRAME_SIZE - 1 |-> SymDiff(s[k], ErrorByte({i, j}, k))]
      BY <3>3
    <3> HIDE DEF h
    <3> QED
      BY <3>4, <3>5, <3>6
  <2>9. WordsOf(after({i, j})) = total
    <3>1. Gain(s, i) \in Int /\ Gain(h, j) \in Int
      <4>1. BitWeight(i) \in Nat /\ BitWeight(j) \in Nat
        BY <1>7, <1>9
      <4> QED
        BY <4>1 DEF Gain
    <3>2. WordsOf(h) = total + Gain(s, i)
      BY <1>6
    <3> HIDE DEF h, after
    <3> QED
      BY <3>1, <3>2, <1>3, <2>6, <2>7, <2>8 DEF total
  <2>10. accepted({i, j}) <=> (WordsOf(after({i, j})) + v) % 65535 = 0
    BY <1>5, <1>9
  <2>11. (total + v) % 65535 = 0
    BY <1>10 DEF total, v
  <2> HIDE DEF after, accepted
  <2> QED
    BY <2>9, <2>10, <2>11
<1> QED
  BY <1>8, <1>9 DEF fcs, s

\* A flip in the trailer is one in the FCS that is received.
LEMMA TrailerFlip ==
    ASSUME NEW i \in BitOfFrame, ~ (i < 8 * REGION_LEN)
    PROVE  LET b == 8 * (REGION_LEN + 3 - (i \div 8)) + (i % 8)
           IN  b \in 0 .. 31 /\ TrailerError({i}) = {b}
               /\ (b < 16 <=> ~ (i \div 8 < REGION_LEN + 2))
<1> DEFINE k == i \div 8
           c == i % 8
           b == 8 * (REGION_LEN + 3 - k) + c
<1>1. REGION_LEN \in Nat /\ i \in Nat /\ i < 8 * (REGION_LEN + 4) /\ i >= 8 * REGION_LEN
  BY Sizes DEF BitOfFrame
<1>2. k \in Nat /\ c \in 0 .. 7 /\ i = 8 * k + c
  BY <1>1, BitPlace
<1> HIDE DEF k, c
<1>3. REGION_LEN + 3 - k \in 0 .. 3
  BY <1>1, <1>2
<1>4. b \in 0 .. 31 /\ (b < 16 <=> ~ (k < REGION_LEN + 2))
  BY <1>1, <1>2, <1>3
<1>5. ASSUME NEW p \in 0 .. 31
      PROVE  p % 8 \in ErrorByte({i}, REGION_LEN + 3 - p \div 8) <=> p = b
  <2>1. p \div 8 \in Nat /\ p % 8 \in 0 .. 7 /\ p = 8 * (p \div 8) + (p % 8)
    BY BitPlace
  <2> DEFINE q == p \div 8
             m == p % 8
  <2> HIDE DEF q, m
  <2>2. q \in Nat /\ m \in 0 .. 7 /\ p = 8 * q + m
    BY <2>1 DEF q, m
  <2>3. m \in ErrorByte({i}, REGION_LEN + 3 - q) <=> 8 * (REGION_LEN + 3 - q) + m = i
    BY <2>2 DEF ErrorByte
  <2>4. 8 * (REGION_LEN + 3 - q) + m = i <=> p = b
    BY <1>1, <1>2, <2>2
  <2> QED
    BY <2>3, <2>4 DEF q, m
<1> HIDE DEF b
<1>6. TrailerError({i}) = {b}
  <2>1. TrailerError({i}) = {p \in 0 .. 31 : p % 8 \in ErrorByte({i}, REGION_LEN + 3 - p \div 8)}
    BY DEF TrailerError
  <2> QED
    BY <2>1, <1>4, <1>5
<1> QED
  BY <1>4, <1>6 DEF b, k, c

\* The weight of one bit of the sum: neither 0 nor a multiple of 65535.
PowerOfSum(w) == w \in Nat /\ 1 <= w /\ w <= 32768

LEMMA BitBound == ASSUME NEW b \in 0 .. 15 PROVE PowerOfSum(Weight({b}))
  BY DEF Weight, PowerOfSum

\* It is the bit's power of two.
LEMMA BitPower == ASSUME NEW b \in 0 .. 15 PROVE Weight({b}) = 2 ^ b
<1>1. Weight({b} \ {b}) = 0
  BY DEF Weight
<1>2. Weight({b}) = 2 ^ b + Weight({b} \ {b}) /\ 2 ^ b \in Nat
  BY WeightStep
<1> DEFINE p == 2 ^ b
           w == Weight({b})
           z == Weight({b} \ {b})
<1>3. w = p + z /\ p \in Nat /\ z = 0
  BY <1>1, <1>2
<1> HIDE DEF p, w, z
<1>4. w = p
  BY <1>3
<1> QED
  BY <1>4 DEF p, w

\* A flip in the trailer is seen, but for the bytes that lie behind the words and before
\* the 16 bits of the sum.
THEOREM ChecksumOfTrailer ==
    ASSUME NEW f, SumFrame(f), NEW i \in BitOfFrame, ~ (i < 8 * REGION_LEN)
    PROVE  LET fcs   == checksum16_compute(f, REGION_LEN)
               after == Flipped(Sealed(f, fcs), {i})
           IN  checksum16_verify(after, REGION_LEN, ReceivedFcs(after))
                 <=> i \div 8 \in 2 * WordCount .. REGION_LEN + 1
<1> DEFINE fcs == checksum16_compute(f, REGION_LEN)
           s == Sealed(f, fcs)
           after == Flipped(s, {i})
           total == WordsOf(s)
           v == Value(fcs)
           k == i \div 8
           b == 8 * (REGION_LEN + 3 - k) + (i % 8)
           low == ReceivedFcs(after) \cap (0 .. 15)
           accepted == checksum16_verify(after, REGION_LEN, ReceivedFcs(after))
<1> SUFFICES accepted <=> k \in 2 * WordCount .. REGION_LEN + 1
  OBVIOUS
<1>1. /\ fcs \in Register /\ fcs \cap (0 .. 15) = fcs
      /\ s \in FrameBytes /\ \A c \in 0 .. REGION_LEN : s[c] = f[c]
  BY SealedSum
<1>2. v \in Nat /\ (total + v) % 65535 = 0
  BY SealedSum
<1>3. f \in FrameBytes /\ s[1] = SrcByte
  <2>1. 1 \in 0 .. REGION_LEN
    BY Sizes
  <2> QED
    BY <1>1, <2>1 DEF SumFrame
<1> HIDE DEF fcs
<1>4. b \in 0 .. 31 /\ TrailerError({i}) = {b} /\ (b < 16 <=> ~ (k < REGION_LEN + 2))
  BY TrailerFlip
<1>5. ReceivedFcs(after) = SymDiff(fcs, {b})
  BY <1>1, <1>3, <1>4, ReceivedDamaged
<1> HIDE DEF s
<1>6. after \in FrameBytes /\ WordsOf(after) # 0
  <2>1. {i} \subseteq {i, i}
    OBVIOUS
  <2> QED
    BY <1>1, <1>3, <2>1, FlippedFrame, WordsRemain
<1>7. total \in Nat
  <2>1. 8 * 1 \in BitOfFrame /\ 8 * 1 < 8 * REGION_LEN
    BY Sizes DEF BitOfFrame
  <2> QED
    BY <1>1, <2>1, RegionIsSummed, TotalFlip
<1> HIDE DEF after
<1>8. accepted <=> (WordsOf(after) + Value(low)) % 65535 = 0
  BY <1>6, ChecksumVerdict
<1> HIDE DEF accepted
<1>9. k \in Nat /\ REGION_LEN <= k /\ REGION_LEN \in Nat /\ WordCount \in Nat
      /\ REGION_LEN <= 2 * WordCount /\ 2 * WordCount <= REGION_LEN + 1
  <2>1. REGION_LEN \in Nat /\ i \in Nat /\ i >= 8 * REGION_LEN
    BY Sizes DEF BitOfFrame
  <2>2. k \in Nat /\ i % 8 \in 0 .. 7 /\ i = 8 * k + (i % 8)
    BY <2>1, BitPlace
  <2> HIDE DEF k
  <2>3. REGION_LEN <= k
    <3> DEFINE c == i % 8
    <3> HIDE DEF c
    <3>1. c \in 0 .. 7 /\ i = 8 * k + c
      BY <2>2 DEF c
    <3> QED
      BY <2>1, <2>2, <3>1
  <2>4. WordCount \in Nat /\ REGION_LEN <= 2 * WordCount /\ 2 * WordCount <= REGION_LEN + 1
    BY <2>1 DEF WordCount
  <2> QED
    BY <2>1, <2>2, <2>3, <2>4
<1>10. ASSUME k < REGION_LEN + 2 PROVE low = fcs
  <2>1. ~ (b < 16)
    BY <1>4, <1>10
  <2> HIDE DEF b
  <2>2. b \notin 0 .. 15
    BY <1>4, <2>1
  <2> QED
    BY <1>1, <1>5, <2>2 DEF SymDiff
\* In the last word: its weight is added or taken away.
<1>11. CASE k < 2 * WordCount
  <2> DEFINE W == BitWeight(i)
  <2>1. low = fcs
    BY <1>9, <1>10, <1>11
  <2>2. WordsOf(after) = total + Gain(s, i)
    BY <1>1, <1>11, TotalFlip DEF after
  <2>3. W \in Nat /\ 1 <= W /\ W <= 65280
    BY BitWeightType DEF BitOfFrame
  <2>4. Gain(s, i) = W \/ Gain(s, i) = - W
    BY DEF Gain
  <2> HIDE DEF W, low, total, v
  <2>5. WordsOf(after) + v = (total + v) + W \/ WordsOf(after) + v = (total + v) - W
    BY <1>2, <1>7, <2>2, <2>3, <2>4
  <2>6. (WordsOf(after) + v) % 65535 # 0
    BY <1>2, <1>7, <2>3, <2>5
  <2>7. k \notin 2 * WordCount .. REGION_LEN + 1
    BY <1>9, <1>11
  <2>8. Value(low) = v
    BY <2>1 DEF v
  <2> QED
    BY <1>8, <2>6, <2>7, <2>8
<1>12. CASE ~ (k < 2 * WordCount)
  <2>1. WordsOf(after) = total
    BY <1>1, <1>12, TotalKept DEF after
  \* Behind the words, before the sum.
  <2>2. CASE k < REGION_LEN + 2
    <3>1. low = fcs
      BY <1>10, <2>2
    <3>2. k \in 2 * WordCount .. REGION_LEN + 1
      <4> HIDE DEF k
      <4> QED
        BY <1>9, <1>12, <2>2
    <3> HIDE DEF low
    <3>3. Value(low) = v
      BY <3>1
    <3> QED
      BY <1>2, <1>8, <2>1, <3>2, <3>3
  \* In the sum itself.
  <2>3. CASE ~ (k < REGION_LEN + 2)
    <3>1. b < 16
      BY <1>4, <2>3
    <3> HIDE DEF b
    <3>2. b \in 0 .. 15 /\ fcs \in SUBSET (0 .. 15)
      BY <1>1, <1>4, <3>1
    <3>3. low = SymDiff(fcs, {b})
      BY <1>5, <3>2 DEF SymDiff
    <3>4. Value(low) = v + (IF b \in fcs THEN - (2 ^ b) ELSE 2 ^ b)
      <4>1. Value(SymDiff(fcs, {b})) = Value(fcs) + (IF b \in fcs THEN - (2 ^ b) ELSE 2 ^ b)
        BY <3>2, BitFlip
      <4> HIDE DEF low
      <4> QED
        BY <3>3, <4>1
    <3> DEFINE p == Weight({b})
    <3>5. p \in Nat /\ 1 <= p /\ p <= 32768
      <4>1. PowerOfSum(p)
        BY <3>2, BitBound, Zenon
      <4> HIDE DEF p
      <4> QED
        BY <4>1 DEF PowerOfSum
    <3> HIDE DEF p
    <3>6. Value(low) = v - p \/ Value(low) = v + p
      <4> HIDE DEF low, v
      <4>1. Value(low) = v + (IF b \in fcs THEN - p ELSE p)
        BY <3>2, <3>4, BitPower, Zenon DEF p
      <4>2. p \in Nat
        BY <3>5
      <4> QED
        BY <1>2, <4>1, <4>2
    <3> HIDE DEF low, total, v
    <3>7. WordsOf(after) + Value(low) = (total + v) + p
          \/ WordsOf(after) + Value(low) = (total + v) - p
      <4>1. p \in Nat
        BY <3>5
      <4> QED
        BY <1>2, <1>7, <2>1, <3>6, <4>1
    <3>8. (WordsOf(after) + Value(low)) % 65535 # 0
      <4>1. p \in Nat /\ 1 <= p /\ p <= 32768
        BY <3>5
      <4> QED
        BY <1>2, <1>7, <3>7, <4>1
    <3>9. k \notin 2 * WordCount .. REGION_LEN + 1
      <4> HIDE DEF k
      <4> QED
        BY <1>9, <2>3
    <3> QED
      BY <1>8, <3>8, <3>9
  <2> QED
    BY <2>2, <2>3
<1> QED
  BY <1>11, <1>12

\* What was built of a message has the source address.
LEMMA BuiltForSum ==
    ASSUME NEW m, m.chunk \in Seq(Byte), Len(m.chunk) <= PAYLOAD_SIZE
    PROVE  SumFrame(Built(m))
<1> DEFINE payload == [i \in 0 .. Len(m.chunk) - 1 |-> m.chunk[i + 1]]
           len == Len(m.chunk)
           place(k) == CASE k \in 1 .. 6   -> SrcByte
                         [] k \in 7 .. 12  -> DestByte
                         [] k \in 13 .. 14 -> BigEndianByte(Bits16(len), k - 13, 2)
                         [] k \in 15 .. 16 -> BigEndianByte(Bits16(m.seq), k - 15, 2)
                         [] k \in HEADER_SIZE .. HEADER_SIZE + len - 1 ->
                               payload[k - HEADER_SIZE]
                         [] OTHER -> {}
<1>1. Built(m) = [k \in 0 .. FRAME_SIZE - 1 |-> place(k)]
  BY DEF Built, clean_frame
<1>2. /\ 1 \in 1 .. 6 /\ 1 \notin 7 .. 12 /\ 1 \notin 13 .. 14 /\ 1 \notin 15 .. 16
      /\ 1 \notin HEADER_SIZE .. HEADER_SIZE + len - 1
  BY DEF HEADER_SIZE
<1>3. place(1) = SrcByte
  <2> HIDE DEF payload, len
  <2> QED
    BY <1>2, Zenon
<1>4. 1 \in 0 .. FRAME_SIZE - 1
  BY Sizes
<1> HIDE DEF place
<1>5. Built(m)[1] = SrcByte
  BY <1>1, <1>3, <1>4
<1> QED
  BY <1>5, BuiltFrame DEF SumFrame

\* The two bits of a compensating error weigh the same and are some words apart.
LEMMA SameColumn ==
    ASSUME NEW f, NEW e \in CompensatingErrors(f)
    PROVE  \E i, j \in BitOfFrame :
              /\ e = {i, j} /\ i # j /\ i < 8 * REGION_LEN /\ j < 8 * REGION_LEN
              /\ BitWeight(i) = BitWeight(j)
              /\ ~ (i % 8 \in f[i \div 8] <=> j % 8 \in f[j \div 8])
              /\ \E k \in 1 .. (REGION_LEN \div 2) - 1 : j = i + 16 * k
<1> DEFINE Bit(word, c) == IF c < 8 THEN 8 * (2 * word + 1) + c ELSE 8 * (2 * word) + c - 8
           One(i) == i % 8 \in f[i \div 8]
<1>1. PICK t \in Words \X Words \X (0 .. 15) :
         /\ t[1] < t[2] /\ One(Bit(t[1], t[3])) # One(Bit(t[2], t[3]))
         /\ e = {Bit(t[1], t[3]), Bit(t[2], t[3])}
  BY DEF CompensatingErrors
<1> DEFINE v == t[1]
           w == t[2]
           c == t[3]
           i == Bit(v, c)
           j == Bit(w, c)
<1>2. v \in Words /\ w \in Words /\ c \in 0 .. 15 /\ v < w
  BY <1>1
<1>3. e = {i, j} /\ ~ (One(i) <=> One(j))
  BY <1>1
<1> HIDE DEF v, w, c
<1>4. ASSUME NEW x \in Words
      PROVE  /\ x \in Nat /\ Bit(x, c) \in BitOfFrame /\ Bit(x, c) < 8 * REGION_LEN
             /\ Bit(x, c) = 16 * x + (IF c < 8 THEN 8 + c ELSE c - 8)
             /\ BitWeight(Bit(x, c)) = (IF c < 8 THEN 1 ELSE 256)
                                         * 2 ^ (IF c < 8 THEN c ELSE c - 8)
  <2>1. x \in Nat /\ 2 * x + 1 < REGION_LEN
    <3>1. x \in 0 .. (REGION_LEN \div 2) - 1
      BY WordsAssumption
    <3> QED
      BY <3>1, Sizes
  <2>2. CASE c < 8
    <3>1. Bit(x, c) = 8 * (2 * x + 1) + c
      BY <2>2
    <3>2. 2 * x + 1 \in Nat /\ c \in 0 .. 7 /\ (2 * x + 1) % 2 = 1
      BY <1>2, <2>1, <2>2
    <3> DEFINE k == 2 * x + 1
    <3> HIDE DEF k, Bit
    <3>3. Bit(x, c) \div 8 = k /\ Bit(x, c) % 8 = c
      BY <3>1, <3>2, BitPlace DEF k
    <3>4. BitWeight(Bit(x, c)) = 1 * 2 ^ c
      BY <3>2, <3>3 DEF BitWeight, k
    <3>5. Bit(x, c) \in BitOfFrame /\ Bit(x, c) < 8 * REGION_LEN /\ Bit(x, c) = 16 * x + (8 + c)
      BY <3>1, <3>2, <2>1, Sizes DEF BitOfFrame
    <3> QED
      BY <3>4, <3>5, <2>1, <2>2
  <2>3. CASE ~ (c < 8)
    <3> DEFINE b == c - 8
               k == 2 * x
    <3>1. Bit(x, c) = 8 * k + b
      BY <2>3, <2>1, <1>2
    <3>2. k \in Nat /\ b \in 0 .. 7 /\ k % 2 = 0
      BY <1>2, <2>1, <2>3
    <3> HIDE DEF k, Bit, b
    <3>3. Bit(x, c) \div 8 = k /\ Bit(x, c) % 8 = b
      BY <3>1, <3>2, BitPlace
    <3>4. BitWeight(Bit(x, c)) = 256 * 2 ^ b
      BY <3>2, <3>3 DEF BitWeight
    <3>5. Bit(x, c) \in BitOfFrame /\ Bit(x, c) < 8 * REGION_LEN /\ Bit(x, c) = 16 * x + b
      BY <3>1, <3>2, <2>1, Sizes DEF BitOfFrame, k
    <3> QED
      BY <3>4, <3>5, <2>1, <2>3 DEF b
  <2> QED
    BY <2>2, <2>3
<1>5. i # j
  <2> HIDE DEF Bit
  <2>1. /\ i = 16 * v + (IF c < 8 THEN 8 + c ELSE c - 8) /\ v \in Nat
        /\ j = 16 * w + (IF c < 8 THEN 8 + c ELSE c - 8) /\ w \in Nat
    BY <1>2, <1>4
  <2> HIDE DEF i, j
  <2> QED
    BY <2>1, <1>2
<1>6. BitWeight(i) = BitWeight(j)
  <2> HIDE DEF Bit
  <2> QED
    BY <1>2, <1>4
<1>7. i \in BitOfFrame /\ j \in BitOfFrame /\ i < 8 * REGION_LEN /\ j < 8 * REGION_LEN
  <2> HIDE DEF Bit
  <2> QED
    BY <1>2, <1>4
<1>8. \E k \in 1 .. (REGION_LEN \div 2) - 1 : j = i + 16 * k
  <2>1. v \in 0 .. (REGION_LEN \div 2) - 1 /\ w \in 0 .. (REGION_LEN \div 2) - 1
    BY <1>2, WordsAssumption
  <2> DEFINE b == IF c < 8 THEN 8 + c ELSE c - 8
             last_word == (REGION_LEN \div 2) - 1
  <2>2. i = 16 * v + b /\ j = 16 * w + b /\ b \in Int
    <3> HIDE DEF Bit
    <3> QED
      BY <1>2, <1>4
  <2>3. last_word \in Int
    BY Sizes
  <2> HIDE DEF b, last_word, i, j
  <2>4. v \in 0 .. last_word /\ w \in 0 .. last_word
    BY <2>1 DEF last_word
  <2>5. w - v \in 1 .. last_word /\ j = i + 16 * (w - v)
    BY <1>2, <2>2, <2>3, <2>4
  <2> QED
    BY <2>5 DEF last_word
<1> HIDE DEF i, j
<1> QED
  BY <1>3, <1>5, <1>6, <1>7, <1>8

\* The array of zeros that all_zero ends with a byte of another frame.
LEMMA NoAllZeroBlindSpot == ~ AllZeroBlindSpot
<1> SUFFICES ASSUME NEW beyond \in Byte,
                    checksum16_verify([k \in 0 .. REGION_LEN |->
                                         IF k < REGION_LEN THEN {} ELSE beyond],
                                      REGION_LEN, {})
             PROVE  FALSE
  BY DEF AllZeroBlindSpot
<1> DEFINE N == REGION_LEN
           n == (N + 1) \div 2
           data == [k \in 0 .. N |-> IF k < N THEN {} ELSE beyond]
<1>1. N \in Nat /\ n \in Nat /\ n > 0
  BY Sizes
<1>2. {} \in Byte /\ \A k \in 0 .. N : data[k] \in Byte /\ (k < N => data[k] = {})
  BY DEF Byte
<1> HIDE DEF data, N
<1>3. PICK s \in [0 .. n -> Word] : IsSums(s, data, N) /\ ones_comp_sum(data, N) = s[n]
  BY <1>1, <1>2, SumsExist
<1>4. s[0] = 0 /\ \A k \in 1 .. n : s[k] = NextSum(s[k - 1], data[2 * k - 2], data[2 * k - 1])
  BY <1>1, <1>3, SumsUnfold
<1>5. \A k \in 1 .. n : /\ 2 * k - 2 \in 0 .. N /\ 2 * k - 1 \in 0 .. N
                        /\ 2 * k - 2 < N /\ (k < n => 2 * k - 1 < N)
  BY <1>1
<1>6. Value({}) = 0 /\ {} \cap (0 .. 15) = {}
  <2>1. {} \in SUBSET (0 .. 15)
    OBVIOUS
  <2> QED
    BY <2>1, ValueIs DEF Weight
<1> HIDE DEF n
<1> DEFINE S == {k \in 0 .. n : k < n => s[k] = 0}
<1>7. 0 \in S
  BY <1>1, <1>4
<1>8. ASSUME NEW k \in 1 .. n, k - 1 \in S PROVE k \in S
  <2>1. k \in 0 .. n /\ k - 1 < n
    BY <1>1
  <2>2. CASE k < n
    <3>1. data[2 * k - 2] = {} /\ data[2 * k - 1] = {}
      BY <1>2, <1>5, <2>2
    <3>2. s[k - 1] = 0
      BY <1>8, <2>1
    <3>3. s[k] = NextSum(0, {}, {})
      BY <1>4, <3>1, <3>2
    <3>4. EndAroundCarry(0 + 256 * 0 + 0) = 0
      BY DEF EndAroundCarry
    <3> QED
      BY <2>1, <3>3, <3>4, <1>6 DEF NextSum
  <2> QED
    BY <2>1, <2>2
<1>9. n - 1 \in S
  <2> HIDE DEF S
  <2>1. \A k \in 1 .. n : k - 1 \in S => k \in S
    BY <1>8
  <2>2. 0 .. n \subseteq S
    BY <1>1, <1>7, <2>1, InductionUpTo
  <2>3. n - 1 \in 0 .. n
    BY <1>1
  <2> QED
    BY <2>2, <2>3
<1> DEFINE low == data[2 * n - 1]
<1>10. n \in 1 .. n /\ n - 1 < n
  BY <1>1
<1>11. s[n - 1] = 0 /\ data[2 * n - 2] = {} /\ low \in Byte
  BY <1>2, <1>5, <1>9, <1>10
<1>12. s[n] = EndAroundCarry(0 + 256 * 0 + Value(low))
  <2>1. s[n] = NextSum(s[n - 1], data[2 * n - 2], low)
    BY <1>4, <1>10
  <2> HIDE DEF low
  <2>2. s[n] = NextSum(0, {}, low)
    BY <2>1, <1>11
  <2> QED
    BY <2>2, <1>6 DEF NextSum
<1>13. Value(low) \in Nat /\ Value(low) <= 255
  BY <1>11, ValueType
<1> HIDE DEF low
<1>14. s[n] \in Nat /\ s[n] <= 255
  <2> DEFINE x == Value(low)
  <2> HIDE DEF x
  <2>1. x \in Nat /\ x <= 255
    BY <1>13 DEF x
  <2>2. EndAroundCarry(0 + 256 * 0 + x) = x
    BY <2>1 DEF EndAroundCarry
  <2> QED
    BY <2>1, <2>2, <1>12 DEF x
<1>15. checksum16_verify(data, N, {})
  BY DEF data, N
<1>16. EndAroundCarry(s[n] + 0) = 65535
  BY <1>15, <1>3, <1>6 DEF checksum16_verify
<1> DEFINE x == s[n]
<1> HIDE DEF x
<1>17. x \in Nat /\ x <= 255
  BY <1>14 DEF x
<1>18. EndAroundCarry(x + 0) = x
  BY <1>17 DEF EndAroundCarry
<1> QED
  BY <1>16, <1>17, <1>18 DEF x

-----------------------------------------------------------------------------
(* Bursts under a CRC.                                                     *)

\* The residue of the next power, bit by bit.
LEMMA PowerNext ==
    ASSUME NEW g, Generator(g), NEW top, top = g.degree - 1, NEW e \in Nat
    PROVE  \A r : r \in Power(e + 1, g) <=>
                    /\ r \in 0 .. top
                    /\ ~ (r - 1 \in Power(e, g) <=> top \in Power(e, g) /\ r \in g.poly)
<1>1. /\ Power(e, g) \in Register /\ Power(e + 1, g) = Times(Power(e, g), g, 1)
      /\ Power(e, g) \subseteq 0 .. top
  BY PowerType
<1> DEFINE p == Power(e, g)
<1> HIDE DEF p
<1>2. p \in Register
  BY <1>1 DEF p
<1>3. Times(p, g, 1) = Low(DivideStep(p, g), g)
  <2>1. DivideSteps(p, g, 0 + 1) = DivideStep(DivideSteps(p, g, 0), g)
    BY <1>2, StepsLast
  <2>2. DivideSteps(p, g, 0) = p
    BY <1>2, StepsUnfold
  <2> QED
    BY <2>1, <2>2 DEF Times
<1>4. ASSUME NEW r \in 0 .. top
      PROVE  r \in Low(DivideStep(p, g), g) <=>
                ~ ((r >= 1 /\ r - 1 \in p) <=> (top \in p /\ r \in g.poly))
  <2>1. r \in 0 .. 31
    BY DEF Generator
  <2> QED
    BY <1>2, <2>1, StepBits DEF Low
<1>5. Low(DivideStep(p, g), g) \subseteq 0 .. top
  BY DEF Low
<1> QED
  <2>1. ASSUME NEW r \in 0 .. top PROVE (r >= 1 /\ r - 1 \in p) <=> r - 1 \in p
    BY <1>1 DEF p
  <2> QED
    BY <1>1, <1>3, <1>4, <1>5, <2>1 DEF p

\* Successive powers telescope when they are multiplied by x + 1.
LEMMA IntervalTimes ==
    ASSUME NEW g, Generator(g), NEW a \in Nat, NEW b \in Nat, a <= b
    PROVE  LET r == Residue(a .. b - 1, g)
           IN  SymDiff(Times(r, g, 1), r) = SymDiff(Power(a, g), Power(b, g))
<1> DEFINE I == a .. b - 1
<1>1. IsPolynomial(I) /\ IsPolynomial({a}) /\ IsPolynomial({b})
  <2>1. I \in SUBSET (0 .. b) /\ {a} \in SUBSET (0 .. b) /\ {b} \in SUBSET (0 .. b)
    OBVIOUS
  <2> HIDE DEF I
  <2> QED
    BY <2>1, BoundedPolynomial
<1>2. SymDiff(Shift(I, 1), I) = SymDiff({a}, {b})
  <2>1. \A n : n \in Shift(I, 1) <=> n \in a + 1 .. b
    <3>1. \A n \in a + 1 .. b : n - 1 \in I /\ n = (n - 1) + 1
      OBVIOUS
    <3>2. \A n \in I : n + 1 \in a + 1 .. b
      OBVIOUS
    <3> HIDE DEF I
    <3> QED
      BY <3>1, <3>2 DEF Shift
  <2>2. \A n : n \in I <=> n \in Int /\ a <= n /\ n < b
    OBVIOUS
  <2>3. \A n : n \in a + 1 .. b <=> n \in Int /\ a < n /\ n <= b
    OBVIOUS
  <2> DEFINE X == SymDiff(Shift(I, 1), I)
             Y == SymDiff({a}, {b})
  <2>4. \A n : n \in X <=> ~ (n \in Shift(I, 1) <=> n \in I)
    BY XorBits
  <2>5. \A n : n \in Y <=> ~ (n = a <=> n = b)
    BY XorBits
  <2> HIDE DEF X, Y, I
  <2>6. \A n : n \in X <=> n \in Y
    BY <2>1, <2>2, <2>3, <2>4, <2>5
  <2>7. X = Y
    BY <2>6
  <2> QED
    BY <2>7 DEF X, Y
<1> HIDE DEF I
<1>3. IsPolynomial(Shift(I, 1))
  BY <1>1, ShiftType
<1>4. Residue(SymDiff(Shift(I, 1), I), g) = SymDiff(Residue(Shift(I, 1), g), Residue(I, g))
  BY <1>1, <1>3, ResidueLinear
<1>5. Residue(Shift(I, 1), g) = Times(Residue(I, g), g, 1)
  BY <1>1, ResidueShift
<1>6. Residue(SymDiff({a}, {b}), g) = SymDiff(Residue({a}, g), Residue({b}, g))
  BY <1>1, ResidueLinear
<1>7. Residue({a}, g) = Power(a, g) /\ Residue({b}, g) = Power(b, g)
  BY ResidueLow
<1> QED
  BY <1>2, <1>4, <1>5, <1>6, <1>7 DEF I

\* The powers of a burst that begins at bit o of a byte and ends before bit t of the
\* m-th byte after it: as flip_bit numbers the bits of a byte upwards, the burst falls
\* apart into the end of its first byte, the bytes between, and the start of its last.
BurstPowers(o, m, t) == (0 .. t - 1) \cup (8 .. 8 * m - 1) \cup (8 * m + o .. 8 * m + 7)

\* They are those powers, from the end of the burst on.
LEMMA PowersOfBurst ==
    ASSUME NEW q \in Nat, NEW o \in 0 .. 7, NEW m \in 1 .. 4, NEW t \in 1 .. 8,
           8 * q + 8 * m + t <= 8 * REGION_LEN
    PROVE  LET error == 8 * q + o .. 8 * q + 8 * m + t - 1
               base  == 8 * (REGION_LEN - 1 - q - m)
           IN  /\ base \in Nat
               /\ Powers(error) = Shift(BurstPowers(o, m, t), base)
<1> DEFINE N == REGION_LEN
           error == 8 * q + o .. 8 * q + 8 * m + t - 1
           base == 8 * (N - 1 - q - m)
           pow(i) == 8 * (N - 1 - (i \div 8)) + (i % 8)
           B == BurstPowers(o, m, t)
           P == Powers(error)
           Q == Shift(B, base)
<1>1. N \in Nat
  BY Sizes
<1> HIDE DEF N
<1>2. base \in Nat
  BY <1>1 DEF N
<1>3. \A n : n \in B <=> \/ n \in Int /\ 0 <= n /\ n <= t - 1
                         \/ n \in Int /\ 8 <= n /\ n <= 8 * m - 1
                         \/ n \in Int /\ 8 * m + o <= n /\ n <= 8 * m + 7
  BY DEF BurstPowers
<1>4. \A i : i \in error <=> i \in Int /\ 8 * q + o <= i /\ i <= 8 * q + 8 * m + t - 1
  OBVIOUS
<1>5. \A i \in error : i \in Nat /\ i < 8 * N
  BY <1>1, <1>4 DEF N
<1>6. P = {pow(i) : i \in {j \in error : j < 8 * N}}
  BY DEF Powers, N
<1>7. Q = {n + base : n \in B}
  BY DEF Shift
<1> HIDE DEF error, B, P, Q
<1>8. ASSUME NEW x \in P PROVE x \in Q
  <2>1. PICK i \in error : x = pow(i)
    BY <1>6
  <2> DEFINE k == i \div 8
             b == i % 8
  <2>2. i \in Nat
    BY <1>5
  <2>3. k \in Nat /\ b \in 0 .. 7 /\ i = 8 * k + b
    BY <2>2, BitPlace
  <2>4. x = 8 * (N - 1 - k) + b
    BY <2>1
  <2> HIDE DEF k, b
  <2> DEFINE n == 8 * (q + m - k) + b
  <2>5. x = n + base
    BY <1>1, <2>3, <2>4
  <2>6. 8 * q + o <= 8 * k + b /\ 8 * k + b <= 8 * q + 8 * m + t - 1
    BY <1>4, <2>3
  <2>7. n \in B
    <3>1. n \in Int
      BY <2>3
    <3>2. CASE k = q
      BY <1>3, <2>3, <2>6, <3>1, <3>2
    <3>3. CASE k = q + m
      BY <1>3, <2>3, <2>6, <3>1, <3>3
    <3>4. CASE k > q /\ k < q + m
      BY <1>3, <2>3, <2>6, <3>1, <3>4
    <3>5. k >= q /\ k <= q + m
      BY <2>3, <2>6
    <3> QED
      BY <2>3, <3>2, <3>3, <3>4, <3>5
  <2> HIDE DEF n, base
  <2> QED
    BY <1>7, <2>5, <2>7
<1>9. ASSUME NEW x \in Q PROVE x \in P
  <2>1. PICK n \in B : x = n + base
    BY <1>7
  <2> DEFINE c == n \div 8
             b == n % 8
  <2>2. n \in Nat
    BY <1>3, <2>1
  <2>3. c \in Nat /\ b \in 0 .. 7 /\ n = 8 * c + b
    BY <2>2, BitPlace
  <2> HIDE DEF c, b
  <2> DEFINE k == q + m - c
             i == 8 * k + b
  <2>4. c <= m /\ k \in Nat
    BY <1>3, <2>1, <2>3
  <2>5. i \in error
    <3>1. i \in Int
      BY <2>3, <2>4
    <3>2. CASE c = 0
      BY <1>3, <1>4, <2>1, <2>3, <3>1, <3>2
    <3>3. CASE c = m
      BY <1>3, <1>4, <2>1, <2>3, <3>1, <3>3
    <3>4. CASE c > 0 /\ c < m
      BY <1>3, <1>4, <2>1, <2>3, <3>1, <3>4
    <3> QED
      BY <2>3, <2>4, <3>2, <3>3, <3>4
  <2>6. x = 8 * (N - 1 - k) + b
    BY <1>1, <2>1, <2>3
  <2> HIDE DEF k
  <2>7. i \div 8 = k /\ i % 8 = b
    BY <2>3, <2>4, BitPlace
  <2>8. x = pow(i)
    BY <2>6, <2>7
  <2> HIDE DEF i, pow
  <2> QED
    BY <1>5, <1>6, <2>5, <2>8
<1>10. P = Q
  BY <1>8, <1>9
<1> QED
  BY <1>2, <1>10 DEF P, Q, B, error, N

\* Its residue, times x + 1, consists of six powers: if some bit is in an odd number of
\* them, the residue is not zero.
LEMMA BurstResidue ==
    ASSUME NEW g, Generator(g), NEW o \in 0 .. 7, NEW m \in 1 .. 4, NEW t \in 1 .. 8,
           NEW r,
           ~ (r \in SymDiff(Power(0, g), Power(t, g)) <=>
              ~ (r \in SymDiff(Power(8, g), Power(8 * m, g)) <=>
                 r \in SymDiff(Power(8 * m + o, g), Power(8 * m + 8, g))))
    PROVE  /\ IsPolynomial(BurstPowers(o, m, t))
           /\ Residue(BurstPowers(o, m, t), g) # {}
<1> DEFINE A == 0 .. t - 1
           B == 8 .. 8 * m - 1
           C == 8 * m + o .. 8 * m + 7
           P == BurstPowers(o, m, t)
           BC == SymDiff(B, C)
           a == Residue(A, g)
           b == Residue(B, g)
           c == Residue(C, g)
           bc == SymDiff(b, c)
           up(x) == SymDiff(Times(x, g, 1), x)
<1>1. IsPolynomial(A) /\ IsPolynomial(B) /\ IsPolynomial(C) /\ IsPolynomial(BC)
  <2>1. /\ A \in SUBSET (0 .. 8 * m + 7) /\ B \in SUBSET (0 .. 8 * m + 7)
        /\ C \in SUBSET (0 .. 8 * m + 7) /\ 8 * m + 7 \in Int
    OBVIOUS
  <2> HIDE DEF A, B, C
  <2>2. BC \in SUBSET (0 .. 8 * m + 7)
    BY <2>1 DEF SymDiff
  <2> HIDE DEF BC
  <2> QED
    BY <2>1, <2>2, BoundedPolynomial
<1>2. P = SymDiff(A, BC) /\ IsPolynomial(P)
  <2>1. \A n : /\ ~ (n \in A /\ n \in B) /\ ~ (n \in A /\ n \in C) /\ ~ (n \in B /\ n \in C)
    OBVIOUS
  <2>2. P = A \cup B \cup C
    BY DEF BurstPowers
  <2>3. P \in SUBSET (0 .. 8 * m + 7) /\ 8 * m + 7 \in Int
    BY <2>2
  <2> HIDE DEF A, B, C, P
  <2>4. P = SymDiff(A, BC)
    BY <2>1, <2>2 DEF SymDiff
  <2>5. IsPolynomial(P)
    BY <2>3, BoundedPolynomial
  <2> QED
    BY <2>4, <2>5
<1>3. /\ up(a) = SymDiff(Power(0, g), Power(t, g))
      /\ up(b) = SymDiff(Power(8, g), Power(8 * m, g))
      /\ up(c) = SymDiff(Power(8 * m + o, g), Power(8 * m + 8, g))
  <2>1. 0 \in Nat /\ t \in Nat /\ 0 <= t
    OBVIOUS
  <2>2. 8 \in Nat /\ 8 * m \in Nat /\ 8 <= 8 * m
    OBVIOUS
  <2>3. 8 * m + o \in Nat /\ 8 * m + 8 \in Nat /\ 8 * m + o <= 8 * m + 8
        /\ 8 * m + 7 = (8 * m + 8) - 1
    OBVIOUS
  <2>4. up(a) = SymDiff(Power(0, g), Power(t, g))
    BY <2>1, IntervalTimes
  <2>5. up(b) = SymDiff(Power(8, g), Power(8 * m, g))
    BY <2>2, IntervalTimes
  <2>6. up(c) = SymDiff(Power(8 * m + o, g), Power(8 * m + 8, g))
    BY <2>3, IntervalTimes
  <2> QED
    BY <2>4, <2>5, <2>6
<1> HIDE DEF A, B, C, BC, P
<1>4. Residue(P, g) = SymDiff(a, bc)
  BY <1>1, <1>2, ResidueLinear DEF BC
<1>5. a \in Register /\ b \in Register /\ c \in Register /\ bc \in Register
  BY ResidueType, XorType
<1>6. ASSUME NEW x \in Register, NEW y \in Register
      PROVE  \A n : n \in up(SymDiff(x, y)) <=> ~ (n \in up(x) <=> n \in up(y))
  <2>1. Times(SymDiff(x, y), g, 1) = SymDiff(Times(x, g, 1), Times(y, g, 1))
    BY TimesLinear
  <2> QED
    BY <2>1, XorBits
<1> HIDE DEF a, b, c
<1>7. \A n : n \in up(bc) <=> ~ (n \in up(b) <=> n \in up(c))
  BY <1>5, <1>6
<1> HIDE DEF bc
<1>8. \A n : n \in up(SymDiff(a, bc)) <=> ~ (n \in up(a) <=> n \in up(bc))
  BY <1>5, <1>6
<1>9. r \in up(SymDiff(a, bc))
  <2> HIDE DEF up
  <2> QED
    BY <1>3, <1>7, <1>8
<1>10. up({}) = {}
  <2>1. Times({}, g, 1) = {}
    BY StepsOfNothing DEF Times, Low
  <2> QED
    BY <2>1 DEF SymDiff
<1>11. Residue(P, g) # {}
  <2> HIDE DEF up
  <2> QED
    BY <1>4, <1>9, <1>10
<1> QED
  BY <1>2, <1>11 DEF P

\* The powers that a burst of each code can have.  They are computed one from the other:
\* up by one, and the polynomial added when the top bit leaves.
LEMMA Crc8Powers ==
    ASSUME NEW g, g = crc_generator("crc8")
    PROVE  /\ Power(8, g) = {0, 2, 4, 6, 7}
           /\ Power(9, g) = {0, 1, 2, 3, 4, 5, 6}
           /\ Power(10, g) = {1, 2, 3, 4, 5, 6, 7}
           /\ Power(11, g) = {0, 3, 5}
           /\ Power(12, g) = {1, 4, 6}
           /\ Power(13, g) = {2, 5, 7}
           /\ Power(14, g) = {0, 2, 3, 4, 7}
           /\ Power(15, g) = {0, 1, 2, 3, 5, 6, 7}
           /\ Power(16, g) = {0, 1, 3}
           /\ Power(17, g) = {1, 2, 4}
           /\ Power(18, g) = {2, 3, 5}
           /\ Power(19, g) = {3, 4, 6}
           /\ Power(20, g) = {4, 5, 7}
           /\ Power(21, g) = {0, 2, 4, 5, 7}
           /\ Power(22, g) = {0, 1, 2, 3, 4, 5, 7}
           /\ Power(23, g) = {0, 1, 3, 5, 7}
           /\ Power(24, g) = {0, 1, 7}
           /\ Power(25, g) = {0, 1, 4, 6, 7}
           /\ Power(26, g) = {0, 1, 4, 5, 6}
           /\ Power(27, g) = {1, 2, 5, 6, 7}
           /\ Power(28, g) = {0, 3, 4}
           /\ Power(29, g) = {1, 4, 5}
<1>1. g = [poly |-> {0, 2, 4, 6, 7}, degree |-> 8]
  BY DEF crc_generator
<1>2. g.degree = 8 /\ g.degree - 1 = 7 /\ g.poly = {0, 2, 4, 6, 7}
  BY <1>1
<1>4. Generator(g)
  BY Generators DEF CrcScheme
<1>3. ASSUME NEW e \in Nat
      PROVE  \A r : r \in Power(e + 1, g) <=>
                      /\ r \in 0 .. 7
                      /\ ~ (r - 1 \in Power(e, g) <=> 7 \in Power(e, g) /\ r \in g.poly)
  <2> DEFINE top == 7
  <2>1. top = g.degree - 1
    BY <1>2
  <2> HIDE DEF top
  <2>2. \A r : r \in Power(e + 1, g) <=>
                 /\ r \in 0 .. top
                 /\ ~ (r - 1 \in Power(e, g) <=> top \in Power(e, g) /\ r \in g.poly)
    BY <1>4, <2>1, PowerNext
  <2> QED
    BY <2>2 DEF top
<1>8. Power(8, g) = {0, 2, 4, 6, 7}
  BY <1>2, <1>4, PowerLow
<1>9. Power(9, g) = {0, 1, 2, 3, 4, 5, 6}
  BY <1>2, <1>8, <1>3, 8 + 1 = 9
<1>10. Power(10, g) = {1, 2, 3, 4, 5, 6, 7}
  BY <1>2, <1>9, <1>3, 9 + 1 = 10
<1>11. Power(11, g) = {0, 3, 5}
  BY <1>2, <1>10, <1>3, 10 + 1 = 11
<1>12. Power(12, g) = {1, 4, 6}
  BY <1>2, <1>11, <1>3, 11 + 1 = 12
<1>13. Power(13, g) = {2, 5, 7}
  BY <1>2, <1>12, <1>3, 12 + 1 = 13
<1>14. Power(14, g) = {0, 2, 3, 4, 7}
  BY <1>2, <1>13, <1>3, 13 + 1 = 14
<1>15. Power(15, g) = {0, 1, 2, 3, 5, 6, 7}
  BY <1>2, <1>14, <1>3, 14 + 1 = 15
<1>16. Power(16, g) = {0, 1, 3}
  BY <1>2, <1>15, <1>3, 15 + 1 = 16
<1>17. Power(17, g) = {1, 2, 4}
  BY <1>2, <1>16, <1>3, 16 + 1 = 17
<1>18. Power(18, g) = {2, 3, 5}
  BY <1>2, <1>17, <1>3, 17 + 1 = 18
<1>19. Power(19, g) = {3, 4, 6}
  BY <1>2, <1>18, <1>3, 18 + 1 = 19
<1>20. Power(20, g) = {4, 5, 7}
  BY <1>2, <1>19, <1>3, 19 + 1 = 20
<1>21. Power(21, g) = {0, 2, 4, 5, 7}
  BY <1>2, <1>20, <1>3, 20 + 1 = 21
<1>22. Power(22, g) = {0, 1, 2, 3, 4, 5, 7}
  BY <1>2, <1>21, <1>3, 21 + 1 = 22
<1>23. Power(23, g) = {0, 1, 3, 5, 7}
  BY <1>2, <1>22, <1>3, 22 + 1 = 23
<1>24. Power(24, g) = {0, 1, 7}
  BY <1>2, <1>23, <1>3, 23 + 1 = 24
<1>25. Power(25, g) = {0, 1, 4, 6, 7}
  BY <1>2, <1>24, <1>3, 24 + 1 = 25
<1>26. Power(26, g) = {0, 1, 4, 5, 6}
  BY <1>2, <1>25, <1>3, 25 + 1 = 26
<1>27. Power(27, g) = {1, 2, 5, 6, 7}
  BY <1>2, <1>26, <1>3, 26 + 1 = 27
<1>28. Power(28, g) = {0, 3, 4}
  BY <1>2, <1>27, <1>3, 27 + 1 = 28
<1>29. Power(29, g) = {1, 4, 5}
  BY <1>2, <1>28, <1>3, 28 + 1 = 29
<1> QED
  BY <1>8, <1>9, <1>10, <1>11, <1>12, <1>13, <1>14, <1>15, <1>16, <1>17, <1>18, <1>19,
     <1>20, <1>21, <1>22, <1>23, <1>24, <1>25, <1>26, <1>27, <1>28, <1>29

\* ... those of crc10,
LEMMA Crc10Powers ==
    ASSUME NEW g, g = crc_generator("crc10")
    PROVE  /\ Power(10, g) = {0, 1, 4, 5, 9}
           /\ Power(11, g) = {0, 2, 4, 6, 9}
           /\ Power(12, g) = {0, 3, 4, 7, 9}
           /\ Power(13, g) = {0, 8, 9}
           /\ Power(14, g) = {0, 4, 5}
           /\ Power(15, g) = {1, 5, 6}
           /\ Power(16, g) = {2, 6, 7}
           /\ Power(17, g) = {3, 7, 8}
           /\ Power(18, g) = {4, 8, 9}
           /\ Power(19, g) = {0, 1, 4}
           /\ Power(20, g) = {1, 2, 5}
           /\ Power(21, g) = {2, 3, 6}
           /\ Power(22, g) = {3, 4, 7}
           /\ Power(23, g) = {4, 5, 8}
           /\ Power(24, g) = {5, 6, 9}
           /\ Power(25, g) = {0, 1, 4, 5, 6, 7, 9}
           /\ Power(26, g) = {0, 2, 4, 6, 7, 8, 9}
           /\ Power(27, g) = {0, 3, 4, 7, 8}
           /\ Power(28, g) = {1, 4, 5, 8, 9}
           /\ Power(29, g) = {0, 1, 2, 4, 6}
<1>1. g = [poly |-> {0, 1, 4, 5, 9}, degree |-> 10]
  BY DEF crc_generator
<1>2. g.degree = 10 /\ g.degree - 1 = 9 /\ g.poly = {0, 1, 4, 5, 9}
  BY <1>1
<1>4. Generator(g)
  BY Generators DEF CrcScheme
<1>3. ASSUME NEW e \in Nat
      PROVE  \A r : r \in Power(e + 1, g) <=>
                      /\ r \in 0 .. 9
                      /\ ~ (r - 1 \in Power(e, g) <=> 9 \in Power(e, g) /\ r \in g.poly)
  <2> DEFINE top == 9
  <2>1. top = g.degree - 1
    BY <1>2
  <2> HIDE DEF top
  <2>2. \A r : r \in Power(e + 1, g) <=>
                 /\ r \in 0 .. top
                 /\ ~ (r - 1 \in Power(e, g) <=> top \in Power(e, g) /\ r \in g.poly)
    BY <1>4, <2>1, PowerNext
  <2> QED
    BY <2>2 DEF top
<1>10. Power(10, g) = {0, 1, 4, 5, 9}
  BY <1>2, <1>4, PowerLow
<1>11. Power(11, g) = {0, 2, 4, 6, 9}
  BY <1>2, <1>10, <1>3, 10 + 1 = 11
<1>12. Power(12, g) = {0, 3, 4, 7, 9}
  BY <1>2, <1>11, <1>3, 11 + 1 = 12
<1>13. Power(13, g) = {0, 8, 9}
  BY <1>2, <1>12, <1>3, 12 + 1 = 13
<1>14. Power(14, g) = {0, 4, 5}
  BY <1>2, <1>13, <1>3, 13 + 1 = 14
<1>15. Power(15, g) = {1, 5, 6}
  BY <1>2, <1>14, <1>3, 14 + 1 = 15
<1>16. Power(16, g) = {2, 6, 7}
  BY <1>2, <1>15, <1>3, 15 + 1 = 16
<1>17. Power(17, g) = {3, 7, 8}
  BY <1>2, <1>16, <1>3, 16 + 1 = 17
<1>18. Power(18, g) = {4, 8, 9}
  BY <1>2, <1>17, <1>3, 17 + 1 = 18
<1>19. Power(19, g) = {0, 1, 4}
  BY <1>2, <1>18, <1>3, 18 + 1 = 19
<1>20. Power(20, g) = {1, 2, 5}
  BY <1>2, <1>19, <1>3, 19 + 1 = 20
<1>21. Power(21, g) = {2, 3, 6}
  BY <1>2, <1>20, <1>3, 20 + 1 = 21
<1>22. Power(22, g) = {3, 4, 7}
  BY <1>2, <1>21, <1>3, 21 + 1 = 22
<1>23. Power(23, g) = {4, 5, 8}
  BY <1>2, <1>22, <1>3, 22 + 1 = 23
<1>24. Power(24, g) = {5, 6, 9}
  BY <1>2, <1>23, <1>3, 23 + 1 = 24
<1>25. Power(25, g) = {0, 1, 4, 5, 6, 7, 9}
  BY <1>2, <1>24, <1>3, 24 + 1 = 25
<1>26. Power(26, g) = {0, 2, 4, 6, 7, 8, 9}
  BY <1>2, <1>25, <1>3, 25 + 1 = 26
<1>27. Power(27, g) = {0, 3, 4, 7, 8}
  BY <1>2, <1>26, <1>3, 26 + 1 = 27
<1>28. Power(28, g) = {1, 4, 5, 8, 9}
  BY <1>2, <1>27, <1>3, 27 + 1 = 28
<1>29. Power(29, g) = {0, 1, 2, 4, 6}
  BY <1>2, <1>28, <1>3, 28 + 1 = 29
<1> QED
  BY <1>10, <1>11, <1>12, <1>13, <1>14, <1>15, <1>16, <1>17, <1>18, <1>19, <1>20, <1>21,
     <1>22, <1>23, <1>24, <1>25, <1>26, <1>27, <1>28, <1>29

\* ... of crc16,
LEMMA Crc16Powers ==
    ASSUME NEW g, g = crc_generator("crc16")
    PROVE  /\ Power(16, g) = {0, 2, 15}
           /\ Power(17, g) = {0, 1, 2, 3, 15}
           /\ Power(18, g) = {0, 1, 3, 4, 15}
           /\ Power(19, g) = {0, 1, 4, 5, 15}
           /\ Power(20, g) = {0, 1, 5, 6, 15}
           /\ Power(21, g) = {0, 1, 6, 7, 15}
           /\ Power(22, g) = {0, 1, 7, 8, 15}
           /\ Power(23, g) = {0, 1, 8, 9, 15}
           /\ Power(24, g) = {0, 1, 9, 10, 15}
           /\ Power(25, g) = {0, 1, 10, 11, 15}
           /\ Power(26, g) = {0, 1, 11, 12, 15}
           /\ Power(27, g) = {0, 1, 12, 13, 15}
           /\ Power(28, g) = {0, 1, 13, 14, 15}
           /\ Power(29, g) = {0, 1, 14}
           /\ Power(30, g) = {1, 2, 15}
           /\ Power(31, g) = {0, 3, 15}
           /\ Power(32, g) = {0, 1, 2, 4, 15}
<1>1. g = [poly |-> {0, 2, 15}, degree |-> 16]
  BY DEF crc_generator
<1>2. g.degree = 16 /\ g.degree - 1 = 15 /\ g.poly = {0, 2, 15}
  BY <1>1
<1>4. Generator(g)
  BY Generators DEF CrcScheme
<1>3. ASSUME NEW e \in Nat
      PROVE  \A r : r \in Power(e + 1, g) <=>
                      /\ r \in 0 .. 15
                      /\ ~ (r - 1 \in Power(e, g) <=> 15 \in Power(e, g) /\ r \in g.poly)
  <2> DEFINE top == 15
  <2>1. top = g.degree - 1
    BY <1>2
  <2> HIDE DEF top
  <2>2. \A r : r \in Power(e + 1, g) <=>
                 /\ r \in 0 .. top
                 /\ ~ (r - 1 \in Power(e, g) <=> top \in Power(e, g) /\ r \in g.poly)
    BY <1>4, <2>1, PowerNext
  <2> QED
    BY <2>2 DEF top
<1>16. Power(16, g) = {0, 2, 15}
  BY <1>2, <1>4, PowerLow
<1>17. Power(17, g) = {0, 1, 2, 3, 15}
  BY <1>2, <1>16, <1>3, 16 + 1 = 17
<1>18. Power(18, g) = {0, 1, 3, 4, 15}
  BY <1>2, <1>17, <1>3, 17 + 1 = 18
<1>19. Power(19, g) = {0, 1, 4, 5, 15}
  BY <1>2, <1>18, <1>3, 18 + 1 = 19
<1>20. Power(20, g) = {0, 1, 5, 6, 15}
  BY <1>2, <1>19, <1>3, 19 + 1 = 20
<1>21. Power(21, g) = {0, 1, 6, 7, 15}
  BY <1>2, <1>20, <1>3, 20 + 1 = 21
<1>22. Power(22, g) = {0, 1, 7, 8, 15}
  BY <1>2, <1>21, <1>3, 21 + 1 = 22
<1>23. Power(23, g) = {0, 1, 8, 9, 15}
  BY <1>2, <1>22, <1>3, 22 + 1 = 23
<1>24. Power(24, g) = {0, 1, 9, 10, 15}
  BY <1>2, <1>23, <1>3, 23 + 1 = 24
<1>25. Power(25, g) = {0, 1, 10, 11, 15}
  BY <1>2, <1>24, <1>3, 24 + 1 = 25
<1>26. Power(26, g) = {0, 1, 11, 12, 15}
  BY <1>2, <1>25, <1>3, 25 + 1 = 26
<1>27. Power(27, g) = {0, 1, 12, 13, 15}
  BY <1>2, <1>26, <1>3, 26 + 1 = 27
<1>28. Power(28, g) = {0, 1, 13, 14, 15}
  BY <1>2, <1>27, <1>3, 27 + 1 = 28
<1>29. Power(29, g) = {0, 1, 14}
  BY <1>2, <1>28, <1>3, 28 + 1 = 29
<1>30. Power(30, g) = {1, 2, 15}
  BY <1>2, <1>29, <1>3, 29 + 1 = 30
<1>31. Power(31, g) = {0, 3, 15}
  BY <1>2, <1>30, <1>3, 30 + 1 = 31
<1>32. Power(32, g) = {0, 1, 2, 4, 15}
  BY <1>2, <1>31, <1>3, 31 + 1 = 32
<1> QED
  BY <1>16, <1>17, <1>18, <1>19, <1>20, <1>21, <1>22, <1>23, <1>24, <1>25, <1>26, <1>27,
     <1>28, <1>29, <1>30, <1>31, <1>32

\* ... and of crc32.
LEMMA Crc32Powers ==
    ASSUME NEW g, g = crc_generator("crc32")
    PROVE  /\ Power(32, g) = {0, 1, 2, 4, 5, 7, 8, 10, 11, 12, 16, 22, 23, 26}
           /\ Power(33, g) = {1, 2, 3, 5, 6, 8, 9, 11, 12, 13, 17, 23, 24, 27}
           /\ Power(34, g) = {2, 3, 4, 6, 7, 9, 10, 12, 13, 14, 18, 24, 25, 28}
           /\ Power(35, g) = {3, 4, 5, 7, 8, 10, 11, 13, 14, 15, 19, 25, 26, 29}
           /\ Power(36, g) = {4, 5, 6, 8, 9, 11, 12, 14, 15, 16, 20, 26, 27, 30}
           /\ Power(37, g) = {5, 6, 7, 9, 10, 12, 13, 15, 16, 17, 21, 27, 28, 31}
           /\ Power(38, g) = {0, 1, 2, 4, 5, 6, 12, 13, 14, 17, 18, 23, 26, 28, 29}
           /\ Power(39, g) = {1, 2, 3, 5, 6, 7, 13, 14, 15, 18, 19, 24, 27, 29, 30}
           /\ Power(40, g) = {2, 3, 4, 6, 7, 8, 14, 15, 16, 19, 20, 25, 28, 30, 31}
           /\ Power(41, g) = {0, 1, 2, 3, 9, 10, 11, 12, 15, 17, 20, 21, 22, 23, 29, 31}
           /\ Power(42, g) = {0, 3, 5, 7, 8, 13, 18, 21, 24, 26, 30}
           /\ Power(43, g) = {1, 4, 6, 8, 9, 14, 19, 22, 25, 27, 31}
           /\ Power(44, g) = {0, 1, 4, 8, 9, 11, 12, 15, 16, 20, 22, 28}
           /\ Power(45, g) = {1, 2, 5, 9, 10, 12, 13, 16, 17, 21, 23, 29}
           /\ Power(46, g) = {2, 3, 6, 10, 11, 13, 14, 17, 18, 22, 24, 30}
           /\ Power(47, g) = {3, 4, 7, 11, 12, 14, 15, 18, 19, 23, 25, 31}
           /\ Power(48, g) = {0, 1, 2, 7, 10, 11, 13, 15, 19, 20, 22, 23, 24}
           /\ Power(49, g) = {1, 2, 3, 8, 11, 12, 14, 16, 20, 21, 23, 24, 25}
           /\ Power(50, g) = {2, 3, 4, 9, 12, 13, 15, 17, 21, 22, 24, 25, 26}
           /\ Power(51, g) = {3, 4, 5, 10, 13, 14, 16, 18, 22, 23, 25, 26, 27}
           /\ Power(52, g) = {4, 5, 6, 11, 14, 15, 17, 19, 23, 24, 26, 27, 28}
           /\ Power(53, g) = {5, 6, 7, 12, 15, 16, 18, 20, 24, 25, 27, 28, 29}
           /\ Power(54, g) = {6, 7, 8, 13, 16, 17, 19, 21, 25, 26, 28, 29, 30}
           /\ Power(55, g) = {7, 8, 9, 14, 17, 18, 20, 22, 26, 27, 29, 30, 31}
           /\ Power(56, g) = {0, 1, 2, 4, 5, 7, 9, 11, 12, 15, 16, 18, 19, 21, 22, 26, 27, 28, 30, 31}
           /\ Power(57, g) = {0, 3, 4, 6, 7, 11, 13, 17, 19, 20, 26, 27, 28, 29, 31}
           /\ Power(58, g) = {0, 2, 10, 11, 14, 16, 18, 20, 21, 22, 23, 26, 27, 28, 29, 30}
           /\ Power(59, g) = {1, 3, 11, 12, 15, 17, 19, 21, 22, 23, 24, 27, 28, 29, 30, 31}
           /\ Power(60, g) = {0, 1, 5, 7, 8, 10, 11, 13, 18, 20, 24, 25, 26, 28, 29, 30, 31}
           /\ Power(61, g) = {0, 4, 5, 6, 7, 9, 10, 14, 16, 19, 21, 22, 23, 25, 27, 29, 30, 31}
           /\ Power(62, g) = {0, 2, 4, 6, 12, 15, 16, 17, 20, 24, 28, 30, 31}
           /\ Power(63, g) = {0, 2, 3, 4, 8, 10, 11, 12, 13, 17, 18, 21, 22, 23, 25, 26, 29, 31}
           /\ Power(64, g) = {0, 2, 3, 7, 8, 9, 10, 13, 14, 16, 18, 19, 24, 27, 30}
<1>1. g = [poly |-> {0, 1, 2, 4, 5, 7, 8, 10, 11, 12, 16, 22, 23, 26}, degree |-> 32]
  BY DEF crc_generator
<1>2. /\ g.degree = 32 /\ g.degree - 1 = 31
      /\ g.poly = {0, 1, 2, 4, 5, 7, 8, 10, 11, 12, 16, 22, 23, 26}
  BY <1>1
<1>4. Generator(g)
  BY Generators DEF CrcScheme
<1>3. ASSUME NEW e \in Nat
      PROVE  \A r : r \in Power(e + 1, g) <=>
                      /\ r \in 0 .. 31
                      /\ ~ (r - 1 \in Power(e, g) <=> 31 \in Power(e, g) /\ r \in g.poly)
  <2> DEFINE top == 31
  <2>1. top = g.degree - 1
    BY <1>2
  <2> HIDE DEF top
  <2>2. \A r : r \in Power(e + 1, g) <=>
                 /\ r \in 0 .. top
                 /\ ~ (r - 1 \in Power(e, g) <=> top \in Power(e, g) /\ r \in g.poly)
    BY <1>4, <2>1, PowerNext
  <2> QED
    BY <2>2 DEF top
<1>32. Power(32, g) = {0, 1, 2, 4, 5, 7, 8, 10, 11, 12, 16, 22, 23, 26}
  BY <1>2, <1>4, PowerLow
<1>33. Power(33, g) = {1, 2, 3, 5, 6, 8, 9, 11, 12, 13, 17, 23, 24, 27}
  BY <1>2, <1>32, <1>3, 32 + 1 = 33
<1>34. Power(34, g) = {2, 3, 4, 6, 7, 9, 10, 12, 13, 14, 18, 24, 25, 28}
  BY <1>2, <1>33, <1>3, 33 + 1 = 34
<1>35. Power(35, g) = {3, 4, 5, 7, 8, 10, 11, 13, 14, 15, 19, 25, 26, 29}
  BY <1>2, <1>34, <1>3, 34 + 1 = 35
<1>36. Power(36, g) = {4, 5, 6, 8, 9, 11, 12, 14, 15, 16, 20, 26, 27, 30}
  BY <1>2, <1>35, <1>3, 35 + 1 = 36
<1>37. Power(37, g) = {5, 6, 7, 9, 10, 12, 13, 15, 16, 17, 21, 27, 28, 31}
  BY <1>2, <1>36, <1>3, 36 + 1 = 37
<1>38. Power(38, g) = {0, 1, 2, 4, 5, 6, 12, 13, 14, 17, 18, 23, 26, 28, 29}
  BY <1>2, <1>37, <1>3, 37 + 1 = 38
<1>39. Power(39, g) = {1, 2, 3, 5, 6, 7, 13, 14, 15, 18, 19, 24, 27, 29, 30}
  BY <1>2, <1>38, <1>3, 38 + 1 = 39
<1>40. Power(40, g) = {2, 3, 4, 6, 7, 8, 14, 15, 16, 19, 20, 25, 28, 30, 31}
  BY <1>2, <1>39, <1>3, 39 + 1 = 40
<1>41. Power(41, g) = {0, 1, 2, 3, 9, 10, 11, 12, 15, 17, 20, 21, 22, 23, 29, 31}
  BY <1>2, <1>40, <1>3, 40 + 1 = 41
<1>42. Power(42, g) = {0, 3, 5, 7, 8, 13, 18, 21, 24, 26, 30}
  BY <1>2, <1>41, <1>3, 41 + 1 = 42
<1>43. Power(43, g) = {1, 4, 6, 8, 9, 14, 19, 22, 25, 27, 31}
  BY <1>2, <1>42, <1>3, 42 + 1 = 43
<1>44. Power(44, g) = {0, 1, 4, 8, 9, 11, 12, 15, 16, 20, 22, 28}
  BY <1>2, <1>43, <1>3, 43 + 1 = 44
<1>45. Power(45, g) = {1, 2, 5, 9, 10, 12, 13, 16, 17, 21, 23, 29}
  BY <1>2, <1>44, <1>3, 44 + 1 = 45
<1>46. Power(46, g) = {2, 3, 6, 10, 11, 13, 14, 17, 18, 22, 24, 30}
  BY <1>2, <1>45, <1>3, 45 + 1 = 46
<1>47. Power(47, g) = {3, 4, 7, 11, 12, 14, 15, 18, 19, 23, 25, 31}
  BY <1>2, <1>46, <1>3, 46 + 1 = 47
<1>48. Power(48, g) = {0, 1, 2, 7, 10, 11, 13, 15, 19, 20, 22, 23, 24}
  BY <1>2, <1>47, <1>3, 47 + 1 = 48
<1>49. Power(49, g) = {1, 2, 3, 8, 11, 12, 14, 16, 20, 21, 23, 24, 25}
  BY <1>2, <1>48, <1>3, 48 + 1 = 49
<1>50. Power(50, g) = {2, 3, 4, 9, 12, 13, 15, 17, 21, 22, 24, 25, 26}
  BY <1>2, <1>49, <1>3, 49 + 1 = 50
<1>51. Power(51, g) = {3, 4, 5, 10, 13, 14, 16, 18, 22, 23, 25, 26, 27}
  BY <1>2, <1>50, <1>3, 50 + 1 = 51
<1>52. Power(52, g) = {4, 5, 6, 11, 14, 15, 17, 19, 23, 24, 26, 27, 28}
  BY <1>2, <1>51, <1>3, 51 + 1 = 52
<1>53. Power(53, g) = {5, 6, 7, 12, 15, 16, 18, 20, 24, 25, 27, 28, 29}
  BY <1>2, <1>52, <1>3, 52 + 1 = 53
<1>54. Power(54, g) = {6, 7, 8, 13, 16, 17, 19, 21, 25, 26, 28, 29, 30}
  BY <1>2, <1>53, <1>3, 53 + 1 = 54
<1>55. Power(55, g) = {7, 8, 9, 14, 17, 18, 20, 22, 26, 27, 29, 30, 31}
  BY <1>2, <1>54, <1>3, 54 + 1 = 55
<1>56. Power(56, g) = {0, 1, 2, 4, 5, 7, 9, 11, 12, 15, 16, 18, 19, 21, 22, 26, 27, 28, 30, 31}
  BY <1>2, <1>55, <1>3, 55 + 1 = 56
<1>57. Power(57, g) = {0, 3, 4, 6, 7, 11, 13, 17, 19, 20, 26, 27, 28, 29, 31}
  BY <1>2, <1>56, <1>3, 56 + 1 = 57
<1>58. Power(58, g) = {0, 2, 10, 11, 14, 16, 18, 20, 21, 22, 23, 26, 27, 28, 29, 30}
  BY <1>2, <1>57, <1>3, 57 + 1 = 58
<1>59. Power(59, g) = {1, 3, 11, 12, 15, 17, 19, 21, 22, 23, 24, 27, 28, 29, 30, 31}
  BY <1>2, <1>58, <1>3, 58 + 1 = 59
<1>60. Power(60, g) = {0, 1, 5, 7, 8, 10, 11, 13, 18, 20, 24, 25, 26, 28, 29, 30, 31}
  BY <1>2, <1>59, <1>3, 59 + 1 = 60
<1>61. Power(61, g) = {0, 4, 5, 6, 7, 9, 10, 14, 16, 19, 21, 22, 23, 25, 27, 29, 30, 31}
  BY <1>2, <1>60, <1>3, 60 + 1 = 61
<1>62. Power(62, g) = {0, 2, 4, 6, 12, 15, 16, 17, 20, 24, 28, 30, 31}
  BY <1>2, <1>61, <1>3, 61 + 1 = 62
<1>63. Power(63, g) = {0, 2, 3, 4, 8, 10, 11, 12, 13, 17, 18, 21, 22, 23, 25, 26, 29, 31}
  BY <1>2, <1>62, <1>3, 62 + 1 = 63
<1>64. Power(64, g) = {0, 2, 3, 7, 8, 9, 10, 13, 14, 16, 18, 19, 24, 27, 30}
  BY <1>2, <1>63, <1>3, 63 + 1 = 64
<1> QED
  BY <1>32, <1>33, <1>34, <1>35, <1>36, <1>37, <1>38, <1>39, <1>40, <1>41, <1>42, <1>43,
     <1>44, <1>45, <1>46, <1>47, <1>48, <1>49, <1>50, <1>51, <1>52, <1>53, <1>54, <1>55,
     <1>56, <1>57, <1>58, <1>59, <1>60, <1>61, <1>62, <1>63, <1>64

\* Whether an odd number of the six powers are in S.
Differ(a, b) == ~ (a <=> b)
OddlyMany(S, o, m, t) ==
    Differ(Differ(0 \in S, t \in S),
           Differ(Differ(8 \in S, 8 * m \in S), Differ(8 * m + o \in S, 8 * m + 8 \in S)))

\* It is enough to know which powers have a certain bit in their residue.
LEMMA BurstSeen ==
    ASSUME NEW g, Generator(g), NEW o \in 0 .. 7, NEW m \in 1 .. 4, NEW t \in 1 .. 8,
           NEW r, NEW S, NEW most, 8 * m + 8 <= most, most \in Nat,
           \A e \in 0 .. most : r \in Power(e, g) <=> e \in S,
           OddlyMany(S, o, m, t)
    PROVE  Residue(BurstPowers(o, m, t), g) # {}
<1>1. /\ 0 \in 0 .. most /\ t \in 0 .. most /\ 8 \in 0 .. most /\ 8 * m \in 0 .. most
      /\ 8 * m + o \in 0 .. most /\ 8 * m + 8 \in 0 .. most
  OBVIOUS
<1> DEFINE u == 8 * m + o
           v == 8 * m + 8
           w == 8 * m
           A == SymDiff(Power(0, g), Power(t, g))
           B == SymDiff(Power(8, g), Power(w, g))
           C == SymDiff(Power(u, g), Power(v, g))
<1> HIDE DEF u, v, w
<1>2. /\ r \in A <=> Differ(0 \in S, t \in S)
      /\ r \in B <=> Differ(8 \in S, w \in S)
      /\ r \in C <=> Differ(u \in S, v \in S)
  BY <1>1, XorBits DEF Differ, u, v, w
<1>3. Differ(Differ(0 \in S, t \in S),
             Differ(Differ(8 \in S, w \in S), Differ(u \in S, v \in S)))
  BY DEF OddlyMany, u, v, w
<1> HIDE DEF A, B, C
<1>4. ~ (r \in A <=> ~ (r \in B <=> r \in C))
  BY <1>2, <1>3 DEF Differ
<1> QED
  BY <1>4, BurstResidue DEF A, B, C, u, v, w

\* Bits 0, 3 and 4: wherever a burst begins, one of them is left by crc8.
LEMMA Crc8Bursts ==
    ASSUME NEW g, g = crc_generator("crc8"),
           NEW o \in 0 .. 7, NEW m \in 1 .. 4, NEW t \in 1 .. 8,
           8 * m + t - o \in {g.degree, g.degree + 1}
    PROVE  Residue(BurstPowers(o, m, t), g) # {}
<1> DEFINE most == 16
           has0 == {0, 8, 9, 11, 14, 15, 16}
           has3 == {3, 9, 10, 11, 14, 15, 16}
           has4 == {4, 8, 9, 10, 12, 14}
<1>1. g.degree = 8
  BY DEF crc_generator
<1>2. Generator(g)
  BY Generators DEF CrcScheme
<1>3. \A e \in 0 .. 7 : Power(e, g) = {e}
  BY <1>1, <1>2, PowerLow
<1>4. 8 * m + t - o \in {8, 9} /\ 8 * m + 8 <= most /\ most \in Nat
  BY <1>1
<1>5. \A e \in 0 .. most : 0 \in Power(e, g) <=> e \in has0
  BY <1>3, Crc8Powers
<1>6. \A e \in 0 .. most : 3 \in Power(e, g) <=> e \in has3
  BY <1>3, Crc8Powers
<1>7. \A e \in 0 .. most : 4 \in Power(e, g) <=> e \in has4
  BY <1>3, Crc8Powers
<1>8. OddlyMany(has0, o, m, t) \/ OddlyMany(has3, o, m, t) \/ OddlyMany(has4, o, m, t)
  BY <1>4 DEF OddlyMany, Differ
<1> HIDE DEF most, has0, has3, has4
<1> QED
  BY <1>2, <1>4, <1>5, <1>6, <1>7, <1>8, BurstSeen

\* Bits 7 and 9 for crc10.
LEMMA Crc10Bursts ==
    ASSUME NEW g, g = crc_generator("crc10"),
           NEW o \in 0 .. 7, NEW m \in 1 .. 4, NEW t \in 1 .. 8,
           8 * m + t - o \in {g.degree, g.degree + 1}
    PROVE  Residue(BurstPowers(o, m, t), g) # {}
<1> DEFINE most == 24
           has7 == {7, 12, 16, 17, 22}
           has9 == {9, 10, 11, 12, 13, 18, 24}
<1>1. g.degree = 10
  BY DEF crc_generator
<1>2. Generator(g)
  BY Generators DEF CrcScheme
<1>3. \A e \in 0 .. 9 : Power(e, g) = {e}
  BY <1>1, <1>2, PowerLow
<1>4. 8 * m + t - o \in {10, 11} /\ 8 * m + 8 <= most /\ most \in Nat
  BY <1>1
<1>5. \A e \in 0 .. most : 7 \in Power(e, g) <=> e \in has7
  BY <1>3, Crc10Powers
<1>6. \A e \in 0 .. most : 9 \in Power(e, g) <=> e \in has9
  BY <1>3, Crc10Powers
<1>7. OddlyMany(has7, o, m, t) \/ OddlyMany(has9, o, m, t)
  BY <1>4 DEF OddlyMany, Differ
<1> HIDE DEF most, has7, has9
<1> QED
  BY <1>2, <1>4, <1>5, <1>6, <1>7, BurstSeen

\* The top bit for crc16: all powers from 15 to 24 have it.
LEMMA Crc16Bursts ==
    ASSUME NEW g, g = crc_generator("crc16"),
           NEW o \in 0 .. 7, NEW m \in 1 .. 4, NEW t \in 1 .. 8,
           8 * m + t - o \in {g.degree, g.degree + 1}
    PROVE  Residue(BurstPowers(o, m, t), g) # {}
<1> DEFINE most == 24
           has15 == {15, 16, 17, 18, 19, 20, 21, 22, 23, 24}
<1>1. g.degree = 16
  BY DEF crc_generator
<1>2. Generator(g)
  BY Generators DEF CrcScheme
<1>3. \A e \in 0 .. 15 : Power(e, g) = {e}
  BY <1>1, <1>2, PowerLow
<1>4. 8 * m + t - o \in {16, 17} /\ 8 * m + 8 <= most /\ most \in Nat
  BY <1>1
<1>5. \A e \in 0 .. most : 15 \in Power(e, g) <=> e \in has15
  BY <1>3, Crc16Powers
<1>6. OddlyMany(has15, o, m, t)
  BY <1>4 DEF OddlyMany, Differ
<1> HIDE DEF most, has15
<1> QED
  BY <1>2, <1>4, <1>5, <1>6, BurstSeen

\* Bits 1 and 22 for crc32.
LEMMA Crc32Bursts ==
    ASSUME NEW g, g = crc_generator("crc32"),
           NEW o \in 0 .. 7, NEW m \in 1 .. 4, NEW t \in 1 .. 8,
           8 * m + t - o \in {g.degree, g.degree + 1}
    PROVE  Residue(BurstPowers(o, m, t), g) # {}
<1> DEFINE most == 40
           has1 == {1, 32, 33, 38, 39}
           has22 == {22, 32}
<1>1. g.degree = 32
  BY DEF crc_generator
<1>2. Generator(g)
  BY Generators DEF CrcScheme
<1>3. \A e \in 0 .. 31 : Power(e, g) = {e}
  BY <1>1, <1>2, PowerLow
<1>4. 8 * m + t - o \in {32, 33} /\ 8 * m + 8 <= most /\ most \in Nat
  BY <1>1
<1>5. \A e \in 0 .. most : 1 \in Power(e, g) <=> e \in has1
  BY <1>3, Crc32Powers
<1>6. \A e \in 0 .. most : 22 \in Power(e, g) <=> e \in has22
  BY <1>3, Crc32Powers
<1>7. OddlyMany(has1, o, m, t) \/ OddlyMany(has22, o, m, t)
  BY <1>4 DEF OddlyMany, Differ
<1> HIDE DEF most, has1, has22
<1> QED
  BY <1>2, <1>4, <1>5, <1>6, <1>7, BurstSeen

\* No burst as long as the degree, or one bit longer, is a multiple of the generator,
\* wherever in the region it begins.
THEOREM BurstLeavesRest ==
    ASSUME NEW s \in CrcScheme,
           NEW error \in Bursts(crc_generator(s).degree)
                           \cup Bursts(crc_generator(s).degree + 1)
    PROVE  Remainder(Polynomial(error), crc_generator(s)) # {}
<1> DEFINE N == REGION_LEN
           g == crc_generator(s)
           d == g.degree
<1>1. Generator(g) /\ d \in 8 .. 32 /\ N \in Nat
  BY Generators, Sizes DEF Generator
<1>2. PICK length \in {d, d + 1} : error \in Bursts(length)
  OBVIOUS
<1> HIDE DEF g
<1>3. length \in 8 .. 33
  BY <1>1
<1>4. PICK i \in 0 .. 8 * N - length : error = i .. i + length - 1
  BY <1>2 DEF Bursts
<1> DEFINE q == i \div 8
           o == i % 8
<1>5. i \in Nat /\ i + length <= 8 * N
  BY <1>1, <1>3
<1>6. q \in Nat /\ o \in 0 .. 7 /\ i = 8 * q + o
  BY <1>5, BitPlace
<1> HIDE DEF q, o
<1> DEFINE end == o + length - 1
           m == end \div 8
           t == (end % 8) + 1
<1>7. end \in Nat /\ end >= 7 /\ end <= 39
  BY <1>3, <1>6
<1>8. m \in Nat /\ end % 8 \in 0 .. 7 /\ end = 8 * m + (end % 8)
  BY <1>7, BitPlace
<1> HIDE DEF m
<1>9. t \in 1 .. 8 /\ end = 8 * m + t - 1
  BY <1>8
<1> HIDE DEF t
<1>10. m \in 0 .. 4 /\ 8 * m + t - o = length
  BY <1>3, <1>6, <1>7, <1>8, <1>9
<1>11. error = 8 * q + o .. 8 * q + 8 * m + t - 1 /\ 8 * q + 8 * m + t <= 8 * N
  <2>1. i + length - 1 = 8 * q + 8 * m + t - 1
    BY <1>3, <1>6, <1>8, <1>9, <1>10
  <2>2. 8 * q + 8 * m + t <= 8 * N
    BY <1>1, <1>3, <1>5, <1>6, <1>8, <1>9, <1>10
  <2> QED
    BY <1>4, <1>6, <2>1, <2>2
<1> HIDE DEF N
<1>12. error \subseteq BitOfFrame
  <2>1. ASSUME NEW j \in error PROVE j \in Nat /\ j < 8 * N
    <3>1. j \in i .. i + length - 1
      BY <1>4
    <3> QED
      BY <1>1, <1>3, <1>5, <3>1
  <2> QED
    BY <1>1, <2>1, Sizes DEF BitOfFrame, N
<1>13. Residue(Powers(error), g) # {}
  <2>1. CASE m = 0
    <3>1. o = 0 /\ length = 8 /\ t = 8
      BY <1>3, <1>6, <1>7, <1>9, <1>10, <2>1
    <3>2. error = 8 * q .. 8 * q + 7
      BY <1>6, <1>11, <2>1, <3>1
    <3> DEFINE base == 8 * (N - 1 - q)
    <3>3. base \in Nat
      BY <1>1, <1>6, <1>11, <2>1, <3>1
    <3>4. Powers(error) = Shift(0 .. 7, base)
      <4> DEFINE pow(j) == 8 * (N - 1 - (j \div 8)) + (j % 8)
                 P == Powers(error)
                 Q == Shift(0 .. 7, base)
      <4>1. P = {pow(j) : j \in {k \in error : k < 8 * N}}
        BY DEF Powers, N
      <4>2. Q = {b + base : b \in 0 .. 7}
        BY DEF Shift
      <4>3. ASSUME NEW b \in 0 .. 7
            PROVE  8 * q + b \in error /\ 8 * q + b < 8 * N /\ pow(8 * q + b) = b + base
        <5>1. (8 * q + b) \div 8 = q /\ (8 * q + b) % 8 = b
          BY <1>6, BitPlace
        <5>2. 8 * q + b \in error /\ 8 * q + b < 8 * N
          BY <1>1, <1>6, <1>11, <2>1, <3>1, <3>2
        <5>3. 8 * (N - 1 - q) + b = b + base
          BY <1>1, <1>6
        <5> QED
          BY <5>1, <5>2, <5>3
      <4>4. \A j \in error : \E b \in 0 .. 7 : j = 8 * q + b
        <5>1. ASSUME NEW j \in error PROVE j - 8 * q \in 0 .. 7 /\ j = 8 * q + (j - 8 * q)
          BY <1>6, <3>2
        <5> QED
          BY <5>1
      <4> HIDE DEF pow, P, Q, base
      <4>5. P = Q
        BY <4>1, <4>2, <4>3, <4>4
      <4> QED
        BY <4>5 DEF P, Q
    <3>5. 0 .. 7 \in SUBSET (0 .. g.degree - 1) /\ 0 \in 0 .. 7
      BY <1>1
    <3> DEFINE byte == 0 .. 7
    <3> HIDE DEF base, byte
    <3>6. Residue(byte, g) = byte /\ byte # {}
      BY <1>1, <3>5, ResidueLow DEF byte
    <3>7. IsPolynomial(byte)
      <4>1. byte \in SUBSET (0 .. 7)
        BY DEF byte
      <4> QED
        BY <4>1, BoundedPolynomial
    <3>8. Residue(Shift(byte, base), g) = Times(byte, g, base)
      BY <1>1, <3>3, <3>6, <3>7, ResidueShift
    <3>9. byte \in Register /\ Low(byte, g) = byte
      BY <1>1, <3>6, ResidueType
    <3>10. Times(byte, g, base) # {}
      BY <1>1, <3>3, <3>6, <3>9, TimesLaws
    <3> QED
      BY <3>4, <3>8, <3>10 DEF byte
  <2>2. CASE m # 0
    <3>1. m \in 1 .. 4
      BY <1>10, <2>2
    <3> DEFINE B == BurstPowers(o, m, t)
               base == 8 * (REGION_LEN - 1 - q - m)
    <3>2. base \in Nat /\ Powers(error) = Shift(B, base)
      BY <1>6, <1>9, <1>11, <3>1, PowersOfBurst DEF N
    <3>3. 8 * m + t - o \in {g.degree, g.degree + 1}
      BY <1>10
    <3>4. Residue(B, g) # {}
      <4>1. s = "crc8" \/ s = "crc10" \/ s = "crc16" \/ s = "crc32"
        BY DEF CrcScheme
      <4> QED
        BY <1>6, <1>9, <3>1, <3>3, <4>1, Crc8Bursts, Crc10Bursts, Crc16Bursts, Crc32Bursts
           DEF g
    <3>5. IsPolynomial(B)
      <4>1. B \in SUBSET (0 .. 8 * m + 7) /\ 8 * m + 7 \in Int
        BY <1>6, <1>9, <3>1 DEF BurstPowers
      <4> HIDE DEF B
      <4> QED
        BY <4>1, BoundedPolynomial
    <3> HIDE DEF B, base
    <3>6. Residue(Shift(B, base), g) = Times(Residue(B, g), g, base)
      BY <1>1, <3>2, <3>5, ResidueShift
    <3>7. Residue(B, g) \in Register /\ Low(Residue(B, g), g) = Residue(B, g)
      BY <1>1, ResidueType
    <3>8. Times(Residue(B, g), g, base) # {}
      <4> DEFINE r == Residue(B, g)
      <4> HIDE DEF r
      <4>1. base \in Nat /\ r \in Register /\ Low(r, g) # {}
        BY <3>2, <3>4, <3>7 DEF r
      <4>2. Times(r, g, base) # {}
        BY <1>1, <4>1, TimesLaws
      <4> QED
        BY <4>2 DEF r
    <3> QED
      BY <3>2, <3>6, <3>8
  <2> QED
    BY <2>1, <2>2
<1>14. Residue(ErrorPolynomial(ErrorBytes(error), REGION_LEN), g) # {}
  BY <1>12, <1>13, PowersAre
<1> QED
  BY <1>1, <1>12, <1>14, LowestPower DEF g

-----------------------------------------------------------------------------
(* Squares, and two words under a CRC.                                     *)

\* The square of a polynomial, modulo 2.
Double(p) == {2 * e : e \in p}

\* It is a polynomial.
LEMMA DoubleType == ASSUME NEW p, IsPolynomial(p) PROVE IsPolynomial(Double(p))
<1> DEFINE f == [e \in p |-> 2 * e]
<1>1. f \in Bijection(p, Double(p))
  <2>1. f \in [p -> Double(p)]
    BY DEF Double
  <2>2. \A x, y \in p : f[x] = f[y] => x = y
    BY DEF IsPolynomial
  <2>3. \A z \in Double(p) : \E x \in p : f[x] = z
    BY DEF Double
  <2> HIDE DEF f
  <2> QED
    BY <2>1, <2>2, <2>3 DEF Bijection, Injection, Surjection, IsInjective
<1>2. ExistsBijection(p, Double(p))
  BY <1>1 DEF ExistsBijection
<1>3. Double(p) \subseteq Nat
  BY DEF Double, IsPolynomial
<1> QED
  BY <1>2, <1>3, FS_Bijection DEF IsPolynomial

\* The square of a sum is the sum of the squares, that of a shift is shifted twice as far.
LEMMA DoubleLaws ==
    ASSUME NEW p, NEW q, p \subseteq Nat, q \subseteq Nat, NEW n \in Nat
    PROVE  /\ Double(SymDiff(p, q)) = SymDiff(Double(p), Double(q))
           /\ Double(Shift(p, n)) = Shift(Double(p), 2 * n)
<1>1. \A z, e : e \in Nat /\ z = 2 * e => (z \in Double(p) <=> e \in p)
  BY DEF Double
<1>2. \A z, e : e \in Nat /\ z = 2 * e => (z \in Double(q) <=> e \in q)
  BY DEF Double
<1>3. SymDiff(p, q) \subseteq Nat
  BY DEF SymDiff
<1>4. \A z, e : e \in Nat /\ z = 2 * e => (z \in Double(SymDiff(p, q)) <=> e \in SymDiff(p, q))
  BY <1>3 DEF Double
<1>5. \A z : z \in Double(SymDiff(p, q)) <=> z \in SymDiff(Double(p), Double(q))
  <2>1. ASSUME NEW z, ~ (\E e \in Nat : z = 2 * e)
        PROVE  z \notin Double(SymDiff(p, q)) /\ z \notin Double(p) /\ z \notin Double(q)
    BY <1>3, <2>1 DEF Double
  <2>2. ASSUME NEW e \in Nat, NEW z, z = 2 * e
        PROVE  z \in Double(SymDiff(p, q)) <=> z \in SymDiff(Double(p), Double(q))
    <3>1. e \in SymDiff(p, q) <=> ~ (e \in p <=> e \in q)
      BY XorBits
    <3>2. z \in SymDiff(Double(p), Double(q)) <=> ~ (z \in Double(p) <=> z \in Double(q))
      BY XorBits
    <3> QED
      BY <2>2, <3>1, <3>2, <1>1, <1>2, <1>4
  <2>3. \A z : z \in SymDiff(Double(p), Double(q)) => z \in Double(p) \/ z \in Double(q)
    BY DEF SymDiff
  <2> QED
    BY <2>1, <2>2, <2>3
<1>6. Double(SymDiff(p, q)) = SymDiff(Double(p), Double(q))
  BY <1>5
<1>7. Double(Shift(p, n)) = Shift(Double(p), 2 * n)
  <2>1. Double(Shift(p, n)) = {2 * (e + n) : e \in p}
    BY DEF Double, Shift
  <2>2. Shift(Double(p), 2 * n) = {2 * e + 2 * n : e \in p}
    BY DEF Double, Shift
  <2>3. \A e \in p : 2 * (e + n) = 2 * e + 2 * n
    OBVIOUS
  <2> QED
    BY <2>1, <2>2, <2>3
<1> QED
  BY <1>6, <1>7

\* The next power is the last one shifted, less the generator if it reaches the degree.
LEMMA PowerUp ==
    ASSUME NEW g, Generator(g), NEW e \in Nat
    PROVE  Power(e + 1, g) =
             SymDiff(Shift(Power(e, g), 1),
                     IF g.degree - 1 \in Power(e, g) THEN Divisor(g) ELSE {})
<1> DEFINE top == g.degree - 1
           p == Power(e, g)
           q == Power(e + 1, g)
           D == IF top \in p THEN Divisor(g) ELSE {}
<1>1. top \in Nat /\ g.degree = top + 1 /\ g.poly \subseteq 0 .. top
  BY DEF Generator, Register
<1>2. p \subseteq 0 .. top
  BY PowerType
<1>3. \A r : r \in q <=> r \in 0 .. top /\ ~ (r - 1 \in p <=> top \in p /\ r \in g.poly)
  BY PowerNext
<1>4. \A r : r \in D <=> top \in p /\ (r \in g.poly \/ r = top + 1)
  BY <1>1 DEF Divisor
<1> HIDE DEF p, q, D, top
<1>5. \A r : r \in Shift(p, 1) <=> r \in 1 .. top + 1 /\ r - 1 \in p
  <2>1. \A x \in p : x + 1 \in 1 .. top + 1 /\ (x + 1) - 1 = x
    BY <1>1, <1>2
  <2>2. \A r \in 1 .. top + 1 : (r - 1) + 1 = r
    BY <1>1
  <2> QED
    BY <2>1, <2>2 DEF Shift
<1>6. \A r : r \in SymDiff(Shift(p, 1), D) <=> ~ (r \in Shift(p, 1) <=> r \in D)
  BY XorBits
<1>7. ASSUME NEW r PROVE r \in q <=> r \in SymDiff(Shift(p, 1), D)
  <2>1. CASE r \in 0 .. top
    <3>1. r # top + 1 /\ (r \in 1 .. top + 1 /\ r - 1 \in p <=> r - 1 \in p)
      BY <1>1, <1>2, <2>1
    <3> QED
      BY <2>1, <3>1, <1>3, <1>4, <1>5, <1>6
  <2>2. CASE r = top + 1
    <3>1. r \notin 0 .. top /\ r \in 1 .. top + 1 /\ r - 1 = top
      BY <1>1, <2>2
    <3> QED
      BY <2>2, <3>1, <1>3, <1>4, <1>5, <1>6
  <2>3. CASE r \notin 0 .. top + 1
    <3>1. r \notin 0 .. top /\ r \notin 1 .. top + 1 /\ r # top + 1
      BY <1>1, <2>3
    <3> QED
      BY <3>1, <1>1, <1>3, <1>4, <1>5, <1>6
  <2> QED
    BY <1>1, <2>1, <2>2, <2>3
<1>8. q = SymDiff(Shift(p, 1), D)
  BY <1>7
<1> QED
  BY <1>8 DEF p, q, D, top

\* Squares of powers: the residue of the square of x^n modulo the generator is that of
\* x^2n, if the square of the generator vanishes.
LEMMA SquareLaw ==
    ASSUME NEW g, Generator(g), Residue(Double(Divisor(g)), g) = {}, NEW n \in Nat
    PROVE  Residue(Double(Power(n, g)), g) = Power(2 * n, g)
<1> DEFINE S == {k \in 0 .. n : Residue(Double(Power(k, g)), g) = Power(2 * k, g)}
<1>1. 0 \in S
  <2>1. Power(0, g) = {0}
    <3>1. 0 \in 0 .. g.degree - 1
      BY DEF Generator
    <3> QED
      BY <3>1, PowerLow
  <2>2. Double({0}) = {0}
    BY DEF Double
  <2>3. Residue({0}, g) = Power(0, g)
    BY ResidueLow
  <2> QED
    BY <2>1, <2>2, <2>3
<1>2. ASSUME NEW k \in 1 .. n, k - 1 \in S PROVE k \in S
  <2> DEFINE j == k - 1
             p == Power(j, g)
             D == IF g.degree - 1 \in p THEN Divisor(g) ELSE {}
  <2>1. j \in Nat /\ j + 1 = k /\ k \in 0 .. n
    OBVIOUS
  <2>2. Residue(Double(p), g) = Power(2 * j, g)
    BY <1>2
  <2> HIDE DEF j
  <2>3. IsPolynomial(p)
    <3>1. p \subseteq 0 .. g.degree - 1
      BY <2>1, PowerType
    <3>2. g.degree - 1 \in Int
      BY DEF Generator
    <3> HIDE DEF p
    <3> QED
      BY <3>1, <3>2, BoundedPolynomial
  <2>4. IsPolynomial(D) /\ Residue(Double(D), g) = {}
    <3>1. CASE g.degree - 1 \in p
      BY <3>1, DivisorVanishes
    <3>2. CASE ~ (g.degree - 1 \in p)
      <4>1. D = {}
        BY <3>2
      <4>2. Double({}) = {} /\ IsPolynomial({})
        BY FS_EmptySet DEF Double, IsPolynomial
      <4>3. Residue({}, g) = {}
        BY ResidueType
      <4> HIDE DEF D
      <4> QED
        BY <4>1, <4>2, <4>3
    <3> QED
      BY <3>1, <3>2
  <2>5. Power(j + 1, g) = SymDiff(Shift(p, 1), D)
    BY <2>1, PowerUp
  <2> HIDE DEF p, D
  <2>6. IsPolynomial(Shift(p, 1))
    BY <2>3, ShiftType
  <2>7. Double(SymDiff(Shift(p, 1), D)) = SymDiff(Double(Shift(p, 1)), Double(D))
    BY <2>4, <2>6, DoubleLaws DEF IsPolynomial
  <2>8. Double(Shift(p, 1)) = Shift(Double(p), 2)
    <3>1. Double(Shift(p, 1)) = Shift(Double(p), 2 * 1)
      BY <2>3, DoubleLaws DEF IsPolynomial
    <3> QED
      BY <3>1
  <2>9. IsPolynomial(Double(p)) /\ IsPolynomial(Shift(Double(p), 2)) /\ IsPolynomial(Double(D))
    BY <2>3, <2>4, DoubleType, ShiftType
  <2>10. Residue(SymDiff(Shift(Double(p), 2), Double(D)), g)
           = SymDiff(Residue(Shift(Double(p), 2), g), Residue(Double(D), g))
    BY <2>9, ResidueLinear
  <2>11. Residue(Shift(Double(p), 2), g) = Times(Residue(Double(p), g), g, 2)
    BY <2>9, ResidueShift
  <2>12. Times(Power(2 * j, g), g, 2) = Power(2 * j + 2, g)
    BY <2>1, PowerType
  <2>13. SymDiff(Power(2 * j + 2, g), {}) = Power(2 * j + 2, g)
    BY DEF SymDiff
  <2>14. 2 * j + 2 = 2 * k
    BY <2>1
  <2> QED
    BY <2>1, <2>2, <2>4, <2>5, <2>7, <2>8, <2>10, <2>11, <2>12, <2>13, <2>14
<1>3. n \in S
  <2> HIDE DEF S
  <2>1. \A k \in 1 .. n : k - 1 \in S => k \in S
    BY <1>2
  <2>2. 0 .. n \subseteq S
    BY <1>1, <2>1, InductionUpTo
  <2>3. n \in 0 .. n
    OBVIOUS
  <2> QED
    BY <2>2, <2>3
<1> QED
  BY <1>3

\* One more power.
LEMMA ResidueMore ==
    ASSUME NEW g, Generator(g), NEW p, IsPolynomial(p), NEW e \in Nat, e \notin p
    PROVE  /\ IsPolynomial(p \cup {e})
           /\ \A r : r \in Residue(p \cup {e}, g) <=>
                        ~ (r \in Residue(p, g) <=> r \in Power(e, g))
<1>1. IsPolynomial({e})
  BY FS_Singleton DEF IsPolynomial
<1>2. IsPolynomial(p \cup {e})
  <2>1. IsFiniteSet(p \cup {e})
    BY <1>1, FS_Union DEF IsPolynomial
  <2> QED
    BY <2>1 DEF IsPolynomial
<1>3. p \cup {e} = SymDiff(p, {e})
  BY DEF SymDiff
<1>4. Residue(SymDiff(p, {e}), g) = SymDiff(Residue(p, g), Residue({e}, g))
  BY <1>1, ResidueLinear
<1>5. Residue({e}, g) = Power(e, g)
  BY ResidueLow
<1> QED
  BY <1>2, <1>3, <1>4, <1>5, XorBits

\* One more term under the square.
LEMMA SquareMore ==
    ASSUME NEW g, Generator(g), NEW p \in SUBSET (0 .. g.degree - 1),
           NEW i \in 0 .. g.degree - 1
    PROVE  \A r : r \in Residue(Double({e \in p : e < i + 1}), g)
                   <=> ~ (r \in Residue(Double({e \in p : e < i}), g)
                           <=> i \in p /\ r \in Power(2 * i, g))
<1> DEFINE below == {e \in p : e < i}
           upto == {e \in p : e < i + 1}
<1>1. g.degree \in Int /\ \A e \in p : e \in Int /\ 0 <= e /\ e < g.degree
  BY DEF Generator
<1>2. IsPolynomial(below) /\ IsPolynomial(Double(below))
  <2>1. below \in SUBSET (0 .. g.degree - 1) /\ g.degree - 1 \in Int
    <3>1. \A e \in below : e \in 0 .. g.degree - 1
      BY <1>1
    <3> HIDE DEF below
    <3> QED
      BY <3>1, <1>1
  <2> HIDE DEF below
  <2> QED
    BY <2>1, BoundedPolynomial, DoubleType
<1>3. \A e \in p : e < i + 1 <=> e < i \/ e = i
  BY <1>1
<1>4. CASE i \in p
  <2>1. upto = below \cup {i}
    BY <1>4, <1>3
  <2>2. Double(upto) = Double(below) \cup {2 * i}
    BY <2>1 DEF Double
  <2>3. 2 * i \in Nat /\ 2 * i \notin Double(below)
    BY <1>1 DEF Double
  <2> HIDE DEF below, upto
  <2> QED
    BY <1>2, <1>4, <2>2, <2>3, ResidueMore DEF below, upto
<1>5. CASE i \notin p
  <2>1. upto = below
    BY <1>5, <1>3
  <2> QED
    BY <1>5, <2>1
<1> QED
  BY <1>4, <1>5

\* The lower half squared does not reach the degree.
LEMMA SquareLow ==
    ASSUME NEW g, Generator(g), NEW p \in SUBSET (0 .. g.degree - 1), NEW half \in Nat,
           g.degree = 2 * half
    PROVE  Residue(Double({e \in p : e < half}), g) = Double({e \in p : e < half})
<1>1. Double({e \in p : e < half}) \in SUBSET (0 .. g.degree - 1)
  BY DEF Double
<1> QED
  BY <1>1, ResidueLow

\* The square of each generator is a multiple of it: that of crc8, ...
LEMMA Crc8Square ==
    ASSUME NEW g, g = crc_generator("crc8")
    PROVE  Residue(Double(Divisor(g)), g) = {}
<1>1. /\ g.degree = 8
      /\ Divisor(g) = {0, 2, 4, 6, 7, 8}
  BY DEF crc_generator, Divisor
<1>2. Generator(g)
  BY Generators DEF CrcScheme
<1> DEFINE s0 == {0, 4}
           s1 == s0 \cup {8}
           s2 == s1 \cup {12}
           s3 == s2 \cup {14}
           s4 == s3 \cup {16}
<1>3. IsPolynomial(s0) /\ Residue(s0, g) = s0
  <2>1. s0 \in SUBSET (0 .. g.degree - 1) /\ g.degree - 1 \in Int
    BY <1>1
  <2> HIDE DEF s0
  <2> QED
    BY <1>2, <2>1, BoundedPolynomial, ResidueLow
<1>4. /\ IsPolynomial(s1)
      /\ \A r : r \in Residue(s1, g) <=> ~ (r \in Residue(s0, g) <=> r \in {0, 2, 4, 6, 7})
  <2> DEFINE e == 8
  <2>1. e \notin s0 /\ e \in Nat
    OBVIOUS
  <2>2. s1 = s0 \cup {e}
    OBVIOUS
  <2>3. Power(e, g) = {0, 2, 4, 6, 7}
    BY Crc8Powers
  <2> HIDE DEF e, s0, s1, s2, s3, s4
  <2>4. IsPolynomial(s0)
    BY <1>3
  <2>5. /\ IsPolynomial(s0 \cup {e})
        /\ \A r : r \in Residue(s0 \cup {e}, g) <=>
                     ~ (r \in Residue(s0, g) <=> r \in Power(e, g))
    BY <1>2, <2>1, <2>4, ResidueMore
  <2> QED
    BY <2>2, <2>3, <2>5
<1>5. /\ IsPolynomial(s2)
      /\ \A r : r \in Residue(s2, g) <=> ~ (r \in Residue(s1, g) <=> r \in {1, 4, 6})
  <2> DEFINE e == 12
  <2>1. e \notin s1 /\ e \in Nat
    OBVIOUS
  <2>2. s2 = s1 \cup {e}
    OBVIOUS
  <2>3. Power(e, g) = {1, 4, 6}
    BY Crc8Powers
  <2> HIDE DEF e, s0, s1, s2, s3, s4
  <2>4. IsPolynomial(s1)
    BY <1>4
  <2>5. /\ IsPolynomial(s1 \cup {e})
        /\ \A r : r \in Residue(s1 \cup {e}, g) <=>
                     ~ (r \in Residue(s1, g) <=> r \in Power(e, g))
    BY <1>2, <2>1, <2>4, ResidueMore
  <2> QED
    BY <2>2, <2>3, <2>5
<1>6. /\ IsPolynomial(s3)
      /\ \A r : r \in Residue(s3, g) <=> ~ (r \in Residue(s2, g) <=> r \in {0, 2, 3, 4, 7})
  <2> DEFINE e == 14
  <2>1. e \notin s2 /\ e \in Nat
    OBVIOUS
  <2>2. s3 = s2 \cup {e}
    OBVIOUS
  <2>3. Power(e, g) = {0, 2, 3, 4, 7}
    BY Crc8Powers
  <2> HIDE DEF e, s0, s1, s2, s3, s4
  <2>4. IsPolynomial(s2)
    BY <1>5
  <2>5. /\ IsPolynomial(s2 \cup {e})
        /\ \A r : r \in Residue(s2 \cup {e}, g) <=>
                     ~ (r \in Residue(s2, g) <=> r \in Power(e, g))
    BY <1>2, <2>1, <2>4, ResidueMore
  <2> QED
    BY <2>2, <2>3, <2>5
<1>7. /\ IsPolynomial(s4)
      /\ \A r : r \in Residue(s4, g) <=> ~ (r \in Residue(s3, g) <=> r \in {0, 1, 3})
  <2> DEFINE e == 16
  <2>1. e \notin s3 /\ e \in Nat
    OBVIOUS
  <2>2. s4 = s3 \cup {e}
    OBVIOUS
  <2>3. Power(e, g) = {0, 1, 3}
    BY Crc8Powers
  <2> HIDE DEF e, s0, s1, s2, s3, s4
  <2>4. IsPolynomial(s3)
    BY <1>6
  <2>5. /\ IsPolynomial(s3 \cup {e})
        /\ \A r : r \in Residue(s3 \cup {e}, g) <=>
                     ~ (r \in Residue(s3, g) <=> r \in Power(e, g))
    BY <1>2, <2>1, <2>4, ResidueMore
  <2> QED
    BY <2>2, <2>3, <2>5
<1>8. Double(Divisor(g)) = s4
  BY <1>1 DEF Double
<1>9. \A r : r \notin Residue(s4, g)
  <2> HIDE DEF s1, s2, s3, s4
  <2> QED
    BY <1>3, <1>4, <1>5, <1>6, <1>7
<1> QED
  BY <1>8, <1>9

\* ... whose squares have no root of one but one: the bits of odd number that the upper
\* half of p leaves when it is squared are linearly independent.
LEMMA Crc8Root ==
    ASSUME NEW g, g = crc_generator("crc8"), NEW p \in SUBSET (0 .. g.degree - 1),
           Residue(Double(p), g) = {0}
    PROVE  p = {0}
<1>1. g.degree = 8 /\ \A e \in p : e \in 0 .. 7
  BY DEF crc_generator
<1>2. Generator(g)
  BY Generators DEF CrcScheme
<1> DEFINE Q(i) == Residue(Double({e \in p : e < i}), g)
<1>3. \A r : r \in Q(8) <=> r = 0
  <2>1. \A e \in p : e < 8
    BY <1>1
  <2>2. {e \in p : e < 8} = p
    BY <2>1
  <2> QED
    BY <2>2
<1>4. Q(4) = Double({e \in p : e < 4})
  <2> DEFINE half == 4
  <2>1. half \in Nat /\ g.degree = 2 * half
    BY <1>1
  <2> HIDE DEF half
  <2>2. Residue(Double({e \in p : e < half}), g) = Double({e \in p : e < half})
    BY <1>2, <2>1, SquareLow
  <2> QED
    BY <2>2 DEF half
<1>5. \A r : r \in Q(4) => \E e \in 0 .. 3 : r = 2 * e
  BY <1>1, <1>4 DEF Double
<1>6. ASSUME NEW i \in 0 .. 7
      PROVE  \A r : r \in Q(i + 1) <=> ~ (r \in Q(i) <=> i \in p /\ r \in Power(2 * i, g))
  <2>1. i \in 0 .. g.degree - 1
    BY <1>1
  <2> QED
    BY <1>2, <2>1, SquareMore
<1> HIDE DEF Q
<1>14. \A r : r \in Q(5) <=> ~ (r \in Q(4) <=> 4 \in p /\ r \in {0, 2, 4, 6, 7})
  BY <1>6, Crc8Powers, 4 + 1 = 5, 2 * 4 = 8
<1>15. \A r : r \in Q(6) <=> ~ (r \in Q(5) <=> 5 \in p /\ r \in {1, 2, 3, 4, 5, 6, 7})
  BY <1>6, Crc8Powers, 5 + 1 = 6, 2 * 5 = 10
<1>16. \A r : r \in Q(7) <=> ~ (r \in Q(6) <=> 6 \in p /\ r \in {1, 4, 6})
  BY <1>6, Crc8Powers, 6 + 1 = 7, 2 * 6 = 12
<1>17. \A r : r \in Q(8) <=> ~ (r \in Q(7) <=> 7 \in p /\ r \in {0, 2, 3, 4, 7})
  BY <1>6, Crc8Powers, 7 + 1 = 8, 2 * 7 = 14
<1>18. 4 \notin p /\ 5 \notin p /\ 6 \notin p /\ 7 \notin p
  <2>1. /\ 1 \notin Q(4)
        /\ 3 \notin Q(4)
        /\ 5 \notin Q(4)
        /\ 7 \notin Q(4)
    BY <1>5
  <2> QED
    BY <2>1, <1>3, <1>14, <1>15, <1>16, <1>17
<1>19. \A e \in p : e < 4
  BY <1>1, <1>18
<1>20. {e \in p : e < 4} = p
  BY <1>19
<1>21. Double(p) = {0}
  BY <1>4, <1>20 DEF Q
<1>22. \A e \in p : e = 0
  <2>1. \A e \in p : 2 * e \in Double(p)
    BY DEF Double
  <2> QED
    BY <1>1, <1>21, <2>1
<1>23. p # {}
  BY <1>21 DEF Double
<1> QED
  BY <1>22, <1>23

\* Likewise crc10, ...
LEMMA Crc10Square ==
    ASSUME NEW g, g = crc_generator("crc10")
    PROVE  Residue(Double(Divisor(g)), g) = {}
<1>1. /\ g.degree = 10
      /\ Divisor(g) = {0, 1, 4, 5, 9, 10}
  BY DEF crc_generator, Divisor
<1>2. Generator(g)
  BY Generators DEF CrcScheme
<1> DEFINE s0 == {0, 2, 8}
           s1 == s0 \cup {10}
           s2 == s1 \cup {18}
           s3 == s2 \cup {20}
<1>3. IsPolynomial(s0) /\ Residue(s0, g) = s0
  <2>1. s0 \in SUBSET (0 .. g.degree - 1) /\ g.degree - 1 \in Int
    BY <1>1
  <2> HIDE DEF s0
  <2> QED
    BY <1>2, <2>1, BoundedPolynomial, ResidueLow
<1>4. /\ IsPolynomial(s1)
      /\ \A r : r \in Residue(s1, g) <=> ~ (r \in Residue(s0, g) <=> r \in {0, 1, 4, 5, 9})
  <2> DEFINE e == 10
  <2>1. e \notin s0 /\ e \in Nat
    OBVIOUS
  <2>2. s1 = s0 \cup {e}
    OBVIOUS
  <2>3. Power(e, g) = {0, 1, 4, 5, 9}
    BY Crc10Powers
  <2> HIDE DEF e, s0, s1, s2, s3
  <2>4. IsPolynomial(s0)
    BY <1>3
  <2>5. /\ IsPolynomial(s0 \cup {e})
        /\ \A r : r \in Residue(s0 \cup {e}, g) <=>
                     ~ (r \in Residue(s0, g) <=> r \in Power(e, g))
    BY <1>2, <2>1, <2>4, ResidueMore
  <2> QED
    BY <2>2, <2>3, <2>5
<1>5. /\ IsPolynomial(s2)
      /\ \A r : r \in Residue(s2, g) <=> ~ (r \in Residue(s1, g) <=> r \in {4, 8, 9})
  <2> DEFINE e == 18
  <2>1. e \notin s1 /\ e \in Nat
    OBVIOUS
  <2>2. s2 = s1 \cup {e}
    OBVIOUS
  <2>3. Power(e, g) = {4, 8, 9}
    BY Crc10Powers
  <2> HIDE DEF e, s0, s1, s2, s3
  <2>4. IsPolynomial(s1)
    BY <1>4
  <2>5. /\ IsPolynomial(s1 \cup {e})
        /\ \A r : r \in Residue(s1 \cup {e}, g) <=>
                     ~ (r \in Residue(s1, g) <=> r \in Power(e, g))
    BY <1>2, <2>1, <2>4, ResidueMore
  <2> QED
    BY <2>2, <2>3, <2>5
<1>6. /\ IsPolynomial(s3)
      /\ \A r : r \in Residue(s3, g) <=> ~ (r \in Residue(s2, g) <=> r \in {1, 2, 5})
  <2> DEFINE e == 20
  <2>1. e \notin s2 /\ e \in Nat
    OBVIOUS
  <2>2. s3 = s2 \cup {e}
    OBVIOUS
  <2>3. Power(e, g) = {1, 2, 5}
    BY Crc10Powers
  <2> HIDE DEF e, s0, s1, s2, s3
  <2>4. IsPolynomial(s2)
    BY <1>5
  <2>5. /\ IsPolynomial(s2 \cup {e})
        /\ \A r : r \in Residue(s2 \cup {e}, g) <=>
                     ~ (r \in Residue(s2, g) <=> r \in Power(e, g))
    BY <1>2, <2>1, <2>4, ResidueMore
  <2> QED
    BY <2>2, <2>3, <2>5
<1>7. Double(Divisor(g)) = s3
  BY <1>1 DEF Double
<1>8. \A r : r \notin Residue(s3, g)
  <2> HIDE DEF s1, s2, s3
  <2> QED
    BY <1>3, <1>4, <1>5, <1>6
<1> QED
  BY <1>7, <1>8

\* ... (five equations),
LEMMA Crc10Root ==
    ASSUME NEW g, g = crc_generator("crc10"), NEW p \in SUBSET (0 .. g.degree - 1),
           Residue(Double(p), g) = {0}
    PROVE  p = {0}
<1>1. g.degree = 10 /\ \A e \in p : e \in 0 .. 9
  BY DEF crc_generator
<1>2. Generator(g)
  BY Generators DEF CrcScheme
<1> DEFINE Q(i) == Residue(Double({e \in p : e < i}), g)
<1>3. \A r : r \in Q(10) <=> r = 0
  <2>1. \A e \in p : e < 10
    BY <1>1
  <2>2. {e \in p : e < 10} = p
    BY <2>1
  <2> QED
    BY <2>2
<1>4. Q(5) = Double({e \in p : e < 5})
  <2> DEFINE half == 5
  <2>1. half \in Nat /\ g.degree = 2 * half
    BY <1>1
  <2> HIDE DEF half
  <2>2. Residue(Double({e \in p : e < half}), g) = Double({e \in p : e < half})
    BY <1>2, <2>1, SquareLow
  <2> QED
    BY <2>2 DEF half
<1>5. \A r : r \in Q(5) => \E e \in 0 .. 4 : r = 2 * e
  BY <1>1, <1>4 DEF Double
<1>6. ASSUME NEW i \in 0 .. 9
      PROVE  \A r : r \in Q(i + 1) <=> ~ (r \in Q(i) <=> i \in p /\ r \in Power(2 * i, g))
  <2>1. i \in 0 .. g.degree - 1
    BY <1>1
  <2> QED
    BY <1>2, <2>1, SquareMore
<1> HIDE DEF Q
<1>15. \A r : r \in Q(6) <=> ~ (r \in Q(5) <=> 5 \in p /\ r \in {0, 1, 4, 5, 9})
  BY <1>6, Crc10Powers, 5 + 1 = 6, 2 * 5 = 10
<1>16. \A r : r \in Q(7) <=> ~ (r \in Q(6) <=> 6 \in p /\ r \in {0, 3, 4, 7, 9})
  BY <1>6, Crc10Powers, 6 + 1 = 7, 2 * 6 = 12
<1>17. \A r : r \in Q(8) <=> ~ (r \in Q(7) <=> 7 \in p /\ r \in {0, 4, 5})
  BY <1>6, Crc10Powers, 7 + 1 = 8, 2 * 7 = 14
<1>18. \A r : r \in Q(9) <=> ~ (r \in Q(8) <=> 8 \in p /\ r \in {2, 6, 7})
  BY <1>6, Crc10Powers, 8 + 1 = 9, 2 * 8 = 16
<1>19. \A r : r \in Q(10) <=> ~ (r \in Q(9) <=> 9 \in p /\ r \in {4, 8, 9})
  BY <1>6, Crc10Powers, 9 + 1 = 10, 2 * 9 = 18
<1>20. 5 \notin p /\ 6 \notin p /\ 7 \notin p /\ 8 \notin p /\ 9 \notin p
  <2>1. /\ 1 \notin Q(5)
        /\ 3 \notin Q(5)
        /\ 5 \notin Q(5)
        /\ 7 \notin Q(5)
        /\ 9 \notin Q(5)
    BY <1>5
  <2> QED
    BY <2>1, <1>3, <1>15, <1>16, <1>17, <1>18, <1>19
<1>21. \A e \in p : e < 5
  BY <1>1, <1>20
<1>22. {e \in p : e < 5} = p
  BY <1>21
<1>23. Double(p) = {0}
  BY <1>4, <1>22 DEF Q
<1>24. \A e \in p : e = 0
  <2>1. \A e \in p : 2 * e \in Double(p)
    BY DEF Double
  <2> QED
    BY <1>1, <1>23, <2>1
<1>25. p # {}
  BY <1>23 DEF Double
<1> QED
  BY <1>24, <1>25

\* crc16, ...
LEMMA Crc16Square ==
    ASSUME NEW g, g = crc_generator("crc16")
    PROVE  Residue(Double(Divisor(g)), g) = {}
<1>1. /\ g.degree = 16
      /\ Divisor(g) = {0, 2, 15, 16}
  BY DEF crc_generator, Divisor
<1>2. Generator(g)
  BY Generators DEF CrcScheme
<1> DEFINE s0 == {0, 4}
           s1 == s0 \cup {30}
           s2 == s1 \cup {32}
<1>3. IsPolynomial(s0) /\ Residue(s0, g) = s0
  <2>1. s0 \in SUBSET (0 .. g.degree - 1) /\ g.degree - 1 \in Int
    BY <1>1
  <2> HIDE DEF s0
  <2> QED
    BY <1>2, <2>1, BoundedPolynomial, ResidueLow
<1>4. /\ IsPolynomial(s1)
      /\ \A r : r \in Residue(s1, g) <=> ~ (r \in Residue(s0, g) <=> r \in {1, 2, 15})
  <2> DEFINE e == 30
  <2>1. e \notin s0 /\ e \in Nat
    OBVIOUS
  <2>2. s1 = s0 \cup {e}
    OBVIOUS
  <2>3. Power(e, g) = {1, 2, 15}
    BY Crc16Powers
  <2> HIDE DEF e, s0, s1, s2
  <2>4. IsPolynomial(s0)
    BY <1>3
  <2>5. /\ IsPolynomial(s0 \cup {e})
        /\ \A r : r \in Residue(s0 \cup {e}, g) <=>
                     ~ (r \in Residue(s0, g) <=> r \in Power(e, g))
    BY <1>2, <2>1, <2>4, ResidueMore
  <2> QED
    BY <2>2, <2>3, <2>5
<1>5. /\ IsPolynomial(s2)
      /\ \A r : r \in Residue(s2, g) <=> ~ (r \in Residue(s1, g) <=> r \in {0, 1, 2, 4, 15})
  <2> DEFINE e == 32
  <2>1. e \notin s1 /\ e \in Nat
    OBVIOUS
  <2>2. s2 = s1 \cup {e}
    OBVIOUS
  <2>3. Power(e, g) = {0, 1, 2, 4, 15}
    BY Crc16Powers
  <2> HIDE DEF e, s0, s1, s2
  <2>4. IsPolynomial(s1)
    BY <1>4
  <2>5. /\ IsPolynomial(s1 \cup {e})
        /\ \A r : r \in Residue(s1 \cup {e}, g) <=>
                     ~ (r \in Residue(s1, g) <=> r \in Power(e, g))
    BY <1>2, <2>1, <2>4, ResidueMore
  <2> QED
    BY <2>2, <2>3, <2>5
<1>6. Double(Divisor(g)) = s2
  BY <1>1 DEF Double
<1>7. \A r : r \notin Residue(s2, g)
  <2> HIDE DEF s1, s2
  <2> QED
    BY <1>3, <1>4, <1>5
<1> QED
  BY <1>6, <1>7

\* ... (eight equations),
LEMMA Crc16Root ==
    ASSUME NEW g, g = crc_generator("crc16"), NEW p \in SUBSET (0 .. g.degree - 1),
           Residue(Double(p), g) = {0}
    PROVE  p = {0}
<1>1. g.degree = 16 /\ \A e \in p : e \in 0 .. 15
  BY DEF crc_generator
<1>2. Generator(g)
  BY Generators DEF CrcScheme
<1> DEFINE Q(i) == Residue(Double({e \in p : e < i}), g)
<1>3. \A r : r \in Q(16) <=> r = 0
  <2>1. \A e \in p : e < 16
    BY <1>1
  <2>2. {e \in p : e < 16} = p
    BY <2>1
  <2> QED
    BY <2>2
<1>4. Q(8) = Double({e \in p : e < 8})
  <2> DEFINE half == 8
  <2>1. half \in Nat /\ g.degree = 2 * half
    BY <1>1
  <2> HIDE DEF half
  <2>2. Residue(Double({e \in p : e < half}), g) = Double({e \in p : e < half})
    BY <1>2, <2>1, SquareLow
  <2> QED
    BY <2>2 DEF half
<1>5. \A r : r \in Q(8) => \E e \in 0 .. 7 : r = 2 * e
  BY <1>1, <1>4 DEF Double
<1>6. ASSUME NEW i \in 0 .. 15
      PROVE  \A r : r \in Q(i + 1) <=> ~ (r \in Q(i) <=> i \in p /\ r \in Power(2 * i, g))
  <2>1. i \in 0 .. g.degree - 1
    BY <1>1
  <2> QED
    BY <1>2, <2>1, SquareMore
<1> HIDE DEF Q
<1>18. \A r : r \in Q(9) <=> ~ (r \in Q(8) <=> 8 \in p /\ r \in {0, 2, 15})
  BY <1>6, Crc16Powers, 8 + 1 = 9, 2 * 8 = 16
<1>19. \A r : r \in Q(10) <=> ~ (r \in Q(9) <=> 9 \in p /\ r \in {0, 1, 3, 4, 15})
  BY <1>6, Crc16Powers, 9 + 1 = 10, 2 * 9 = 18
<1>20. \A r : r \in Q(11) <=> ~ (r \in Q(10) <=> 10 \in p /\ r \in {0, 1, 5, 6, 15})
  BY <1>6, Crc16Powers, 10 + 1 = 11, 2 * 10 = 20
<1>21. \A r : r \in Q(12) <=> ~ (r \in Q(11) <=> 11 \in p /\ r \in {0, 1, 7, 8, 15})
  BY <1>6, Crc16Powers, 11 + 1 = 12, 2 * 11 = 22
<1>22. \A r : r \in Q(13) <=> ~ (r \in Q(12) <=> 12 \in p /\ r \in {0, 1, 9, 10, 15})
  BY <1>6, Crc16Powers, 12 + 1 = 13, 2 * 12 = 24
<1>23. \A r : r \in Q(14) <=> ~ (r \in Q(13) <=> 13 \in p /\ r \in {0, 1, 11, 12, 15})
  BY <1>6, Crc16Powers, 13 + 1 = 14, 2 * 13 = 26
<1>24. \A r : r \in Q(15) <=> ~ (r \in Q(14) <=> 14 \in p /\ r \in {0, 1, 13, 14, 15})
  BY <1>6, Crc16Powers, 14 + 1 = 15, 2 * 14 = 28
<1>25. \A r : r \in Q(16) <=> ~ (r \in Q(15) <=> 15 \in p /\ r \in {1, 2, 15})
  BY <1>6, Crc16Powers, 15 + 1 = 16, 2 * 15 = 30
<1>26. 8 \notin p /\ 9 \notin p /\ 10 \notin p /\ 11 \notin p /\ 12 \notin p /\
     13 \notin p /\ 14 \notin p /\ 15 \notin p
  <2>1. /\ 1 \notin Q(8)
        /\ 3 \notin Q(8)
        /\ 5 \notin Q(8)
        /\ 7 \notin Q(8)
        /\ 9 \notin Q(8)
        /\ 11 \notin Q(8)
        /\ 13 \notin Q(8)
        /\ 15 \notin Q(8)
    BY <1>5
  <2> QED
    BY <2>1, <1>3, <1>18, <1>19, <1>20, <1>21, <1>22, <1>23, <1>24, <1>25
<1>27. \A e \in p : e < 8
  BY <1>1, <1>26
<1>28. {e \in p : e < 8} = p
  BY <1>27
<1>29. Double(p) = {0}
  BY <1>4, <1>28 DEF Q
<1>30. \A e \in p : e = 0
  <2>1. \A e \in p : 2 * e \in Double(p)
    BY DEF Double
  <2> QED
    BY <1>1, <1>29, <2>1
<1>31. p # {}
  BY <1>29 DEF Double
<1> QED
  BY <1>30, <1>31

\* and crc32, ...
LEMMA Crc32Square ==
    ASSUME NEW g, g = crc_generator("crc32")
    PROVE  Residue(Double(Divisor(g)), g) = {}
<1>1. /\ g.degree = 32
      /\ Divisor(g) = {0, 1, 2, 4, 5, 7, 8, 10, 11, 12, 16, 22, 23, 26, 32}
  BY DEF crc_generator, Divisor
<1>2. Generator(g)
  BY Generators DEF CrcScheme
<1> DEFINE s0 == {0, 2, 4, 8, 10, 14, 16, 20, 22, 24}
           s1 == s0 \cup {32}
           s2 == s1 \cup {44}
           s3 == s2 \cup {46}
           s4 == s3 \cup {52}
           s5 == s4 \cup {64}
<1>3. IsPolynomial(s0) /\ Residue(s0, g) = s0
  <2>1. s0 \in SUBSET (0 .. g.degree - 1) /\ g.degree - 1 \in Int
    BY <1>1
  <2> HIDE DEF s0
  <2> QED
    BY <1>2, <2>1, BoundedPolynomial, ResidueLow
<1>4. /\ IsPolynomial(s1)
      /\ \A r : r \in Residue(s1, g) <=> ~ (r \in Residue(s0, g) <=> r \in {0, 1, 2, 4, 5, 7, 8, 10, 11, 12, 16, 22, 23, 26})
  <2> DEFINE e == 32
  <2>1. e \notin s0 /\ e \in Nat
    OBVIOUS
  <2>2. s1 = s0 \cup {e}
    OBVIOUS
  <2>3. Power(e, g) = {0, 1, 2, 4, 5, 7, 8, 10, 11, 12, 16, 22, 23, 26}
    BY Crc32Powers
  <2> HIDE DEF e, s0, s1, s2, s3, s4, s5
  <2>4. IsPolynomial(s0)
    BY <1>3
  <2>5. /\ IsPolynomial(s0 \cup {e})
        /\ \A r : r \in Residue(s0 \cup {e}, g) <=>
                     ~ (r \in Residue(s0, g) <=> r \in Power(e, g))
    BY <1>2, <2>1, <2>4, ResidueMore
  <2> QED
    BY <2>2, <2>3, <2>5
<1>5. /\ IsPolynomial(s2)
      /\ \A r : r \in Residue(s2, g) <=> ~ (r \in Residue(s1, g) <=> r \in {0, 1, 4, 8, 9, 11, 12, 15, 16, 20, 22, 28})
  <2> DEFINE e == 44
  <2>1. e \notin s1 /\ e \in Nat
    OBVIOUS
  <2>2. s2 = s1 \cup {e}
    OBVIOUS
  <2>3. Power(e, g) = {0, 1, 4, 8, 9, 11, 12, 15, 16, 20, 22, 28}
    BY Crc32Powers
  <2> HIDE DEF e, s0, s1, s2, s3, s4, s5
  <2>4. IsPolynomial(s1)
    BY <1>4
  <2>5. /\ IsPolynomial(s1 \cup {e})
        /\ \A r : r \in Residue(s1 \cup {e}, g) <=>
                     ~ (r \in Residue(s1, g) <=> r \in Power(e, g))
    BY <1>2, <2>1, <2>4, ResidueMore
  <2> QED
    BY <2>2, <2>3, <2>5
<1>6. /\ IsPolynomial(s3)
      /\ \A r : r \in Residue(s3, g) <=> ~ (r \in Residue(s2, g) <=> r \in {2, 3, 6, 10, 11, 13, 14, 17, 18, 22, 24, 30})
  <2> DEFINE e == 46
  <2>1. e \notin s2 /\ e \in Nat
    OBVIOUS
  <2>2. s3 = s2 \cup {e}
    OBVIOUS
  <2>3. Power(e, g) = {2, 3, 6, 10, 11, 13, 14, 17, 18, 22, 24, 30}
    BY Crc32Powers
  <2> HIDE DEF e, s0, s1, s2, s3, s4, s5
  <2>4. IsPolynomial(s2)
    BY <1>5
  <2>5. /\ IsPolynomial(s2 \cup {e})
        /\ \A r : r \in Residue(s2 \cup {e}, g) <=>
                     ~ (r \in Residue(s2, g) <=> r \in Power(e, g))
    BY <1>2, <2>1, <2>4, ResidueMore
  <2> QED
    BY <2>2, <2>3, <2>5
<1>7. /\ IsPolynomial(s4)
      /\ \A r : r \in Residue(s4, g) <=> ~ (r \in Residue(s3, g) <=> r \in {4, 5, 6, 11, 14, 15, 17, 19, 23, 24, 26, 27, 28})
  <2> DEFINE e == 52
  <2>1. e \notin s3 /\ e \in Nat
    OBVIOUS
  <2>2. s4 = s3 \cup {e}
    OBVIOUS
  <2>3. Power(e, g) = {4, 5, 6, 11, 14, 15, 17, 19, 23, 24, 26, 27, 28}
    BY Crc32Powers
  <2> HIDE DEF e, s0, s1, s2, s3, s4, s5
  <2>4. IsPolynomial(s3)
    BY <1>6
  <2>5. /\ IsPolynomial(s3 \cup {e})
        /\ \A r : r \in Residue(s3 \cup {e}, g) <=>
                     ~ (r \in Residue(s3, g) <=> r \in Power(e, g))
    BY <1>2, <2>1, <2>4, ResidueMore
  <2> QED
    BY <2>2, <2>3, <2>5
<1>8. /\ IsPolynomial(s5)
      /\ \A r : r \in Residue(s5, g) <=> ~ (r \in Residue(s4, g) <=> r \in {0, 2, 3, 7, 8, 9, 10, 13, 14, 16, 18, 19, 24, 27, 30})
  <2> DEFINE e == 64
  <2>1. e \notin s4 /\ e \in Nat
    OBVIOUS
  <2>2. s5 = s4 \cup {e}
    OBVIOUS
  <2>3. Power(e, g) = {0, 2, 3, 7, 8, 9, 10, 13, 14, 16, 18, 19, 24, 27, 30}
    BY Crc32Powers
  <2> HIDE DEF e, s0, s1, s2, s3, s4, s5
  <2>4. IsPolynomial(s4)
    BY <1>7
  <2>5. /\ IsPolynomial(s4 \cup {e})
        /\ \A r : r \in Residue(s4 \cup {e}, g) <=>
                     ~ (r \in Residue(s4, g) <=> r \in Power(e, g))
    BY <1>2, <2>1, <2>4, ResidueMore
  <2> QED
    BY <2>2, <2>3, <2>5
<1>9. Double(Divisor(g)) = s5
  BY <1>1 DEF Double
<1>10. \A r : r \notin Residue(s5, g)
  <2> HIDE DEF s1, s2, s3, s4, s5
  <2> QED
    BY <1>3, <1>4, <1>5, <1>6, <1>7, <1>8
<1> QED
  BY <1>9, <1>10

\* ... (sixteen equations).
LEMMA Crc32Root ==
    ASSUME NEW g, g = crc_generator("crc32"), NEW p \in SUBSET (0 .. g.degree - 1),
           Residue(Double(p), g) = {0}
    PROVE  p = {0}
<1>1. g.degree = 32 /\ \A e \in p : e \in 0 .. 31
  BY DEF crc_generator
<1>2. Generator(g)
  BY Generators DEF CrcScheme
<1> DEFINE Q(i) == Residue(Double({e \in p : e < i}), g)
<1>3. \A r : r \in Q(32) <=> r = 0
  <2>1. \A e \in p : e < 32
    BY <1>1
  <2>2. {e \in p : e < 32} = p
    BY <2>1
  <2> QED
    BY <2>2
<1>4. Q(16) = Double({e \in p : e < 16})
  <2> DEFINE half == 16
  <2>1. half \in Nat /\ g.degree = 2 * half
    BY <1>1
  <2> HIDE DEF half
  <2>2. Residue(Double({e \in p : e < half}), g) = Double({e \in p : e < half})
    BY <1>2, <2>1, SquareLow
  <2> QED
    BY <2>2 DEF half
<1>5. \A r : r \in Q(16) => \E e \in 0 .. 15 : r = 2 * e
  BY <1>1, <1>4 DEF Double
<1>6. ASSUME NEW i \in 0 .. 31
      PROVE  \A r : r \in Q(i + 1) <=> ~ (r \in Q(i) <=> i \in p /\ r \in Power(2 * i, g))
  <2>1. i \in 0 .. g.degree - 1
    BY <1>1
  <2> QED
    BY <1>2, <2>1, SquareMore
<1> HIDE DEF Q
<1>26. \A r : r \in Q(17) <=> ~ (r \in Q(16) <=> 16 \in p /\ r \in {0, 1, 2, 4, 5, 7, 8, 10, 11, 12, 16, 22, 23, 26})
  BY <1>6, Crc32Powers, 16 + 1 = 17, 2 * 16 = 32
<1>27. \A r : r \in Q(18) <=> ~ (r \in Q(17) <=> 17 \in p /\ r \in {2, 3, 4, 6, 7, 9, 10, 12, 13, 14, 18, 24, 25, 28})
  BY <1>6, Crc32Powers, 17 + 1 = 18, 2 * 17 = 34
<1>28. \A r : r \in Q(19) <=> ~ (r \in Q(18) <=> 18 \in p /\ r \in {4, 5, 6, 8, 9, 11, 12, 14, 15, 16, 20, 26, 27, 30})
  BY <1>6, Crc32Powers, 18 + 1 = 19, 2 * 18 = 36
<1>29. \A r : r \in Q(20) <=> ~ (r \in Q(19) <=> 19 \in p /\ r \in {0, 1, 2, 4, 5, 6, 12, 13, 14, 17, 18, 23, 26, 28, 29})
  BY <1>6, Crc32Powers, 19 + 1 = 20, 2 * 19 = 38
<1>30. \A r : r \in Q(21) <=> ~ (r \in Q(20) <=> 20 \in p /\ r \in {2, 3, 4, 6, 7, 8, 14, 15, 16, 19, 20, 25, 28, 30, 31})
  BY <1>6, Crc32Powers, 20 + 1 = 21, 2 * 20 = 40
<1>31. \A r : r \in Q(22) <=> ~ (r \in Q(21) <=> 21 \in p /\ r \in {0, 3, 5, 7, 8, 13, 18, 21, 24, 26, 30})
  BY <1>6, Crc32Powers, 21 + 1 = 22, 2 * 21 = 42
<1>32. \A r : r \in Q(23) <=> ~ (r \in Q(22) <=> 22 \in p /\ r \in {0, 1, 4, 8, 9, 11, 12, 15, 16, 20, 22, 28})
  BY <1>6, Crc32Powers, 22 + 1 = 23, 2 * 22 = 44
<1>33. \A r : r \in Q(24) <=> ~ (r \in Q(23) <=> 23 \in p /\ r \in {2, 3, 6, 10, 11, 13, 14, 17, 18, 22, 24, 30})
  BY <1>6, Crc32Powers, 23 + 1 = 24, 2 * 23 = 46
<1>34. \A r : r \in Q(25) <=> ~ (r \in Q(24) <=> 24 \in p /\ r \in {0, 1, 2, 7, 10, 11, 13, 15, 19, 20, 22, 23, 24})
  BY <1>6, Crc32Powers, 24 + 1 = 25, 2 * 24 = 48
<1>35. \A r : r \in Q(26) <=> ~ (r \in Q(25) <=> 25 \in p /\ r \in {2, 3, 4, 9, 12, 13, 15, 17, 21, 22, 24, 25, 26})
  BY <1>6, Crc32Powers, 25 + 1 = 26, 2 * 25 = 50
<1>36. \A r : r \in Q(27) <=> ~ (r \in Q(26) <=> 26 \in p /\ r \in {4, 5, 6, 11, 14, 15, 17, 19, 23, 24, 26, 27, 28})
  BY <1>6, Crc32Powers, 26 + 1 = 27, 2 * 26 = 52
<1>37. \A r : r \in Q(28) <=> ~ (r \in Q(27) <=> 27 \in p /\ r \in {6, 7, 8, 13, 16, 17, 19, 21, 25, 26, 28, 29, 30})
  BY <1>6, Crc32Powers, 27 + 1 = 28, 2 * 27 = 54
<1>38. \A r : r \in Q(29) <=> ~ (r \in Q(28) <=> 28 \in p /\ r \in {0, 1, 2, 4, 5, 7, 9, 11, 12, 15, 16, 18, 19, 21, 22, 26, 27, 28, 30, 31})
  BY <1>6, Crc32Powers, 28 + 1 = 29, 2 * 28 = 56
<1>39. \A r : r \in Q(30) <=> ~ (r \in Q(29) <=> 29 \in p /\ r \in {0, 2, 10, 11, 14, 16, 18, 20, 21, 22, 23, 26, 27, 28, 29, 30})
  BY <1>6, Crc32Powers, 29 + 1 = 30, 2 * 29 = 58
<1>40. \A r : r \in Q(31) <=> ~ (r \in Q(30) <=> 30 \in p /\ r \in {0, 1, 5, 7, 8, 10, 11, 13, 18, 20, 24, 25, 26, 28, 29, 30, 31})
  BY <1>6, Crc32Powers, 30 + 1 = 31, 2 * 30 = 60
<1>41. \A r : r \in Q(32) <=> ~ (r \in Q(31) <=> 31 \in p /\ r \in {0, 2, 4, 6, 12, 15, 16, 17, 20, 24, 28, 30, 31})
  BY <1>6, Crc32Powers, 31 + 1 = 32, 2 * 31 = 62
<1>42. 16 \notin p /\ 17 \notin p /\ 18 \notin p /\ 19 \notin p /\ 20 \notin p /\
     21 \notin p /\ 22 \notin p /\ 23 \notin p /\ 24 \notin p /\ 25 \notin p /\
     26 \notin p /\ 27 \notin p /\ 28 \notin p /\ 29 \notin p /\ 30 \notin p /\
     31 \notin p
  <2>1. /\ 1 \notin Q(16)
        /\ 3 \notin Q(16)
        /\ 5 \notin Q(16)
        /\ 7 \notin Q(16)
        /\ 9 \notin Q(16)
        /\ 11 \notin Q(16)
        /\ 13 \notin Q(16)
        /\ 15 \notin Q(16)
        /\ 17 \notin Q(16)
        /\ 19 \notin Q(16)
        /\ 21 \notin Q(16)
        /\ 23 \notin Q(16)
        /\ 25 \notin Q(16)
        /\ 27 \notin Q(16)
        /\ 29 \notin Q(16)
        /\ 31 \notin Q(16)
    BY <1>5
  <2> QED
    BY <2>1, <1>3, <1>26, <1>27, <1>28, <1>29, <1>30, <1>31, <1>32, <1>33, <1>34, <1>35,
     <1>36, <1>37, <1>38, <1>39, <1>40, <1>41
<1>43. \A e \in p : e < 16
  BY <1>1, <1>42
<1>44. {e \in p : e < 16} = p
  BY <1>43
<1>45. Double(p) = {0}
  BY <1>4, <1>44 DEF Q
<1>46. \A e \in p : e = 0
  <2>1. \A e \in p : 2 * e \in Double(p)
    BY DEF Double
  <2> QED
    BY <1>1, <1>45, <2>1
<1>47. p # {}
  BY <1>45 DEF Double
<1> QED
  BY <1>46, <1>47

\* If the square of a power of x is 1, so is the power.
LEMMA RootOfOne ==
    ASSUME NEW s \in CrcScheme, NEW g, g = crc_generator(s), NEW n \in Nat,
           Power(2 * n, g) = {0}
    PROVE  Power(n, g) = {0}
<1>1. Generator(g)
  BY Generators
<1>2. Residue(Double(Divisor(g)), g) = {}
  BY Crc8Square, Crc10Square, Crc16Square, Crc32Square DEF CrcScheme
<1>3. Residue(Double(Power(n, g)), g) = {0}
  BY <1>1, <1>2, SquareLaw
<1>4. Power(n, g) \in SUBSET (0 .. g.degree - 1)
  BY <1>1, PowerType
<1> DEFINE p == Power(n, g)
<1> HIDE DEF p
<1>5. p \in SUBSET (0 .. g.degree - 1) /\ Residue(Double(p), g) = {0}
  BY <1>3, <1>4 DEF p
<1>6. p = {0}
  BY <1>5, Crc8Root, Crc10Root, Crc16Root, Crc32Root DEF CrcScheme
<1> QED
  BY <1>6 DEF p

\* None of the first powers is 1.
LEMMA FirstPowers ==
    ASSUME NEW s \in CrcScheme, NEW g, g = crc_generator(s), NEW k \in 1 .. 29
    PROVE  Power(k, g) # {0}
<1>1. Generator(g)
  BY Generators
<1>2. CASE k < g.degree
  <2>1. k \in 0 .. g.degree - 1
    BY <1>1, <1>2 DEF Generator
  <2>2. Power(k, g) = {k}
    BY <1>1, <2>1, PowerLow
  <2> QED
    BY <2>2
<1>3. CASE ~ (k < g.degree)
  <2>1. CASE s = "crc8"
    <3>1. g.degree = 8
      BY <2>1 DEF crc_generator
    <3>2. k \in 8 .. 29
      BY <1>3, <3>1
    <3> QED
      BY <2>1, <3>2, Crc8Powers
  <2>2. CASE s = "crc10"
    <3>1. g.degree = 10
      BY <2>2 DEF crc_generator
    <3>2. k \in 10 .. 29
      BY <1>3, <3>1
    <3> QED
      BY <2>2, <3>2, Crc10Powers
  <2>3. CASE s = "crc16"
    <3>1. g.degree = 16
      BY <2>3 DEF crc_generator
    <3>2. k \in 16 .. 29
      BY <1>3, <3>1
    <3> QED
      BY <2>3, <3>2, Crc16Powers
  <2>4. CASE s = "crc32"
    <3>1. g.degree = 32
      BY <2>4 DEF crc_generator
    <3> QED
      BY <1>3, <3>1
  <2> QED
    BY <2>1, <2>2, <2>3, <2>4 DEF CrcScheme
<1> QED
  BY <1>2, <1>3

\* So two bits up to 29 words apart do not leave the same residue.
LEMMA WordsApart ==
    ASSUME NEW s \in CrcScheme, NEW g, g = crc_generator(s), NEW k \in 1 .. 29
    PROVE  Power(16 * k, g) # {0}
<1> SUFFICES ASSUME Power(16 * k, g) = {0} PROVE FALSE
  OBVIOUS
<1>1. 16 * k = 2 * (8 * k) /\ 8 * k = 2 * (4 * k) /\ 4 * k = 2 * (2 * k)
  OBVIOUS
<1>2. k \in Nat /\ 2 * k \in Nat /\ 4 * k \in Nat /\ 8 * k \in Nat
  OBVIOUS
<1>3. Power(8 * k, g) = {0}
  BY <1>1, <1>2, RootOfOne
<1>4. Power(4 * k, g) = {0}
  BY <1>1, <1>2, <1>3, RootOfOne
<1>5. Power(2 * k, g) = {0}
  BY <1>1, <1>2, <1>4, RootOfOne
<1>6. Power(k, g) = {0}
  BY <1>2, <1>5, RootOfOne
<1> QED
  BY <1>6, FirstPowers

\* In a region as long as that of frame.h, no two flips in one column are a multiple of
\* the generator.
THEOREM PairLeavesRest ==
    ASSUME PAYLOAD_SIZE <= 44, NEW s \in CrcScheme, NEW f, NEW e \in CompensatingErrors(f)
    PROVE  Remainder(Polynomial(e), crc_generator(s)) # {}
<1> DEFINE N == REGION_LEN
           g == crc_generator(s)
<1>1. Generator(g) /\ N \in Nat /\ N <= 61
  BY Generators, Sizes
<1>2. PICK i, j \in BitOfFrame :
         /\ e = {i, j} /\ i < 8 * N /\ j < 8 * N
         /\ \E k \in 1 .. (N \div 2) - 1 : j = i + 16 * k
  BY SameColumn
<1>3. PICK k \in 1 .. 29 : j = i + 16 * k
  <2>1. (N \div 2) - 1 <= 29 /\ (N \div 2) - 1 \in Int
    BY <1>1
  <2> QED
    BY <1>2, <2>1
<1>4. i \in Nat /\ j \in Nat
  BY Sizes DEF BitOfFrame
<1> DEFINE a == i \div 8
           b == i % 8
           n == 8 * (N - 1 - (a + 2 * k)) + b
           Q == {0, 16 * k}
<1> HIDE DEF g, N
<1>5. a \in Nat /\ b \in 0 .. 7 /\ i = 8 * a + b
  BY <1>4, BitPlace
<1> HIDE DEF a, b
<1>6. j = 8 * (a + 2 * k) + b /\ a + 2 * k \in Nat
  BY <1>3, <1>5
<1>7. j \div 8 = a + 2 * k /\ j % 8 = b /\ i \div 8 = a /\ i % 8 = b
  BY <1>5, <1>6, BitPlace DEF a, b
<1>8. n \in Nat
  BY <1>1, <1>2, <1>5, <1>6
<1>9. Powers(e) = Shift(Q, n)
  <2>1. Powers(e) = {8 * (N - 1 - (x \div 8)) + (x % 8) : x \in {i, j}}
    <3>1. {y \in e : y < 8 * N} = {i, j}
      BY <1>2
    <3> QED
      BY <3>1 DEF Powers, N
  <2>2. Powers(e) = {8 * (N - 1 - a) + b, n}
    BY <1>7, <2>1
  <2>3. 8 * (N - 1 - a) + b = 16 * k + n /\ n = 0 + n
    BY <1>1, <1>5
  <2>4. Shift(Q, n) = {0 + n, 16 * k + n}
    BY DEF Shift
  <2> HIDE DEF n
  <2> QED
    BY <2>2, <2>3, <2>4
<1>10. /\ IsPolynomial(Q)
       /\ \A r : r \in Residue(Q, g) <=> ~ (r \in {0} <=> r \in Power(16 * k, g))
  <2> DEFINE c == 16 * k
             o == 0
  <2>1. c \in Nat /\ c \notin {o} /\ Q = {o} \cup {c} /\ o \in Nat
    OBVIOUS
  <2>2. Residue({o}, g) = {0}
    <3>1. 0 \in 0 .. g.degree - 1
      BY <1>1 DEF Generator
    <3> QED
      BY <1>1, <3>1, ResidueLow
  <2> HIDE DEF c, o, Q
  <2>3. IsPolynomial({o})
    BY <2>1, FS_Singleton DEF IsPolynomial
  <2>4. /\ IsPolynomial({o} \cup {c})
        /\ \A r : r \in Residue({o} \cup {c}, g) <=>
                     ~ (r \in Residue({o}, g) <=> r \in Power(c, g))
    BY <1>1, <2>1, <2>3, ResidueMore
  <2> QED
    BY <2>1, <2>2, <2>4 DEF c
<1> HIDE DEF n, Q
<1>11. Residue(Q, g) # {}
  <2>1. Power(16 * k, g) # {0}
    BY WordsApart DEF g
  <2> QED
    BY <1>10, <2>1
<1>12. Residue(Powers(e), g) # {}
  <2>1. Residue(Shift(Q, n), g) = Times(Residue(Q, g), g, n)
    BY <1>1, <1>8, <1>10, ResidueShift
  <2>2. Residue(Q, g) \in Register /\ Low(Residue(Q, g), g) = Residue(Q, g)
    BY <1>1, ResidueType
  <2>3. Times(Residue(Q, g), g, n) = {} <=> Low(Residue(Q, g), g) = {}
    BY <1>1, <1>8, <2>2, TimesLaws
  <2> QED
    BY <1>9, <1>11, <2>1, <2>2, <2>3
<1>13. e \subseteq BitOfFrame
  BY <1>2
<1> QED
  BY <1>1, <1>12, <1>13, PowersAre, LowestPower DEF g

-----------------------------------------------------------------------------
(* The verdicts.                                                           *)

\* The verdict on a message with an error, as Receive reaches it.
Arrived(m, error) == Flipped(Sealed(Built(m), m.fcs), error)
Verdict(m, error) ==
    verify_fcs(scheme, Arrived(m, error), REGION_LEN, ReceivedFcs(Arrived(m, error)))

\* What VerdictsAreAlgebraic says of it.
Algebraic(m, error) ==
    IF scheme = "checksum"
      THEN Verdict(m, error) <=>
             (WordsOf(Arrived(m, error))
                + Value(ReceivedFcs(Arrived(m, error)) \cap (0 .. 15))) % 65535 = 0
      ELSE Verdict(m, error) <=>
             /\ Remainder(Polynomial(error), crc_generator(scheme)) = {}
             /\ \A i \in error : i < 8 * REGION_LEN

\* Each kind of damage under the checksum.
LEMMA SumVerdicts ==
    ASSUME scheme = "checksum", NEW m, Good(m, m.seq),
           NEW d \in {NoDamage} \cup Damages(Built(m))
    PROVE  /\ Algebraic(m, d.error)
           /\ d.kind = "flip" => (Verdict(m, d.error) <=> \E i \in d.error : Unchecked(i))
           /\ d.kind = "compensating" => Verdict(m, d.error)
           /\ d.kind \notin {"burst", "multiple"}
<1> DEFINE f == Built(m)
           s == Sealed(f, m.fcs)
<1>1. SumFrame(f)
  BY BuiltForSum DEF Good, Message
<1>2. m.fcs = checksum16_compute(f, REGION_LEN)
  BY DEF Good, compute_fcs
<1>3. f \in FrameBytes /\ s \in FrameBytes /\ s[1] = SrcByte /\ 1 \in 0 .. REGION_LEN
  <2>1. 1 \in 0 .. REGION_LEN
    BY Sizes
  <2>2. s \in FrameBytes /\ \A k \in 0 .. REGION_LEN : s[k] = f[k]
    BY <1>1, <1>2, SealedSum
  <2>3. f \in FrameBytes /\ f[1] = SrcByte
    BY <1>1 DEF SumFrame
  <2> HIDE DEF f, s
  <2> QED
    BY <2>1, <2>2, <2>3
<1>4. \/ d = NoDamage
      \/ \E e \in SingleFlips : d = [kind |-> "flip", error |-> e]
      \/ \E e \in CompensatingErrors(f) : d = [kind |-> "compensating", error |-> e]
  BY DEF Damages
<1>5. ASSUME NEW a, NEW b, d.error \subseteq {a, b} PROVE Algebraic(m, d.error)
  <2> DEFINE h == Arrived(m, d.error)
  <2>1. h \in FrameBytes
    BY <1>3, FlippedFrame DEF Arrived
  <2>2. WordsOf(h) # 0
    <3> HIDE DEF s, f
    <3>1. WordsOf(Flipped(s, d.error)) # 0
      BY <1>3, <1>5, WordsRemain
    <3> QED
      BY <3>1 DEF Arrived, s, f
  <2> HIDE DEF h
  <2>3. checksum16_verify(h, REGION_LEN, ReceivedFcs(h))
          <=> (WordsOf(h) + Value(ReceivedFcs(h) \cap (0 .. 15))) % 65535 = 0
    BY <2>1, <2>2, ChecksumVerdict
  <2>4. Verdict(m, d.error) <=> checksum16_verify(h, REGION_LEN, ReceivedFcs(h))
    BY DEF Verdict, verify_fcs, h
  <2> QED
    BY <2>3, <2>4 DEF Algebraic, h
<1>6. ASSUME NEW error
      PROVE  LET fcs   == checksum16_compute(f, REGION_LEN)
                 after == Flipped(Sealed(f, fcs), error)
             IN  Verdict(m, error) <=>
                   checksum16_verify(after, REGION_LEN, ReceivedFcs(after))
  BY <1>2 DEF Verdict, verify_fcs, Arrived
<1> HIDE DEF f, s
<1>8. CASE d = NoDamage
  <2>1. d.error = {} /\ d.kind = "none"
    BY <1>8 DEF NoDamage
  <2>2. d.error \subseteq {0, 0}
    BY <2>1
  <2>3. Algebraic(m, d.error)
    BY <1>5, <2>2
  <2> QED
    BY <2>1, <2>3
<1>9. CASE \E e \in SingleFlips : d = [kind |-> "flip", error |-> e]
  <2>1. PICK i \in BitOfFrame : d.kind = "flip" /\ d.error = {i}
    BY <1>9 DEF SingleFlips
  <2>2. d.error \subseteq {i, i}
    BY <2>1
  <2>3. Algebraic(m, d.error)
    BY <1>5, <2>2
  <2>4. CASE i < 8 * REGION_LEN
    <3>1. LET fcs   == checksum16_compute(f, REGION_LEN)
              after == Flipped(Sealed(f, fcs), {i})
          IN  ~ checksum16_verify(after, REGION_LEN, ReceivedFcs(after))
      BY <1>1, <2>4, ChecksumOfDamaged
    <3>2. ~ Verdict(m, {i})
      BY <3>1, <1>6
    <3>3. ~ Unchecked(i)
      <4> DEFINE k == i \div 8
      <4>1. k < 2 * WordCount
        BY <2>4, RegionIsSummed
      <4>2. WordCount \in Nat /\ REGION_LEN \in Nat
        BY Sizes DEF WordCount
      <4>3. k \in Nat
        BY OneFlipped, <1>3, Sizes DEF BitOfFrame
      <4> HIDE DEF k
      <4>4. k \notin 2 * WordCount .. REGION_LEN + 1
        BY <4>1, <4>2, <4>3
      <4> QED
        BY <4>4 DEF Unchecked, WordCount, k
    <3> QED
      BY <2>1, <2>3, <3>2, <3>3
  <2>5. CASE ~ (i < 8 * REGION_LEN)
    <3>1. LET fcs   == checksum16_compute(f, REGION_LEN)
              after == Flipped(Sealed(f, fcs), {i})
          IN  checksum16_verify(after, REGION_LEN, ReceivedFcs(after))
                <=> i \div 8 \in 2 * WordCount .. REGION_LEN + 1
      BY <1>1, <2>5, ChecksumOfTrailer
    <3>2. Verdict(m, {i}) <=> i \div 8 \in 2 * WordCount .. REGION_LEN + 1
      BY <3>1, <1>6
    <3>3. Verdict(m, {i}) <=> Unchecked(i)
      BY <3>2 DEF Unchecked, WordCount
    <3> QED
      BY <2>1, <2>3, <3>3
  <2> QED
    BY <2>4, <2>5
<1>10. CASE \E e \in CompensatingErrors(f) : d = [kind |-> "compensating", error |-> e]
  <2>1. PICK e \in CompensatingErrors(f) : d.kind = "compensating" /\ d.error = e
    BY <1>10
  <2>2. PICK i, j \in BitOfFrame :
          /\ e = {i, j} /\ i # j /\ i < 8 * REGION_LEN /\ j < 8 * REGION_LEN
          /\ BitWeight(i) = BitWeight(j)
          /\ ~ (i % 8 \in f[i \div 8] <=> j % 8 \in f[j \div 8])
    BY SameColumn
  <2>3. d.error \subseteq {i, j}
    BY <2>1, <2>2
  <2>4. Algebraic(m, d.error)
    BY <1>5, <2>3
  <2>5. Verdict(m, {i, j})
    <3>1. LET fcs   == checksum16_compute(f, REGION_LEN)
              after == Flipped(Sealed(f, fcs), {i, j})
          IN  checksum16_verify(after, REGION_LEN, ReceivedFcs(after))
      BY <1>1, <2>2, ChecksumOfDamaged
    <3> QED
      BY <3>1, <1>6
  <2> QED
    BY <2>1, <2>2, <2>4, <2>5
<1> QED
  BY <1>4, <1>8, <1>9, <1>10

\* Each kind of damage under a CRC.
LEMMA CrcVerdicts ==
    ASSUME scheme \in CrcScheme, NEW m, Good(m, m.seq),
           NEW d \in {NoDamage} \cup Damages(Built(m))
    PROVE  /\ Algebraic(m, d.error)
           /\ d.kind = "flip" => (Verdict(m, d.error) <=> \E i \in d.error : Unchecked(i))
           /\ d.kind = "burst" => ~ Verdict(m, d.error)
           /\ d.kind = "multiple" => Verdict(m, d.error)
           /\ d.kind = "compensating" /\ PAYLOAD_SIZE <= 44 => ~ Verdict(m, d.error)
<1> DEFINE f == Built(m)
           g == crc_generator(scheme)
<1>1. Generator(g) /\ scheme \in Scheme /\ scheme # "checksum"
  BY Generators DEF Scheme, CrcScheme
<1>2. f \in FrameBytes
  BY BuiltFrame DEF Good, Message
<1>3. m.fcs = crc_compute(f, REGION_LEN, g)
  BY <1>1 DEF Good, compute_fcs
<1> HIDE DEF f, g
<1>4. d \in {NoDamage} \cup Damages(f)
  BY DEF f
<1>5. \A error : Verdict(m, error) <=>
         LET frame == Flipped(Sealed(f, crc_compute(f, REGION_LEN, g)), error)
         IN  crc_verify(frame, REGION_LEN, g, ReceivedFcs(frame))
  BY <1>1, <1>3 DEF Verdict, Arrived, verify_fcs, f, g
<1>6. d.error \subseteq BitOfFrame
  BY <1>1, <1>4, DamageType
<1>7. \/ \A i \in d.error : i < 8 * REGION_LEN
      \/ \A i \in d.error : ~ (i < 8 * REGION_LEN)
  BY <1>1, <1>4, DamagePlace
<1>8. Verdict(m, d.error) <=> /\ Remainder(Polynomial(d.error), g) = {}
                              /\ \A i \in d.error : i < 8 * REGION_LEN
  <2>1. LET frame == Flipped(Sealed(f, crc_compute(f, REGION_LEN, g)), d.error)
        IN  crc_verify(frame, REGION_LEN, g, ReceivedFcs(frame))
              <=> /\ Remainder(Polynomial(d.error), g) = {}
                  /\ \A i \in d.error : i < 8 * REGION_LEN
    BY <1>1, <1>2, <1>6, <1>7, CrcVerdict
  <2> QED
    BY <2>1, <1>5
<1>9. Algebraic(m, d.error)
  BY <1>1, <1>8 DEF Algebraic, g
<1>10. ASSUME d.kind = "flip" PROVE ~ Verdict(m, d.error) /\ \A i : ~ Unchecked(i)
  <2>1. PICK i \in BitOfFrame : d.error = {i}
    <3>1. PICK e \in SingleFlips : d = [kind |-> "flip", error |-> e]
      BY <1>4, <1>10 DEF Damages, NoDamage
    <3> QED
      BY <3>1 DEF SingleFlips
  <2>2. ASSUME i < 8 * REGION_LEN PROVE Remainder(Polynomial({i}), g) # {}
    BY <1>1, <2>2, FlipLeavesRest
  <2>3. ~ Verdict(m, d.error)
    BY <2>1, <2>2, <1>8
  <2> QED
    BY <1>1, <2>3 DEF Unchecked
<1>11. ASSUME d.kind = "burst" PROVE ~ Verdict(m, d.error)
  <2>1. d.error \in Bursts(g.degree) \cup Bursts(g.degree + 1)
    BY <1>1, <1>4, <1>11 DEF Damages, NoDamage, g
  <2>2. Remainder(Polynomial(d.error), g) # {}
    BY <2>1, BurstLeavesRest DEF g
  <2> QED
    BY <2>2, <1>8
<1>12. ASSUME d.kind = "multiple" PROVE Verdict(m, d.error)
  <2>1. d.error = GeneratorMultiple(g)
    BY <1>1, <1>4, <1>12 DEF Damages, NoDamage, g
  <2>2. Remainder(Polynomial(d.error), g) = {}
    BY <1>1, <2>1, MultipleLeavesNothing
  <2>3. \A i \in d.error : i < 8 * REGION_LEN
    <3>1. d.kind # "flip"
      BY <1>12
    <3> QED
      BY <1>1, <1>4, <3>1, DamagePlace
  <2> QED
    BY <2>2, <2>3, <1>8
<1>13. ASSUME d.kind = "compensating", PAYLOAD_SIZE <= 44 PROVE ~ Verdict(m, d.error)
  <2>1. d.error \in CompensatingErrors(f)
    BY <1>1, <1>4, <1>13 DEF Damages, NoDamage
  <2>2. Remainder(Polynomial(d.error), g) # {}
    BY <1>13, <2>1, PairLeavesRest DEF g
  <2> QED
    BY <2>2, <1>8
<1> QED
  BY <1>9, <1>10, <1>11, <1>12, <1>13

\* What was just verified is a message of the sender with one of the damages.
LastOK ==
    last # Nothing =>
        /\ Good(last.message, last.message.seq)
        /\ last.damage \in {NoDamage} \cup Damages(Built(last.message))
        /\ last.accepted <=> Verdict(last.message, last.damage.error)

\* It is an invariant relative to IInv.
LEMMA LastInv ==
    /\ Init => LastOK
    /\ IInv /\ LastOK /\ [Next]_vars => LastOK'
<1>1. ASSUME Init PROVE LastOK
  BY <1>1 DEF Init, LastOK
<1>2. ASSUME IInv, LastOK, [Next]_vars PROVE LastOK'
  <2>1. CASE UNCHANGED vars
    BY <1>2, <2>1 DEF vars, LastOK, Good, Damages, Verdict, Arrived
  <2>2. CASE Send \/ Close \/ Die \/ Open \/ Eof
    <3>1. last' = Nothing
      BY <2>2 DEF Send, Close, Die, Open, Eof
    <3> QED
      BY <3>1 DEF LastOK
  <2>3. CASE Receive
    <3> DEFINE m == Head(wire)
    <3>1. Good(m, Handled)
      BY <1>2, <2>3, ReceiveCases
    <3> HIDE DEF m
    <3>2. PICK d \in {NoDamage} \cup (IF hits < MaxHits THEN Damages(Built(m)) ELSE {}) :
            last' = [message |-> m, damage |-> d, accepted |-> Verdict(m, d.error)]
      BY <2>3 DEF Receive, Verdict, Arrived, m
    <3>3. /\ last'.message = m /\ last'.damage = d
          /\ last'.accepted <=> Verdict(m, d.error)
      BY <3>2
    <3>4. d \in {NoDamage} \cup Damages(Built(m))
      BY <3>2
    <3>5. scheme' = scheme
      BY <2>3 DEF Receive
    <3>6. Good(m, m.seq)
      BY <3>1 DEF Good
    <3> QED
      BY <3>3, <3>4, <3>5, <3>6 DEF LastOK, Good, Damages, Verdict, Arrived
  <2>4. CASE Over
    BY <1>2, <2>1, <2>4 DEF Over
  <2> QED
    BY <1>2, <2>1, <2>2, <2>3, <2>4 DEF Next
<1> QED
  BY <1>1, <1>2

\* Each verdict is one of those.
LEMMA VerdictOfLast ==
    ASSUME IInv, LastOK, last # Nothing
    PROVE  /\ Algebraic(last.message, last.damage.error)
           /\ last.accepted <=> Verdict(last.message, last.damage.error)
           /\ last.damage.kind = "flip" =>
                (last.accepted <=> \E i \in last.damage.error : Unchecked(i))
           /\ last.damage.kind = "compensating" /\ scheme = "checksum" => last.accepted
           /\ last.damage.kind = "burst" => ~ last.accepted
           /\ last.damage.kind = "multiple" => last.accepted
           /\ last.damage.kind = "compensating" /\ scheme # "checksum" /\ PAYLOAD_SIZE <= 44
                => ~ last.accepted
<1> DEFINE m == last.message
           d == last.damage
<1>1. /\ Good(m, m.seq) /\ d \in {NoDamage} \cup Damages(Built(m))
      /\ last.accepted <=> Verdict(m, d.error)
  BY DEF LastOK
<1>2. scheme = "checksum" \/ scheme \in CrcScheme
  BY DEF IInv, TypeOK, Scheme
<1> HIDE DEF m, d
<1>3. CASE scheme = "checksum"
  <2>1. /\ Algebraic(m, d.error)
        /\ d.kind = "flip" => (Verdict(m, d.error) <=> \E i \in d.error : Unchecked(i))
        /\ d.kind = "compensating" => Verdict(m, d.error)
        /\ d.kind \notin {"burst", "multiple"}
    BY <1>1, <1>3, SumVerdicts
  <2> QED
    BY <1>1, <1>3, <2>1 DEF m, d
<1>4. CASE scheme \in CrcScheme
  <2>1. scheme # "checksum"
    BY <1>4 DEF CrcScheme
  <2>2. /\ Algebraic(m, d.error)
        /\ d.kind = "flip" => (Verdict(m, d.error) <=> \E i \in d.error : Unchecked(i))
        /\ d.kind = "burst" => ~ Verdict(m, d.error)
        /\ d.kind = "multiple" => Verdict(m, d.error)
        /\ d.kind = "compensating" /\ PAYLOAD_SIZE <= 44 => ~ Verdict(m, d.error)
    BY <1>1, <1>4, CrcVerdicts
  <2> QED
    BY <1>1, <2>1, <2>2 DEF m, d
<1> QED
  BY <1>2, <1>3, <1>4

\* What was just verified is a message of the sender, hit by one of the errors or by
\* none, and the verdict is the one of verify_fcs.
THEOREM LastIsGood == Spec => [](IInv /\ LastOK)
<1>1. Init => IInv /\ LastOK
  BY InitInv, LastInv
<1>2. IInv /\ LastOK /\ [Next]_vars => (IInv /\ LastOK)'
  BY NextInv, LastInv
<1> QED
  BY <1>1, <1>2, PTL DEF Spec

\* For every file, size of the payload and number of hits, each verdict on a frame that
\* was hit by an error that is injected, or by none, is the one that long division of the
\* error, or the sum of the words of the frame, gives.
THEOREM VerdictsAlgebraic == Spec => []VerdictsAreAlgebraic
<1>1. IInv /\ LastOK => VerdictsAreAlgebraic
  <2> SUFFICES ASSUME IInv, LastOK, last # Nothing PROVE VerdictsAreAlgebraic
    BY DEF VerdictsAreAlgebraic
  <2>1. /\ Algebraic(last.message, last.damage.error)
        /\ last.accepted <=> Verdict(last.message, last.damage.error)
    BY VerdictOfLast
  <2> QED
    BY <2>1 DEF VerdictsAreAlgebraic, Algebraic, Arrived
<1> QED
  BY <1>1, LastIsGood, PTL

\* A flipped bit is noticed wherever it is, but by the checksum in the byte that it does
\* not look at; a solid burst of the degree of the CRC, or one bit longer, is noticed
\* wherever it begins.
THEOREM FlipsAndBurstsNoticed ==
    Spec => [](/\ Verified("flip") =>
                    (last.accepted <=> \E i \in last.damage.error : Unchecked(i))
               /\ Verified("burst") => ~ last.accepted)
<1>1. IInv /\ LastOK =>
        /\ Verified("flip") => (last.accepted <=> \E i \in last.damage.error : Unchecked(i))
        /\ Verified("burst") => ~ last.accepted
  BY VerdictOfLast DEF Verified
<1> QED
  BY <1>1, LastIsGood, PTL

\* With payloads no longer than those of frame.h a CRC also notices the two opposite
\* flips in one column that the checksum does not.
THEOREM DamageNoticed ==
    ASSUME PAYLOAD_SIZE <= 44
    PROVE  Spec => []DamageIsNoticed
<1>1. IInv /\ LastOK => DamageIsNoticed
  BY VerdictOfLast DEF DamageIsNoticed, Verified
<1> QED
  BY <1>1, LastIsGood, PTL

\* Opposite flips in one column always pass the checksum, and the generator laid over the
\* frame always passes its CRC; the all-zero array that eval_main tries never passes.
THEOREM BlindSpotsRemain == Spec => []BlindSpots
<1>1. IInv /\ LastOK => BlindSpots
  BY VerdictOfLast, NoAllZeroBlindSpot DEF BlindSpots, Verified
<1> QED
  BY <1>1, LastIsGood, PTL

=============================================================================
