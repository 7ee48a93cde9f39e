---------------------------- MODULE NumberLemmas ----------------------------
(***************************************************************************)
(* Facts about natural numbers that the proofs about several components    *)
(* rest on.                                                                *)
(***************************************************************************)
EXTENDS Integers, WellFoundedInduction, TLAPS

\* A nonempty set of natural numbers has a least element: what Min of a set of outstanding
\* frames or of remaining times computes.
LEMMA LeastElement ==
    ASSUME NEW S, S \subseteq Nat, S # {}
    PROVE  \E x \in S : \A y \in S : x <= y
<1> DEFINE R == OpToRel(<, Nat)
<1>1. \A x, y \in Nat : <<y, x>> \in R <=> y < x
  BY DEF OpToRel
<1>2. IsWellFoundedOn(R, Nat)
  BY NatLessThanWellFounded
<1> HIDE DEF R
<1>3. PICK x \in S : \A y \in S : ~ (<<y, x>> \in R)
  BY <1>2, WFMin
<1>4. ASSUME NEW y \in S PROVE x <= y
  <2>1. x \in Nat /\ y \in Nat
    OBVIOUS
  <2>2. ~ (y < x)
    BY <2>1, <1>1, <1>3
  <2> QED
    BY <2>1, <2>2
<1> QED
  BY <1>4

\* Two numbers less than N apart have different residues, as the frames of a window
\* have different slots in a store or buffer that is no smaller.
LEMMA DistinctResidues ==
    ASSUME NEW N \in Nat \ {0}, NEW k \in Nat, NEW n \in Nat, k < n, n - k < N
    PROVE  k % N # n % N
<1> DEFINE a == k \div N
           b == n \div N
<1>1. a \in Nat /\ k = N * a + (k % N)
  OBVIOUS
<1>2. b \in Nat /\ n = N * b + (n % N)
  OBVIOUS
<1>3. ASSUME k % N = n % N PROVE FALSE
  <2> DEFINE c == b - a
  <2>1. c \in Int /\ n - k = N * c
    BY <1>1, <1>2, <1>3
  <2> HIDE DEF c, a, b
  <2>2. c >= 1 => N * c >= N
    BY <2>1
  <2>3. c <= 0 => N * c <= 0
    BY <2>1
  <2> QED
    BY <2>1, <2>2, <2>3
<1> QED
  BY <1>3

\* Induction up to n: what holds at 0 and is passed on by each number holds everywhere.
LEMMA InductionUpTo ==
    ASSUME NEW n \in Nat, NEW S, 0 \in S, \A k \in 1 .. n : k - 1 \in S => k \in S
    PROVE  0 .. n \subseteq S
<1> DEFINE Missing == {k \in 0 .. n : k \notin S}
<1>1. SUFFICES ASSUME Missing # {} PROVE FALSE
  OBVIOUS
<1>2. PICK m \in Missing : \A k \in Missing : m <= k
  <2>1. Missing \subseteq Nat
    OBVIOUS
  <2> HIDE DEF Missing
  <2> QED
    BY <1>1, <2>1, LeastElement
<1>3. m \in 1 .. n /\ m - 1 \in 0 .. n
  OBVIOUS
<1>4. m - 1 \in S
  <2>1. ~ (m <= m - 1)
    BY <1>3
  <2> QED
    BY <1>2, <1>3, <2>1
<1> QED
  BY <1>3, <1>4

\* f is what step makes of init in so many turns.
Runs(f, n, V, init, step) ==
    /\ f \in [0 .. n -> V]
    /\ f[0] = init /\ \A k \in 1 .. n : f[k] = step[k][f[k - 1]]

\* A function defined by recursion on its argument, as the running register or sum of a
\* loop over an array is, exists.
LEMMA Recursion ==
    ASSUME NEW n \in Nat, NEW V, NEW init \in V, NEW step \in [Nat -> [V -> V]]
    PROVE  \E f : Runs(f, n, V, init, step)
<1> DEFINE Good(f, m) ==
              /\ f \in [0 .. m -> V]
              /\ f[0] = init /\ \A k \in 1 .. m : f[k] = step[k][f[k - 1]]
           S == {m \in Nat : \E f \in [0 .. m -> V] : Good(f, m)}
<1>1. 0 \in S
  <2>1. Good([k \in 0 .. 0 |-> init], 0)
    OBVIOUS
  <2> QED
    BY <2>1
<1>2. ASSUME NEW m \in 1 .. n, m - 1 \in S PROVE m \in S
  <2>1. PICK f \in [0 .. m - 1 -> V] : Good(f, m - 1)
    BY <1>2
  <2> DEFINE last == step[m][f[m - 1]]
             g == [k \in 0 .. m |-> IF k = m THEN last ELSE f[k]]
  <2>2. last \in V
    BY <2>1
  <2> HIDE DEF last
  <2>3. g \in [0 .. m -> V]
    BY <2>1, <2>2
  <2>4. g[0] = init
    BY <2>1
  <2>5. ASSUME NEW k \in 1 .. m PROVE g[k] = step[k][g[k - 1]]
    <3>1. CASE k = m
      <4>1. g[k] = last /\ g[k - 1] = f[m - 1]
        BY <3>1
      <4> QED
        BY <3>1, <4>1 DEF last
    <3>2. CASE k # m
      <4>1. k \in 1 .. m - 1
        BY <3>2
      <4>2. g[k] = f[k] /\ g[k - 1] = f[k - 1]
        BY <4>1
      <4> QED
        BY <2>1, <4>1, <4>2
    <3> QED
      BY <3>1, <3>2
  <2> HIDE DEF g
  <2>6. m \in Nat /\ Good(g, m)
    BY <2>3, <2>4, <2>5
  <2> QED
    BY <2>6
<1> HIDE DEF S
<1>3. \A k \in 1 .. n : k - 1 \in S => k \in S
  BY <1>2
<1>4. 0 .. n \subseteq S
  BY <1>1, <1>3, InductionUpTo
<1>5. n \in S
  BY <1>4
<1>6. PICK f \in [0 .. n -> V] : Good(f, n)
  BY <1>5 DEF S
<1> QED
  BY <1>6 DEF Runs

=============================================================================
