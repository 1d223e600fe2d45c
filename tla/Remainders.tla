----------------------------- MODULE Remainders -----------------------------
(***************************************************************************)
(* What the proofs about rings and wrapping counters use of % : quotient   *)
(* and remainder, which the prover's arithmetic knows only by definition.  *)
(***************************************************************************)
EXTENDS Integers, TLAPS

\* Quotient and remainder are unique.
LEMMA ModUnique ==
  ASSUME NEW L \in Nat \ {0}, NEW a \in Int, NEW r \in 0..(L - 1)
  PROVE  (a * L + r) % L = r
<1> DEFINE y == a * L + r
           b == y \div L
           s == y % L
           d == a - b
<1>1. y \in Int /\ b \in Int /\ s \in 0..(L - 1) /\ y = b * L + s  OBVIOUS
<1> HIDE DEF b, s
<1>2. d * L = s - r /\ d \in Int  BY <1>1
<1> HIDE DEF d, y
<1>3. ~(d >= 1)
  <2> SUFFICES ASSUME d >= 1 PROVE FALSE  OBVIOUS
  <2>1. d * L >= L  BY <1>2
  <2> QED  BY <2>1, <1>1, <1>2
<1>4. ~(d <= -1)
  <2> SUFFICES ASSUME d <= -1 PROVE FALSE  OBVIOUS
  <2>1. d * L <= -L  BY <1>2
  <2> QED  BY <2>1, <1>1, <1>2
<1>5. d = 0  BY <1>2, <1>3, <1>4
<1>6. s = r  BY <1>1, <1>2, <1>5
<1> QED  BY <1>6 DEF s, y

\* Multiples of the modulus drop out of a sum.
LEMMA ModMultiple ==
  ASSUME NEW L \in Nat \ {0}, NEW x \in Int, NEW k \in Int
  PROVE  (x + k * L) % L = x % L
<1> DEFINE q == x \div L
           r == x % L
<1>1. q \in Int /\ r \in 0..(L - 1) /\ x = q * L + r  OBVIOUS
<1> HIDE DEF q, r
<1>2. x + k * L = (q + k) * L + r  BY <1>1
<1>3. ((q + k) * L + r) % L = r  BY <1>1, ModUnique
<1> QED  BY <1>2, <1>3 DEF r

\* A remainder may be taken before a sum.
LEMMA ModSum ==
  ASSUME NEW L \in Nat \ {0}, NEW x \in Int, NEW y \in Int
  PROVE  ((x % L) + y) % L = (x + y) % L
<1> DEFINE q == x \div L
           r == x % L
<1>1. q \in Int /\ r \in 0..(L - 1) /\ x = q * L + r  OBVIOUS
<1> HIDE DEF q, r
<1>2. x + y = (r + y) + q * L  BY <1>1
<1>3. r + y \in Int  BY <1>1
<1>4. ((r + y) + q * L) % L = (r + y) % L  BY <1>1, <1>3, ModMultiple
<1> QED  BY <1>2, <1>4 DEF r

\* An index less than twice around a ring, with the remainder resolved.
LEMMA ModAround ==
  ASSUME NEW L \in Nat \ {0}, NEW a \in 0..(2 * L - 1)
  PROVE  /\ a % L = IF a < L THEN a ELSE a - L
         /\ a % L \in 0..(L - 1)
<1>1. CASE a < L
  <2>1. a \in 0..(L - 1) /\ 0 * L + a = a  BY <1>1
  <2>2. (0 * L + a) % L = a  BY <2>1, ModUnique
  <2> QED  BY <1>1, <2>1, <2>2
<1>2. CASE a >= L
  <2>1. a - L \in 0..(L - 1) /\ 1 * L + (a - L) = a  BY <1>2
  <2>2. (1 * L + (a - L)) % L = a - L  BY <2>1, ModUnique
  <2> QED  BY <1>2, <2>1, <2>2
<1> QED  BY <1>1, <1>2

\* The quotient of a multiple and a remainder.
LEMMA DivUnique ==
  ASSUME NEW L \in Nat \ {0}, NEW a \in Int, NEW r \in 0..(L - 1)
  PROVE  (a * L + r) \div L = a
<1> DEFINE y == a * L + r
           b == y \div L
           s == y % L
<1>1. y \in Int /\ b \in Int /\ s \in 0..(L - 1) /\ y = b * L + s  OBVIOUS
<1>2. s = r  BY ModUnique
<1> HIDE DEF b, s
<1>3. y = a * L + r  OBVIOUS
<1> HIDE DEF y
<1>4. (a - b) * L = 0  BY <1>1, <1>2, <1>3
<1>5. a - b = 0
  <2> DEFINE d == a - b
  <2>1. d \in Int /\ d * L = 0  BY <1>1, <1>4
  <2> HIDE DEF d
  <2>2. d = 0
    <3>1. CASE d >= 1
      <4>1. d * L >= L  BY <2>1, <3>1
      <4> QED  BY <2>1, <4>1
    <3>2. CASE d <= -1
      <4>1. d * L <= -L  BY <2>1, <3>2
      <4> QED  BY <2>1, <4>1
    <3> QED  BY <2>1, <3>1, <3>2
  <2> QED  BY <2>2 DEF d
<1> QED  BY <1>1, <1>3, <1>5 DEF b
=============================================================================
