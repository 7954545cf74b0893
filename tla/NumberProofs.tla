---------------------------- MODULE NumberProofs ----------------------------
(***************************************************************************)
(* Lemmas about the conversions of numbers in Options, for every width     *)
(* that BitsAssumption allows: what range each returns, and that a number  *)
(* which the type of an option holds is read as it was written.            *)
(***************************************************************************)
EXTENDS Options, FiniteSetTheorems, WellFoundedInduction, TLAPS

-----------------------------------------------------------------------------
(* Facts about powers of two that the provers do not know: 2^n is the      *)
(* number of subsets of a set with n elements.                             *)

(* Every set of natural numbers that is not empty has a least element.     *)
LEMMA Least ==
  ASSUME NEW T \in SUBSET Nat, T # {}
  PROVE  \E m \in T : \A k \in T : m <= k
<1>1. PICK m \in T : \A k \in T : <<k, m>> \notin OpToRel(<, Nat)
  BY WFMin, NatLessThanWellFounded, Zenon
<1>2. \A k \in T : m \in Nat /\ k \in Nat /\ ~(k < m)
  BY <1>1 DEF OpToRel
<1> QED  BY <1>2

LEMMA PowerIsCard ==
  ASSUME NEW S, IsFiniteSet(S)
  PROVE  /\ 2 ^ Cardinality(S) = Cardinality(SUBSET S)
         /\ 2 ^ Cardinality(S) \in Nat \ {0}
<1>1. IsFiniteSet(SUBSET S) /\ Cardinality(SUBSET S) = 2 ^ Cardinality(S)
  BY FS_SUBSET
<1>2. Cardinality(SUBSET S) \in Nat /\ Cardinality(SUBSET S) # 0
  BY <1>1, FS_CardinalityType, FS_EmptySet
<1> QED  BY <1>1, <1>2

LEMMA PowerType == \A n \in Nat : 2 ^ n \in Nat \ {0}
<1> SUFFICES ASSUME NEW n \in Nat PROVE 2 ^ n \in Nat \ {0}
  OBVIOUS
<1>1. IsFiniteSet(1 .. n) /\ Cardinality(1 .. n) = n
  BY FS_Interval
<1> QED  BY <1>1, PowerIsCard

(* The subsets of two disjoint sets' union are pairs of subsets.           *)
LEMMA PowerAdd == \A m, n \in Nat : 2 ^ (m + n) = 2 ^ m * 2 ^ n
<1> SUFFICES ASSUME NEW m \in Nat, NEW n \in Nat
             PROVE  2 ^ (m + n) = 2 ^ m * 2 ^ n
  OBVIOUS
<1> DEFINE A == 1 .. m
           B == m + 1 .. m + n
           U == A \cup B
           f == [p \in (SUBSET A) \X (SUBSET B) |-> p[1] \cup p[2]]
<1>1. IsFiniteSet(A) /\ Cardinality(A) = m
  BY FS_Interval
<1>2. IsFiniteSet(B) /\ Cardinality(B) = n
  <2>1. m + 1 \in Int /\ m + n \in Int /\ (m + 1 > m + n <=> n = 0)
         /\ (m + n) - (m + 1) + 1 = n
    OBVIOUS
  <2> QED  BY <2>1, FS_Interval
<1>3. A \cap B = {}
  OBVIOUS
<1>4. IsFiniteSet(U) /\ Cardinality(U) = m + n
  <2>1. /\ IsFiniteSet(U)
        /\ Cardinality(U) = Cardinality(A) + Cardinality(B) - Cardinality(A \cap B)
    BY <1>1, <1>2, FS_Union
  <2>2. Cardinality(A \cap B) = 0
    BY <1>3, FS_EmptySet
  <2> QED  BY <1>1, <1>2, <2>1, <2>2
<1> HIDE DEF A, B
<1>5. f \in Bijection((SUBSET A) \X (SUBSET B), SUBSET U)
  <2>1. f \in [(SUBSET A) \X (SUBSET B) -> SUBSET U]
    OBVIOUS
  <2>2. ASSUME NEW p \in (SUBSET A) \X (SUBSET B), NEW q \in (SUBSET A) \X (SUBSET B), f[p] = f[q]
        PROVE  p = q
    <3>1. p[1] \cup p[2] = q[1] \cup q[2]
      BY <2>2
    <3>2. p[1] = q[1] /\ p[2] = q[2]
      BY <1>3, <3>1
    <3> QED  BY <3>2
  <2>3. ASSUME NEW s \in SUBSET U PROVE \E p \in (SUBSET A) \X (SUBSET B) : f[p] = s
    <3>1. <<s \cap A, s \cap B>> \in (SUBSET A) \X (SUBSET B)
      OBVIOUS
    <3>2. f[<<s \cap A, s \cap B>>] = s
      BY <3>1
    <3> QED  BY <3>1, <3>2
  <2> HIDE DEF f, U
  <2>4. f \in Injection((SUBSET A) \X (SUBSET B), SUBSET U)
    BY <2>1, <2>2, Zenon DEF Injection, IsInjective
  <2>5. f \in Surjection((SUBSET A) \X (SUBSET B), SUBSET U)
    BY <2>1, <2>3, Zenon DEF Surjection
  <2> QED  BY <2>4, <2>5, Zenon DEF Bijection
<1>6. /\ IsFiniteSet(SUBSET A) /\ IsFiniteSet(SUBSET B)
      /\ Cardinality(SUBSET A) = 2 ^ m /\ Cardinality(SUBSET B) = 2 ^ n
      /\ Cardinality(SUBSET U) = 2 ^ (m + n)
  BY <1>1, <1>2, <1>4, FS_SUBSET
<1>7. /\ IsFiniteSet((SUBSET A) \X (SUBSET B))
      /\ Cardinality((SUBSET A) \X (SUBSET B)) = 2 ^ m * 2 ^ n
  BY <1>6, FS_Product
<1>8. Cardinality(SUBSET U) = Cardinality((SUBSET A) \X (SUBSET B))
  BY <1>5, <1>7, FS_Bijection DEF ExistsBijection
<1> QED  BY <1>6, <1>7, <1>8

LEMMA PowerZero == 2 ^ 0 = 1 /\ 2 ^ 1 = 2
<1>1. 2 ^ 0 = Cardinality({{}})
  <2>1. SUBSET {} = {{}}
    OBVIOUS
  <2> QED  BY <2>1, FS_EmptySet, PowerIsCard
<1>2. 2 ^ 0 = 1
  BY <1>1, FS_Singleton
<1>3. Cardinality({{}, {1}}) = 2
  <2>1. {{}, {1}} = {{}} \cup {{1}} /\ {1} \notin {{}}
    OBVIOUS
  <2>2. IsFiniteSet({{}}) /\ Cardinality({{}}) = 1
    BY FS_Singleton
  <2>3. Cardinality({{}} \cup {{1}}) = IF {1} \in {{}} THEN 1 ELSE 1 + 1
    BY <2>2, FS_AddElement
  <2> QED  BY <2>1, <2>3
<1>4. 2 ^ 1 = Cardinality({{}, {1}})
  <2>1. SUBSET {1} = {{}, {1}}
    OBVIOUS
  <2>2. IsFiniteSet({1}) /\ Cardinality({1}) = 1
    BY FS_Singleton
  <2>3. 2 ^ Cardinality({1}) = Cardinality(SUBSET {1})
    BY <2>2, PowerIsCard
  <2> QED  BY <2>1, <2>2, <2>3
<1> QED  BY <1>2, <1>3, <1>4

LEMMA PowerGrows ==
  ASSUME NEW m \in Nat, NEW n \in Nat, m <= n
  PROVE  2 ^ m <= 2 ^ n
<1>1. n - m \in Nat /\ m + (n - m) = n
  OBVIOUS
<1>2. 2 ^ n = 2 ^ m * 2 ^ (n - m)
  BY <1>1, PowerAdd
<1> DEFINE a == 2 ^ m
           b == 2 ^ (n - m)
<1>3. a \in Nat \ {0} /\ b \in Nat \ {0}
  BY <1>1, PowerType
<1> HIDE DEF a, b
<1>4. a <= a * b
  BY <1>3
<1> QED  BY <1>2, <1>4 DEF a, b

-----------------------------------------------------------------------------
(* The conversions.                                                        *)

(* The powers the conversions use: IntBits <= SafeBits < WordBits - 1.     *)
LEMMA Bits ==
  /\ IntBits \in Nat /\ SafeBits \in Nat /\ WordBits \in Nat
  /\ 1 < IntBits /\ IntBits <= SafeBits /\ SafeBits + 1 < WordBits
BY BitsAssumption

(* A power is even: it is twice the one before.                            *)
LEMMA PowerTwice == \A n \in Nat : n > 0 => 2 ^ n = 2 * 2 ^ (n - 1)
<1> SUFFICES ASSUME NEW n \in Nat, n > 0 PROVE 2 ^ n = 2 * 2 ^ (n - 1)
  OBVIOUS
<1>1. n - 1 \in Nat /\ 1 + (n - 1) = n
  OBVIOUS
<1>2. 2 ^ (1 + (n - 1)) = 2 ^ 1 * 2 ^ (n - 1)
  BY <1>1, PowerAdd
<1> QED  BY <1>1, <1>2, PowerZero

(* The least exponent that reaches n.                                      *)
Reaches(n, j) == n <= 2 ^ (SafeBits + j)
LeastReach(n, j) == Reaches(n, j) /\ \A i \in 0 .. j - 1 : ~Reaches(n, i)

LEMMA ReachTypes ==
  \A j \in 0 .. WordBits : SafeBits + j \in Nat /\ 2 ^ (SafeBits + j) \in Nat \ {0}
                             /\ 2 ^ j \in Nat \ {0}
                             /\ 2 ^ (SafeBits + j) = 2 ^ SafeBits * 2 ^ j
BY Bits, PowerType, PowerAdd

LEMMA UlpChoice ==
  ASSUME NEW n \in Int, NEW j \in 0 .. WordBits, LeastReach(n, j)
  PROVE  Ulp(n) = 2 ^ j
<1> DEFINE P(i) == /\ n <= 2 ^ (SafeBits + i)
                   /\ \A k \in 0 .. i - 1 : n > 2 ^ (SafeBits + k)
           c == CHOOSE i \in 0 .. WordBits : P(i)
<1>1. Ulp(n) = 2 ^ c
  BY DEF Ulp
<1>2. \A i \in 0 .. WordBits : P(i) <=> LeastReach(n, i)
  <2>1. \A k \in 0 .. WordBits : n > 2 ^ (SafeBits + k) <=> ~Reaches(n, k)
    BY ReachTypes DEF Reaches
  <2>2. \A i \in 0 .. WordBits : \A k \in 0 .. i - 1 : k \in 0 .. WordBits
    BY Bits
  <2> QED  BY <2>1, <2>2 DEF LeastReach, Reaches
<1>3. \E i \in 0 .. WordBits : P(i)
  BY <1>2
<1> HIDE DEF P
<1>4. c \in 0 .. WordBits /\ P(c)
  BY <1>3
<1> HIDE DEF c
<1>5. c = j
  <2>1. LeastReach(n, c)
    BY <1>2, <1>4
  <2>2. ~(c < j) /\ ~(j < c)
    BY <1>4, <2>1, Bits DEF LeastReach
  <2> QED  BY <1>4, <2>2, Bits
<1> QED  BY <1>1, <1>5

LEMMA ReachExists ==
  ASSUME NEW n \in Int, NEW k \in 0 .. WordBits, Reaches(n, k)
  PROVE  \E j \in 0 .. k : LeastReach(n, j)
<1> DEFINE T == {i \in 0 .. k : Reaches(n, i)}
<1>1. T \in SUBSET Nat /\ T # {}
  BY Bits
<1>2. PICK j \in T : \A i \in T : j <= i
  BY <1>1, Least
<1>3. \A i \in 0 .. j - 1 : i \in 0 .. k /\ ~(j <= i)
  BY <1>2, Bits
<1>4. LeastReach(n, j)
  BY <1>2, <1>3 DEF LeastReach
<1> QED  BY <1>2, <1>4

(* Numbers up to 2^SafeBits are exact.                                     *)
LEMMA SmallIsExact == \A n \in Int : n <= 2 ^ SafeBits => AsDouble(n) = n
BY DEF AsDouble

(* The greatest number of b bits, too long for a double, rounds up.        *)
LEMMA GreatestRounds ==
  ASSUME NEW b \in Nat, SafeBits < b, b <= WordBits
  PROVE  AsDouble(2 ^ b - 1) = 2 ^ b
<1> DEFINE n == 2 ^ b - 1
           j == b - SafeBits
           s == 2 ^ SafeBits
           h == 2 ^ (j - 1)
           u == 2 ^ j
<1>1. j \in 1 .. WordBits /\ SafeBits + j = b /\ SafeBits \in Nat /\ SafeBits >= 2
  BY Bits
<1>2. u = 2 * h /\ h \in Nat \ {0} /\ s \in Nat \ {0} /\ 2 ^ b = s * u
  BY <1>1, PowerTwice, PowerType, PowerAdd
<1>3. 2 ^ b = 2 * 2 ^ (b - 1) /\ 2 ^ (b - 1) \in Nat /\ 2 ^ (b - 1) >= 2
  <2>1. b > 0 /\ b - 1 \in Nat /\ 1 <= b - 1
    BY <1>1
  <2> QED  BY <2>1, PowerTwice, PowerType, PowerGrows, PowerZero
<1>4. n \in Int /\ n > 2 ^ (b - 1) /\ n <= 2 ^ b
  BY <1>3
<1>5. \A i \in 0 .. j - 1 : 2 ^ (SafeBits + i) \in Nat /\ 2 ^ (SafeBits + i) <= 2 ^ (b - 1)
  BY <1>1, PowerGrows, PowerType
<1> HIDE DEF n, j
<1>6. LeastReach(n, j)
  BY <1>1, <1>3, <1>4, <1>5 DEF LeastReach, Reaches
<1>7. Ulp(n) = u
  BY <1>1, <1>4, <1>6, UlpChoice
<1>8. ~(n <= s)
  <2>1. s <= 2 ^ (b - 1) /\ s \in Nat
    <3>1. SafeBits <= b - 1 /\ b - 1 \in Nat
      BY <1>1 DEF j
    <3> QED  BY <1>1, <3>1, PowerGrows, PowerType
  <2> QED  BY <1>3, <1>4, <2>1
<1>9. AsDouble(n) = ((n + u \div 2) \div u) * u
  BY <1>7, <1>8 DEF AsDouble
<1>10. n = s * u - 1
  BY <1>2 DEF n
<1> HIDE DEF s, h, u
<1>11. u \div 2 = h
  BY ONLY <1>2
<1>12. (s * u - 1 + h) \div u = s
  <2>1. s * u - 1 + h = u * s + (h - 1) /\ h - 1 \in 0 .. u - 1
    BY ONLY <1>2
  <2>2. u \in Nat \ {0} /\ s \in Int
    BY ONLY <1>2
  <2>3. \A q \in Int, r \in 0 .. u - 1 : (u * q + r) \div u = q
    BY ONLY <2>2
  <2> QED  BY ONLY <2>1, <2>2, <2>3
<1>13. AsDouble(n) = s * u
  BY <1>9, <1>10, <1>11, <1>12
<1> QED  BY <1>2, <1>13 DEF n

(* The distance at every number that the model has.                        *)
LEMMA UlpPositive ==
  ASSUME NEW n \in Int, n <= 2 ^ (SafeBits + WordBits)
  PROVE  \E j \in 0 .. WordBits : LeastReach(n, j) /\ Ulp(n) = 2 ^ j
<1>1. WordBits \in 0 .. WordBits /\ Reaches(n, WordBits)
  BY Bits DEF Reaches
<1> QED  BY <1>1, ReachExists, UlpChoice

LEMMA DoubleFacts ==
  \A n \in Doubles : n \in Int /\ n + 1 \in Int /\ n <= 2 ^ (SafeBits + WordBits)
                       /\ n + 1 <= 2 ^ (SafeBits + WordBits) /\ AsDouble(n) = n
<1>1. 2 ^ (SafeBits + WordBits) \in Nat
  BY Bits, PowerType
<1> QED  BY <1>1 DEF Doubles

(* NumberCast() stays below 2^WordBits: the next number up from one that   *)
(* is cast as it is does not exceed it.                                    *)
LEMMA CastRange == \A n \in Doubles : NumberCast(n) \in 0 .. 2 ^ WordBits - 1
<1> SUFFICES ASSUME NEW n \in Doubles PROVE NumberCast(n) \in 0 .. 2 ^ WordBits - 1
  OBVIOUS
<1>1. 2 ^ WordBits \in Nat \ {0} /\ AsDouble(2 ^ WordBits - 1) = 2 ^ WordBits
  BY Bits, PowerType, GreatestRounds
<1>2. PICK j \in 0 .. WordBits : Ulp(n + 1) = 2 ^ j
  BY DoubleFacts, UlpPositive
<1>3. NextUp(n) = n + 2 ^ j /\ 2 ^ j \in Nat \ {0} /\ n \in Int
  BY <1>2, ReachTypes, DoubleFacts DEF NextUp
<1>4. NextUp(n) <= 2 ^ WordBits => n <= 2 ^ WordBits - 1
  BY <1>1, <1>3
<1> QED  BY <1>1, <1>3, <1>4 DEF NumberCast

(* A double below 2^WordBits is a multiple of the distance to the next, so *)
(* that NumberCast() clamps none that fits.                                *)
LEMMA NextFits ==
  ASSUME NEW n \in Doubles, n < 2 ^ WordBits
  PROVE  NextUp(n) <= 2 ^ WordBits
<1>1. PICK j \in 0 .. WordBits : LeastReach(n + 1, j) /\ Ulp(n + 1) = 2 ^ j
  BY DoubleFacts, UlpPositive
<1>2. NextUp(n) = n + 2 ^ j /\ 2 ^ j \in Nat \ {0} /\ n \in Int /\ AsDouble(n) = n
  BY <1>1, ReachTypes, DoubleFacts DEF NextUp
<1>3. CASE j = 0
  BY <1>2, <1>3, PowerZero, PowerType, Bits
<1>4. CASE j # 0
  <2> DEFINE i == j - 1
             m == 2 ^ (SafeBits - 1)
             u == 2 ^ j
             k == 2 ^ (WordBits - SafeBits - j)
             s == 2 ^ SafeBits
  <2>1. i \in 0 .. j - 1 /\ i \in 0 .. WordBits /\ j \in Nat /\ j > 0
    BY <1>4, Bits
  <2>2. n + 1 > 2 ^ (SafeBits + i) /\ 2 ^ (SafeBits + i) \in Nat
    BY <1>1, <1>2, <2>1, ReachTypes DEF LeastReach, Reaches
  <2>3. 2 ^ (SafeBits + i) = m * u /\ m \in Nat \ {0} /\ s \in Nat \ {0}
    <3>1. SafeBits - 1 \in Nat /\ (SafeBits - 1) + j = SafeBits + i /\ j \in Nat
      BY <2>1, Bits
    <3> QED  BY <3>1, PowerAdd, PowerType, Bits
  <2>4. j <= WordBits - SafeBits
    <3>1. SUFFICES ASSUME WordBits - SafeBits < j PROVE FALSE
      BY Bits
    <3>2. WordBits - SafeBits \in 0 .. j - 1 /\ SafeBits + (WordBits - SafeBits) = WordBits
      BY <3>1, Bits
    <3>3. ~(n + 1 <= 2 ^ WordBits)
      BY <1>1, <3>2 DEF LeastReach, Reaches
    <3> QED  BY <1>2, <3>3, PowerType, Bits
  <2>5. 2 ^ WordBits = s * k * u /\ k \in Nat \ {0}
    <3>1. /\ WordBits - SafeBits - j \in Nat /\ j \in Nat /\ SafeBits \in Nat
          /\ SafeBits + (WordBits - SafeBits - j) \in Nat
          /\ (SafeBits + (WordBits - SafeBits - j)) + j = WordBits
      BY <2>1, <2>4, Bits
    <3>2. 2 ^ WordBits = 2 ^ (SafeBits + (WordBits - SafeBits - j)) * 2 ^ j
      BY <3>1, PowerAdd
    <3>3. 2 ^ (SafeBits + (WordBits - SafeBits - j)) = s * k
      BY <3>1, PowerAdd
    <3> QED  BY <3>1, <3>2, <3>3, PowerType
  <2>6. \E q \in Int : n = q * u
    <3>1. CASE n = m * u
      <4> HIDE DEF m, u
      <4> QED  BY <2>3, <3>1
    <3>2. CASE n # m * u
      <4>1. n > 2 ^ (SafeBits + i)
        BY <1>2, <2>2, <2>3, <3>2
      <4>2. LeastReach(n, j)
        <5>1. Reaches(n, j)
          BY <1>1, <1>2, ReachTypes DEF LeastReach, Reaches
        <5>2. ASSUME NEW h \in 0 .. j - 1 PROVE ~Reaches(n, h)
          <6>1. 2 ^ (SafeBits + h) <= 2 ^ (SafeBits + i) /\ 2 ^ (SafeBits + h) \in Nat
            <7>1. SafeBits + h \in Nat /\ SafeBits + i \in Nat /\ SafeBits + h <= SafeBits + i
              BY <2>1, Bits
            <7> QED  BY <7>1, PowerGrows, PowerType
          <6> QED  BY <1>2, <2>2, <4>1, <6>1 DEF Reaches
        <5> QED  BY <5>1, <5>2 DEF LeastReach
      <4>3. Ulp(n) = u
        BY <1>2, <4>2, UlpChoice
      <4>4. ~(n <= s)
        <5>1. s <= 2 ^ (SafeBits + i)
          <6>1. SafeBits + i \in Nat /\ SafeBits <= SafeBits + i
            BY <2>1, Bits
          <6> QED  BY <6>1, PowerGrows, Bits
        <5> QED  BY <1>2, <2>2, <2>3, <4>1, <5>1
      <4>5. n = ((n + u \div 2) \div u) * u
        BY <1>2, <4>3, <4>4 DEF AsDouble
      <4> DEFINE q == (n + u \div 2) \div u
      <4>6. q \in Int
        <5> HIDE DEF u
        <5> QED  BY <1>2 DEF u
      <4> QED  BY <4>5, <4>6
    <3> QED  BY <3>1, <3>2
  <2>7. PICK q \in Int : n = q * u
    BY <2>6
  <2> HIDE DEF m, u, k, s, i
  <2>8. u \in Nat \ {0}
    BY <1>2 DEF u
  <2>9. s * k \in Int /\ q * u < (s * k) * u
    BY <1>2, <2>3, <2>5, <2>7
  <2>10. q + 1 <= s * k
    BY ONLY <2>8, <2>9, q \in Int
  <2>11. (q + 1) * u <= (s * k) * u
    BY ONLY <2>8, <2>9, <2>10, q \in Int
  <2>12. n + u <= 2 ^ WordBits
    BY ONLY <2>5, <2>7, <2>8, <2>9, <2>11, q \in Int
  <2> QED  BY <1>2, <2>12 DEF u
<1> QED  BY <1>3, <1>4

-----------------------------------------------------------------------------
(* The other conversions, and reading back.                                *)

LEMMA IntPowers ==
  ASSUME NEW b \in Nat, 1 < b
  PROVE  /\ 2 ^ b \in Nat \ {0} /\ 2 ^ (b - 1) \in Nat \ {0}
         /\ 2 ^ b = 2 * 2 ^ (b - 1) /\ 2 ^ (b - 1) >= 2
<1>1. b > 0 /\ b - 1 \in Nat /\ 1 <= b - 1
  OBVIOUS
<1> QED  BY <1>1, PowerTwice, PowerType, PowerGrows, PowerZero

LEMMA Wrapped ==
  ASSUME NEW w \in Nat \ {0}, NEW n \in Int
  PROVE  n % w \in 0 .. w - 1 /\ (n \in 0 .. w - 1 => n % w = n)
<1>1. n % w \in 0 .. w - 1
  OBVIOUS
<1>2. \A r \in 0 .. w - 1 : r % w = r
  OBVIOUS
<1> QED  BY <1>1, <1>2

LEMMA Int32Range ==
  ASSUME NEW n \in Int
  PROVE  /\ ToInt32(n) \in -(2 ^ (IntBits - 1)) .. 2 ^ (IntBits - 1) - 1
         /\ n \in -(2 ^ (IntBits - 1)) .. 2 ^ (IntBits - 1) - 1 => ToInt32(n) = n
<1> DEFINE h == 2 ^ (IntBits - 1)
           w == 2 ^ IntBits
<1>1. w \in Nat \ {0} /\ h \in Nat \ {0} /\ w = 2 * h
  BY Bits, IntPowers
<1>2. ToInt32(n) = ((n + h) % w) - h
  BY DEF ToInt32
<1> HIDE DEF h, w
<1>3. n + h \in Int
  BY <1>1
<1>4. (n + h) % w \in 0 .. w - 1 /\ (n + h \in 0 .. w - 1 => (n + h) % w = n + h)
  BY <1>1, <1>3, Wrapped
<1> DEFINE r == (n + h) % w
<1> HIDE DEF r
<1>5. r \in 0 .. w - 1 /\ (n + h \in 0 .. w - 1 => r = n + h) /\ ToInt32(n) = r - h
  BY <1>2, <1>4 DEF r
<1>6. /\ ToInt32(n) \in -h .. h - 1
      /\ n \in -h .. h - 1 => ToInt32(n) = n
  BY <1>1, <1>5
<1> QED  BY <1>6 DEF h

LEMMA Uint32Range ==
  ASSUME NEW n \in Int
  PROVE  /\ ToUint32(n) \in 0 .. 2 ^ IntBits - 1
         /\ n \in 0 .. 2 ^ IntBits - 1 => ToUint32(n) = n
BY Bits, IntPowers, Wrapped DEF ToUint32

LEMMA Int64Range ==
  ASSUME NEW n \in Int
  PROVE  ToInt64(n) \in -(2 ^ (WordBits - 1)) .. 2 ^ (WordBits - 1) - 1
<1> DEFINE h == 2 ^ (WordBits - 1)
<1>1. h \in Nat \ {0}
  BY Bits, IntPowers
<1>2. ToInt64(n) = IF n >= h THEN h - 1 ELSE IF n < -h THEN -h ELSE n
  BY DEF ToInt64
<1> HIDE DEF h
<1>3. ToInt64(n) \in -h .. h - 1
  BY <1>1, <1>2
<1> QED  BY <1>3 DEF h

NumberTypes == {"Int32", "Uint32", "Int64", "Uint64"}

(* A number that the type holds is read as it was written.                 *)
LEMMA ReadBack ==
  ASSUME NEW o, o.type \in NumberTypes, NEW x, x.v \in Doubles, Holds(o, x.v)
  PROVE  AsDouble(Stored(o.type, x)) = IF o.type = "Uint64" /\ x.v < 0 THEN 0 ELSE x.v
<1> DEFINE n == x.v
<1>1. n \in Int /\ AsDouble(n) = n
  BY DoubleFacts
<1>2. 2 ^ IntBits \in Nat /\ 2 ^ IntBits <= 2 ^ SafeBits /\ 2 ^ SafeBits \in Nat
  BY Bits, PowerGrows, PowerType
<1>3. 2 ^ (IntBits - 1) \in Nat /\ 2 ^ (WordBits - 1) \in Nat /\ 2 ^ WordBits \in Nat
  BY Bits, IntPowers
<1>4. CASE o.type = "Int32"
  <2>1. n \in -(2 ^ (IntBits - 1)) .. 2 ^ (IntBits - 1) - 1
    BY <1>1, <1>3, <1>4 DEF Holds
  <2>2. Stored(o.type, x) = n
    BY <1>1, <1>4, <2>1, Int32Range DEF Stored
  <2> QED  BY <1>1, <1>4, <2>2
<1>5. CASE o.type = "Uint32"
  <2>1. n \in 0 .. 2 ^ IntBits - 1
    BY <1>1, <1>2, <1>5 DEF Holds
  <2>2. Stored(o.type, x) = n
    BY <1>1, <1>5, <2>1, Uint32Range DEF Stored
  <2> QED  BY <1>1, <1>5, <2>2
<1>6. CASE o.type = "Int64"
  <2> DEFINE h == 2 ^ (WordBits - 1)
  <2>1. n >= -h /\ n <= h /\ h \in Nat
    BY <1>3, <1>6 DEF Holds
  <2>2. AsDouble(h - 1) = h
    <3>1. WordBits - 1 \in Nat /\ SafeBits < WordBits - 1 /\ WordBits - 1 <= WordBits
      BY Bits
    <3> QED  BY <3>1, GreatestRounds
  <2>3. Stored(o.type, x) = IF n >= h THEN h - 1 ELSE IF n < -h THEN -h ELSE n
    BY <1>6 DEF Stored, ToInt64
  <2> HIDE DEF h
  <2>4. CASE n = h
    BY <1>6, <2>1, <2>2, <2>3, <2>4
  <2>5. CASE n # h
    <3>1. ~(n >= h) /\ ~(n < -h)
      BY <1>1, <2>1, <2>5
    <3> QED  BY <1>1, <1>6, <2>3, <3>1
  <2> QED  BY <2>4, <2>5
<1>7. CASE o.type = "Uint64"
  <2>1. Stored(o.type, x) = NumberCast(n) /\ n <= 2 ^ WordBits
    BY <1>7 DEF Stored, Holds
  <2>2. AsDouble(2 ^ WordBits - 1) = 2 ^ WordBits
    BY Bits, GreatestRounds
  <2>3. CASE n < 0
    BY <1>2, <1>7, <2>1, <2>3, SmallIsExact DEF NumberCast
  <2>4. CASE n >= 0 /\ n < 2 ^ WordBits
    <3>1. NextUp(n) <= 2 ^ WordBits
      BY <2>4, NextFits
    <3>2. NextUp(n) \in Int
      <4>1. PICK j \in 0 .. WordBits : Ulp(n + 1) = 2 ^ j
        BY DoubleFacts, UlpPositive
      <4> QED  BY <1>1, <4>1, ReachTypes DEF NextUp
    <3>3. ~(n < 0) /\ ~(NextUp(n) > 2 ^ WordBits)
      BY <1>1, <1>3, <2>4, <3>1, <3>2
    <3>4. NumberCast(n) = n
      BY <2>2, <3>3 DEF NumberCast
    <3> QED  BY <1>1, <1>7, <2>1, <3>3, <3>4
  <2>5. CASE n = 2 ^ WordBits
    <3>1. PICK j \in 0 .. WordBits : Ulp(n + 1) = 2 ^ j
      BY DoubleFacts, UlpPositive
    <3>2. NextUp(n) > 2 ^ WordBits /\ ~(n < 0)
      BY <1>1, <1>3, <2>5, <3>1, ReachTypes DEF NextUp
    <3>3. NumberCast(n) = 2 ^ WordBits - 1
      BY <2>2, <3>2 DEF NumberCast
    <3> QED  BY <1>7, <2>1, <2>2, <2>5, <3>2, <3>3
  <2> QED  BY <1>1, <1>3, <2>1, <2>3, <2>4, <2>5
<1> QED  BY <1>4, <1>5, <1>6, <1>7 DEF NumberTypes
=============================================================================
