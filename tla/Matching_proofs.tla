-------------------------- MODULE Matching_proofs --------------------------
(***************************************************************************)
(* Proofs about what the matching algorithm computes, for any names, rows  *)
(* and tokens.  None is about a state of the system.                       *)
(***************************************************************************)
EXTENDS Matching, FiniteSetTheorems, SequenceTheorems, WellFoundedInduction, TLAPS

-----------------------------------------------------------------------------
(* The score of a name, for any names, ground truth and tokens.            *)

LEMMA CardinalitySub ==
    ASSUME NEW S, NEW T, IsFiniteSet(T), S \subseteq T
    PROVE  /\ Cardinality(S) \in Nat /\ Cardinality(T) \in Nat
           /\ Cardinality(S) <= Cardinality(T)
           /\ Cardinality(S) = Cardinality(T) => S = T
BY FS_Subset, FS_CardinalityType

\* A quotient that is not below f has a numerator of at least f divisors.
LEMMA Quotient ==
    ASSUME NEW x \in Nat, NEW d \in Nat \ {0}
    PROVE  /\ x \div d \in Nat
           /\ (x \div d) * d <= x
OBVIOUS

LEMMA Cancel ==
    ASSUME NEW f \in Nat \ {0}, NEW a \in Nat, NEW b \in Nat, f * a <= f * b
    PROVE  a <= b
OBVIOUS

\* A product reaches another only if no factor is smaller.
LEMMA Squeeze ==
    ASSUME NEW c \in Nat \ {0}, NEW k \in Nat, NEW t \in Nat, NEW g \in Nat,
           c <= k, k <= t, c <= g, g * t * t <= c * c * k
    PROVE  c = t /\ c = g
<1>1. c * (t * t) <= g * (t * t)
  OBVIOUS
<1>2. c * (t * t) <= c * (c * k)
  BY <1>1
<1>3. t * t <= c * k
  BY <1>2, Cancel
<1>4. c * k <= c * t
  OBVIOUS
<1>5. t <= c
  BY <1>3, <1>4
<1>6. c = t /\ k = t
  BY <1>5
<1>7. (t * t) * g <= (t * t) * t
  BY <1>6
<1>8. g <= t
  BY <1>6, <1>7, Cancel
<1> QED
  BY <1>6, <1>8

\* The numbers a score is made of: tokens in common, known ones, all of them,
\* and those of the ground truth row.
LEMMA Counts ==
    ASSUME NEW n \in Name, NEW g \in GtRow
    PROVE  LET c == Cardinality(Tokens[n] \cap Tokens[g])
               k == Cardinality(Tokens[n] \cap Vocabulary)
               t == Cardinality(Tokens[n])
               r == Cardinality(Tokens[g])
           IN  /\ c \in Nat /\ k \in Nat /\ t \in Nat /\ r \in Nat
               /\ c <= k /\ k <= t /\ c <= r
               /\ c = t /\ c = r => Tokens[n] = Tokens[g]
<1>1. IsFiniteSet(Tokens[n]) /\ IsFiniteSet(Tokens[g])
  BY MatchingAssumption
<1>2. Tokens[n] \cap Tokens[g] \subseteq Tokens[n] \cap Vocabulary
  BY DEF Vocabulary
<1>3. IsFiniteSet(Tokens[n] \cap Vocabulary)
  BY <1>1, FS_Intersection
<1>4. Cardinality(Tokens[n] \cap Tokens[g]) <= Cardinality(Tokens[n] \cap Vocabulary)
  BY <1>2, <1>3, CardinalitySub
<1>5. /\ Tokens[n] \cap Vocabulary \subseteq Tokens[n]
      /\ Tokens[n] \cap Tokens[g] \subseteq Tokens[n]
      /\ Tokens[n] \cap Tokens[g] \subseteq Tokens[g]
  OBVIOUS
<1> QED
  BY <1>1, <1>4, <1>5, CardinalitySub

\* A name scores in full with a row of the ground truth only if both have the
\* same tokens: what pre_match_nm scales by the share of known tokens is not
\* lost in the cosine.  This is the score that rows are selected by, before it
\* is rounded for the answer.
THEOREM FullIsSameTokens ==
    ASSUME NEW n \in Name, NEW g \in GtRow, Score(n, g) = Full
    PROVE  Tokens[n] = Tokens[g]
<1> DEFINE c == Cardinality(Tokens[n] \cap Tokens[g])
           k == Cardinality(Tokens[n] \cap Vocabulary)
           t == Cardinality(Tokens[n])
           r == Cardinality(Tokens[g])
<1>1. Full \in Nat \ {0}
  BY MatchingAssumption
<1>2. Score(n, g) = IF c = 0 THEN 0 ELSE (Full * c * c * k) \div (r * t * t)
  BY DEF Score
<1>3. /\ c \in Nat /\ k \in Nat /\ t \in Nat /\ r \in Nat
      /\ c <= k /\ k <= t /\ c <= r
      /\ c = t /\ c = r => Tokens[n] = Tokens[g]
  BY Counts
<1> HIDE DEF c, k, t, r
<1>4. c # 0
  BY <1>1, <1>2
<1>5. Full * (r * t * t) <= Full * (c * c * k)
  <2>1. /\ Full * c * c * k \in Nat /\ r * t * t \in Nat \ {0}
        /\ Full * c * c * k = Full * (c * c * k)
    BY <1>1, <1>3, <1>4
  <2>2. (Full * c * c * k) \div (r * t * t) = Full
    BY <1>2, <1>4
  <2> QED
    BY <1>1, <2>1, <2>2, Quotient
<1>6. r * t * t <= c * c * k
  BY <1>1, <1>3, <1>5, Cancel
<1> QED
  BY <1>3, <1>4, <1>6, Squeeze

\* A score is between nothing and that of two equal names.
LEMMA ScoreInRange ==
    ASSUME NEW n \in Name, NEW g \in GtRow
    PROVE  Score(n, g) \in 0 .. Full
<1> DEFINE c == Cardinality(Tokens[n] \cap Tokens[g])
           k == Cardinality(Tokens[n] \cap Vocabulary)
           t == Cardinality(Tokens[n])
           r == Cardinality(Tokens[g])
<1>1. Full \in Nat \ {0}
  BY MatchingAssumption
<1>2. Score(n, g) = IF c = 0 THEN 0 ELSE (Full * c * c * k) \div (r * t * t)
  BY DEF Score
<1>3. c \in Nat /\ k \in Nat /\ t \in Nat /\ r \in Nat /\ c <= k /\ k <= t /\ c <= r
  BY Counts
<1> HIDE DEF c, k, t, r
<1>4. CASE c = 0
  BY <1>1, <1>2, <1>4
<1>5. CASE c # 0
  <2> DEFINE d == r * t * t
             x == Full * c * c * k
  <2>1. x \in Nat /\ d \in Nat \ {0} /\ x = Full * (c * c * k)
    BY <1>1, <1>3, <1>5
  <2>2. c * c * k <= d
    <3>1. c * c <= r * t
      BY <1>3
    <3>2. (c * c) * k <= (r * t) * k /\ (r * t) * k <= (r * t) * t
      BY <1>3, <3>1
    <3> QED
      BY <1>3, <3>2
  <2>3. x <= Full * d
    BY <1>1, <1>3, <2>1, <2>2
  <2>4. x \div d \in Nat /\ (x \div d) * d <= x
    BY <2>1, Quotient
  <2>5. d * (x \div d) <= d * Full
    BY <1>1, <2>1, <2>3, <2>4
  <2>6. x \div d <= Full
    BY <1>1, <2>1, <2>4, <2>5, Cancel
  <2> QED
    BY <1>1, <1>2, <1>5, <2>4, <2>6
<1> QED
  BY <1>4, <1>5

-----------------------------------------------------------------------------
(* The score that is reported.                                             *)

\* r is one of the steps that the rounding of s reaches.
Reached(r, s) == LET half == (2 * r - 1) * (2 * r - 1) * Full
                     root == 4 * Unit * Unit * s
                 IN  half < root \/ (half = root /\ r % 2 = 0)

StepsTo(s) == {r \in 1 .. Unit : Reached(r, s)}

LEMMA Times ==
    ASSUME NEW u \in Nat \ {0}, NEW s \in Nat, NEW t \in Nat, s < t
    PROVE  u * s < u * t
OBVIOUS

\* What is rounded is between 0 and 1, and a better score is not reported as
\* a worse one.
LEMMA RoundedKeepsOrder ==
    ASSUME NEW s \in Nat, NEW t \in Nat
    PROVE  /\ Rounded(s) \in 0 .. Unit
           /\ s <= t => Rounded(s) <= Rounded(t)
<1>1. Unit \in Nat \ {0} /\ Full \in Nat \ {0}
  BY MatchingAssumption
<1>2. \A x \in Nat : Rounded(x) = Cardinality(StepsTo(x)) /\ StepsTo(x) \subseteq 1 .. Unit
  BY DEF Rounded, StepsTo, Reached
<1>3. IsFiniteSet(1 .. Unit) /\ Cardinality(1 .. Unit) = Unit
  BY <1>1, FS_Interval
<1>4. Rounded(s) \in 0 .. Unit
  BY <1>1, <1>2, <1>3, CardinalitySub
<1>5. ASSUME s <= t PROVE Rounded(s) <= Rounded(t)
  <2>1. CASE s = t
    BY <1>1, <1>4, <2>1
  <2>2. CASE s < t
    <3>1. ASSUME NEW r \in 1 .. Unit, Reached(r, s) PROVE Reached(r, t)
      <4> DEFINE u == 4 * Unit * Unit
                 half == (2 * r - 1) * (2 * r - 1) * Full
      <4>1. u \in Nat \ {0}
        BY <1>1
      <4>2. half \in Int
        BY <1>1
      <4>3. Reached(r, s) => half <= u * s
        BY <1>1, <4>1, <4>2 DEF Reached
      <4>4. half < u * t => Reached(r, t)
        BY DEF Reached
      <4> HIDE DEF u, half
      <4>5. u * s < u * t /\ u * s \in Int /\ u * t \in Int
        BY <2>2, <4>1, Times
      <4> QED
        BY <3>1, <4>2, <4>3, <4>4, <4>5
    <3>2. StepsTo(s) \subseteq StepsTo(t)
      BY <3>1 DEF StepsTo
    <3>3. IsFiniteSet(StepsTo(t))
      BY <1>2, <1>3, FS_Subset
    <3> QED
      BY <1>2, <3>2, <3>3, CardinalitySub
  <2> QED
    BY <1>5, <2>1, <2>2
<1> QED
  BY <1>4, <1>5

\* A score is reported as 1 only if its root is at most half a step below.
LEMMA RoundedToOne ==
    ASSUME NEW s \in Nat, Rounded(s) = Unit
    PROVE  (2 * Unit - 1) * (2 * Unit - 1) * Full <= 4 * Unit * Unit * s
<1>1. Unit \in Nat \ {0} /\ Full \in Nat \ {0}
  BY MatchingAssumption
<1>2. Rounded(s) = Cardinality(StepsTo(s)) /\ StepsTo(s) \subseteq 1 .. Unit
  BY DEF Rounded, StepsTo, Reached
<1>3. IsFiniteSet(1 .. Unit) /\ Cardinality(1 .. Unit) = Unit
  BY <1>1, FS_Interval
<1>4. StepsTo(s) = 1 .. Unit
  BY <1>2, <1>3, CardinalitySub
<1>5. Reached(Unit, s)
  BY <1>1, <1>4 DEF StepsTo
<1> DEFINE half == (2 * Unit - 1) * (2 * Unit - 1) * Full
           root == 4 * Unit * Unit * s
<1>6. half < root \/ half = root
  BY <1>5 DEF Reached
<1>7. half \in Int /\ root \in Int
  BY <1>1
<1> HIDE DEF half, root
<1>8. half <= root
  BY <1>6, <1>7
<1> QED
  BY <1>8 DEF half, root

\* One token in t that counts for nothing costs more than the rounding gives
\* back, unless t is large.
LEMMA UnknownCosts ==
    ASSUME NEW f \in Nat \ {0}, NEW u \in Nat \ {0}, NEW s \in Nat,
           NEW t \in Nat \ {0}, NEW k \in Nat, k < t,
           s * (t * t) <= f * (k * k),
           (2 * u - 1) * (2 * u - 1) * f <= 4 * u * u * s
    PROVE  2 * u <= t
<1> DEFINE a == 2 * u - 1
           b == 2 * u
<1>1. a \in Nat /\ b \in Nat \ {0} /\ b = a + 1
  OBVIOUS
<1>2. f * (a * a) <= (b * b) * s
  BY <1>1
<1> HIDE DEF a, b
<1>3. (f * (a * a)) * (t * t) <= ((b * b) * s) * (t * t)
  <2> DEFINE x == f * (a * a)
             y == (b * b) * s
             z == t * t
  <2>1. x \in Nat /\ y \in Nat /\ z \in Nat /\ x <= y
    BY <1>1, <1>2
  <2> HIDE DEF x, y, z
  <2>2. x * z <= y * z
    BY <2>1
  <2> QED
    BY <2>2 DEF x, y, z
<1>4. (b * b) * (s * (t * t)) <= (b * b) * (f * (k * k))
  <2> DEFINE x == s * (t * t)
             y == f * (k * k)
             z == b * b
  <2>1. x \in Nat /\ y \in Nat /\ z \in Nat /\ x <= y
    BY <1>1
  <2> HIDE DEF x, y, z
  <2>2. z * x <= z * y
    BY <2>1
  <2> QED
    BY <2>2 DEF x, y, z
<1>5. f * ((a * t) * (a * t)) <= f * ((b * k) * (b * k))
  <2>1. /\ f * ((a * t) * (a * t)) = (f * (a * a)) * (t * t)
        /\ ((b * b) * s) * (t * t) = (b * b) * (s * (t * t))
        /\ (b * b) * (f * (k * k)) = f * ((b * k) * (b * k))
    BY <1>1
  <2> DEFINE w == (f * (a * a)) * (t * t)
             x == ((b * b) * s) * (t * t)
             y == (b * b) * (s * (t * t))
             z == (b * b) * (f * (k * k))
  <2>2. w \in Int /\ x \in Int /\ y \in Int /\ z \in Int
    BY <1>1
  <2>3. w <= x /\ x = y /\ y <= z
    BY <1>3, <1>4, <2>1
  <2>4. w = f * ((a * t) * (a * t)) /\ z = f * ((b * k) * (b * k))
    BY <2>1
  <2> HIDE DEF w, x, y, z
  <2>5. w <= z
    BY <2>2, <2>3
  <2> QED
    BY <2>4, <2>5
<1>6. (a * t) * (a * t) <= (b * k) * (b * k)
  <2> DEFINE x == (a * t) * (a * t)
             y == (b * k) * (b * k)
  <2>1. x \in Nat /\ y \in Nat /\ f * x <= f * y
    BY <1>1, <1>5
  <2> HIDE DEF x, y
  <2>2. x <= y
    BY <2>1, Cancel
  <2> QED
    BY <2>2 DEF x, y
<1>7. a * t <= b * k
  <2> DEFINE x == a * t
             y == b * k
  <2>1. x \in Nat /\ y \in Nat /\ x * x <= y * y
    BY <1>1, <1>6
  <2> HIDE DEF x, y
  <2>2. x <= y
    BY <2>1
  <2> QED
    BY <2>2 DEF x, y
<1>8. b * k <= b * (t - 1) /\ b * (t - 1) = b * t - b
  BY <1>1
<1>9. a * t = b * t - t
  BY <1>1
<1>10. a * t \in Int /\ b * k \in Int /\ b * t \in Int
  BY <1>1
<1> DEFINE p == a * t
           q == b * k
           w == b * t
<1>11. /\ p \in Int /\ q \in Int /\ w \in Int /\ b \in Int
       /\ p <= q /\ q <= w - b /\ p = w - t
  BY <1>1, <1>7, <1>8, <1>9, <1>10
<1> HIDE DEF p, q, w
<1>12. b <= t
  BY <1>11
<1> QED
  BY <1>12 DEF b

\* A name with an unknown token is not reported with a score of 1.
LEMMA FullIsKnown ==
    ASSUME NEW n \in Name, NEW g \in GtRow,
           Rounded(Score(n, g)) = Unit, Cardinality(Tokens[n]) < 2 * Unit
    PROVE  Tokens[n] \subseteq Vocabulary
<1> DEFINE c == Cardinality(Tokens[n] \cap Tokens[g])
           k == Cardinality(Tokens[n] \cap Vocabulary)
           t == Cardinality(Tokens[n])
           r == Cardinality(Tokens[g])
<1>1. Full \in Nat \ {0} /\ Unit \in Nat \ {0}
  BY MatchingAssumption
<1>2. Score(n, g) = IF c = 0 THEN 0 ELSE (Full * c * c * k) \div (r * t * t)
  BY DEF Score
<1>3. c \in Nat /\ k \in Nat /\ t \in Nat /\ r \in Nat /\ c <= k /\ k <= t /\ c <= r
  BY Counts
<1>4. Score(n, g) \in Nat
  BY <1>1, ScoreInRange
<1>5. (2 * Unit - 1) * (2 * Unit - 1) * Full <= 4 * Unit * Unit * Score(n, g)
  BY <1>4, RoundedToOne
<1>6. k = t => Tokens[n] \subseteq Vocabulary
  <2>1. IsFiniteSet(Tokens[n]) /\ Tokens[n] \cap Vocabulary \subseteq Tokens[n]
    BY MatchingAssumption
  <2>2. k = t => Tokens[n] \cap Vocabulary = Tokens[n]
    BY <2>1, CardinalitySub
  <2> QED
    BY <2>2
<1> DEFINE s == Score(n, g)
<1> HIDE DEF c, k, t, r, s
<1>7. c # 0
  <2> SUFFICES ASSUME c = 0 PROVE FALSE
    OBVIOUS
  <2>1. s = 0
    BY <1>2 DEF s
  <2>2. (2 * Unit - 1) * (2 * Unit - 1) * Full <= 4 * Unit * Unit * s
    BY <1>5 DEF s
  <2>3. 4 * Unit * Unit * s = 0
    BY <1>1, <2>1
  <2> DEFINE a == 2 * Unit - 1
  <2>4. a \in Nat \ {0} /\ a * a * Full <= 0
    BY <1>1, <2>2, <2>3
  <2> HIDE DEF a
  <2>5. a * a \in Nat \ {0}
    BY <2>4
  <2>6. a * a * Full \in Nat \ {0}
    BY <1>1, <2>4, <2>5
  <2> QED
    BY <2>4, <2>6
<1>8. s * (t * t) <= Full * (k * k)
  <2> DEFINE x == Full * c * c * k
             d == r * t * t
             q == x \div d
  <2>1. x \in Nat /\ d \in Nat \ {0} /\ x = Full * (c * c * k) /\ d = r * (t * t)
    BY <1>1, <1>3, <1>7
  <2>2. q \in Nat /\ q * d <= x
    BY <2>1, Quotient
  <2>3. s = q
    BY <1>2, <1>7 DEF s
  <2> HIDE DEF x, d, q
  <2>4. c * (s * (t * t)) <= s * d
    <3> DEFINE y == s * (t * t)
    <3>1. y \in Nat /\ s * d = r * y
      BY <1>3, <2>1, <2>2, <2>3
    <3> HIDE DEF y
    <3>2. c * y <= r * y
      BY <1>3, <3>1
    <3> QED
      BY <3>1, <3>2 DEF y
  <2>5. x <= c * (Full * (k * k))
    <3>1. c * k <= k * k
      BY <1>3
    <3>2. (Full * c) * (c * k) <= (Full * c) * (k * k)
      BY <1>1, <1>3, <3>1
    <3>3. x = (Full * c) * (c * k) /\ (Full * c) * (k * k) = c * (Full * (k * k))
      BY <1>1, <1>3, <2>1
    <3> QED
      BY <3>2, <3>3
  <2> DEFINE y == s * (t * t)
             z == Full * (k * k)
  <2>6. y \in Nat /\ z \in Nat /\ s * d \in Nat
    BY <1>1, <1>3, <2>1, <2>2, <2>3
  <2>7. c * y <= c * z
    BY <1>3, <2>1, <2>2, <2>3, <2>4, <2>5, <2>6
  <2> HIDE DEF y, z
  <2>8. y <= z
    BY <1>3, <1>7, <2>6, <2>7, Cancel
  <2> QED
    BY <2>8 DEF y, z
<1>9. CASE k < t
  <2>1. t \in Nat \ {0} /\ s \in Nat
    BY <1>3, <1>4, <1>9 DEF s
  <2>2. 2 * Unit <= t
    BY <1>1, <1>3, <1>5, <1>8, <1>9, <2>1, UnknownCosts DEF s
  <2> QED
    BY <1>1, <1>3, <2>2 DEF t
<1> QED
  BY <1>3, <1>6, <1>9

-----------------------------------------------------------------------------
(* The selection for one name.                                             *)

\* What SetToSeqs has is every element of a finite set, each once.
LEMMA SetToSeqsAll ==
    ASSUME NEW S, IsFiniteSet(S), NEW s \in SetToSeqs(S)
    PROVE  /\ Cardinality(S) \in Nat
           /\ s \in [1 .. Cardinality(S) -> S]
           /\ \A i, j \in 1 .. Cardinality(S) : i # j => s[i] # s[j]
           /\ \A x \in S : \E i \in 1 .. Cardinality(S) : s[i] = x
<1> DEFINE N == Cardinality(S)
<1>1. N \in Nat
  BY FS_CardinalityType
<1>2. s \in [1 .. N -> S] /\ \A i, j \in 1 .. N : i # j => s[i] # s[j]
  BY DEF SetToSeqs
<1>3. s \in Injection(1 .. N, S)
  BY <1>2 DEF Injection, IsInjective
<1>4. Cardinality(1 .. N) = N
  BY <1>1, FS_Interval
<1>5. s \in Surjection(1 .. N, S)
  BY <1>3, <1>4, FS_Injection
<1> QED
  BY <1>1, <1>2, <1>5 DEF Surjection

\* What is selected for a name: rows above the threshold, each once, best
\* first, topN at most, and none that is left out is better.
LEMMA TopNIsBest ==
    ASSUME NEW n \in Name, NEW topN \in Nat \ {0}, NEW threshold \in Nat,
           NEW c \in TopN(n, topN, threshold)
    PROVE  /\ c \in Seq(GtRow) /\ Len(c) \in 0 .. topN
           /\ \A i \in 1 .. Len(c) : Score(n, c[i]) > threshold
           /\ \A i, j \in 1 .. Len(c) :
                 i < j => c[i] # c[j] /\ Score(n, c[i]) >= Score(n, c[j])
           /\ \A g \in GtRow :
                 Score(n, g) > threshold /\ (\A i \in 1 .. Len(c) : c[i] # g) =>
                    /\ Len(c) = topN
                    /\ \A i \in 1 .. Len(c) : Score(n, c[i]) >= Score(n, g)
<1> DEFINE A == Above(n, threshold)
           N == Cardinality(A)
<1>1. IsFiniteSet(A) /\ A \subseteq GtRow
  BY MatchingAssumption, FS_Subset DEF Above
<1>2. PICK s \in SetToSeqs(A) :
         /\ \A i, j \in 1 .. Len(s) : i < j => Score(n, s[i]) >= Score(n, s[j])
         /\ c = IF Len(s) > topN THEN SubSeq(s, 1, topN) ELSE s
  BY DEF TopN
<1>3. /\ N \in Nat /\ s \in [1 .. N -> A]
      /\ \A i, j \in 1 .. N : i # j => s[i] # s[j]
      /\ \A x \in A : \E i \in 1 .. N : s[i] = x
  BY <1>1, SetToSeqsAll
<1>4. \A g \in A : g \in GtRow /\ Score(n, g) > threshold /\ Score(n, g) \in Nat
  BY ScoreInRange, MatchingAssumption DEF Above
<1>5. \A g \in GtRow : Score(n, g) > threshold => g \in A
  BY DEF Above
<1> HIDE DEF A, N
<1>6. Len(s) = N /\ s \in Seq(GtRow)
  BY <1>1, <1>3
<1>7. /\ c \in Seq(GtRow) /\ Len(c) = IF N > topN THEN topN ELSE N
      /\ \A i \in 1 .. Len(c) : c[i] = s[i]
  BY <1>2, <1>3, <1>6
<1>8. Len(c) \in 0 .. topN /\ Len(c) <= N
  BY <1>3, <1>7
<1>9. \A i \in 1 .. Len(c) : Score(n, c[i]) > threshold
  BY <1>3, <1>4, <1>7, <1>8
<1>10. \A i, j \in 1 .. Len(c) : i < j => c[i] # c[j] /\ Score(n, c[i]) >= Score(n, c[j])
  BY <1>2, <1>3, <1>6, <1>7, <1>8
<1>11. ASSUME NEW g \in GtRow, Score(n, g) > threshold, \A i \in 1 .. Len(c) : c[i] # g
       PROVE  Len(c) = topN /\ \A i \in 1 .. Len(c) : Score(n, c[i]) >= Score(n, g)
  <2>1. PICK j \in 1 .. N : s[j] = g
    BY <1>3, <1>5, <1>11
  <2>2. j > Len(c)
    BY <1>3, <1>7, <1>8, <1>11, <2>1
  <2>3. N > topN /\ Len(c) = topN
    BY <1>3, <1>7, <2>1, <2>2
  <2>4. \A i \in 1 .. Len(c) : i \in 1 .. N /\ i < j
    BY <1>3, <1>8, <2>1, <2>2
  <2>5. \A i \in 1 .. Len(c) : Score(n, s[i]) >= Score(n, s[j])
    BY <1>2, <1>6, <2>1, <2>4
  <2> QED
    BY <1>7, <2>1, <2>3, <2>5
<1> QED
  BY <1>7, <1>8, <1>9, <1>10, <1>11

\* The rows made of what is selected for a name are the right ones.
LEMMA JoinIsRight ==
    ASSUME NEW n \in Name, NEW option, option.topN \in Nat \ {0}, option.threshold \in Nat,
           NEW c \in TopN(n, option.topN, option.threshold)
    PROVE  Join(n, c) \in Seq(AnswerRow) /\ RightRows(Join(n, c), n, option)
<1> DEFINE rows == Join(n, c)
<1>1. /\ c \in Seq(GtRow) /\ Len(c) \in 0 .. option.topN
      /\ \A i \in 1 .. Len(c) : Score(n, c[i]) > option.threshold
      /\ \A i, j \in 1 .. Len(c) :
            i < j => c[i] # c[j] /\ Score(n, c[i]) >= Score(n, c[j])
      /\ \A g \in GtRow :
            Score(n, g) > option.threshold /\ (\A i \in 1 .. Len(c) : c[i] # g) =>
               /\ Len(c) = option.topN
               /\ \A i \in 1 .. Len(c) : Score(n, c[i]) >= Score(n, g)
  BY TopNIsBest
<1>2. \A g \in GtRow : Score(n, g) \in 0 .. Full /\ Score(n, g) \in Nat
  BY ScoreInRange, MatchingAssumption
<1> DEFINE R(i) == Rounded(Score(n, c[i]))
<1>5. /\ \A i \in 1 .. Len(c) : R(i) \in 0 .. Unit /\ R(i) >= Rounded(option.threshold)
      /\ \A i, j \in 1 .. Len(c) : i < j => R(i) >= R(j)
  <2>1. /\ \A i \in 1 .. Len(c) : c[i] \in GtRow /\ Score(n, c[i]) \in Nat
        /\ Unit \in Nat
    BY <1>1, <1>2, MatchingAssumption
  <2>2. \A x \in Nat : Rounded(x) \in Nat /\ Rounded(x) \in 0 .. Unit
    BY <2>1, RoundedKeepsOrder
  <2>3. \A x, y \in Nat : x <= y => Rounded(y) >= Rounded(x)
    BY <2>2, RoundedKeepsOrder
  <2>4. ASSUME NEW i \in 1 .. Len(c)
        PROVE  R(i) \in 0 .. Unit /\ R(i) >= Rounded(option.threshold)
    <3>1. option.threshold <= Score(n, c[i])
      BY <1>1, <2>1
    <3> QED
      BY <2>1, <2>2, <2>3, <3>1
  <2>5. ASSUME NEW i \in 1 .. Len(c), NEW j \in 1 .. Len(c), i < j PROVE R(i) >= R(j)
    <3>1. Score(n, c[j]) <= Score(n, c[i])
      BY <1>1, <2>1, <2>5
    <3> QED
      BY <2>1, <2>3, <3>1
  <2> QED
    BY <2>4, <2>5
<1>3. CASE c = <<>>
  <2>1. rows = <<[name |-> n, row |-> NoRow, score |-> 0]>>
    BY <1>3 DEF Join
  <2>2. [name |-> n, row |-> NoRow, score |-> 0] \in AnswerRow
    BY MatchingAssumption DEF AnswerRow
  <2>3. \A g \in GtRow : Score(n, g) <= option.threshold
    BY <1>1, <1>2, <1>3
  <2>4. /\ rows \in Seq(AnswerRow) /\ DOMAIN rows = {1} /\ Len(rows) = 1
        /\ rows[1].name = n /\ rows[1].row = NoRow /\ rows[1].score = 0
    BY <2>1, <2>2
  <2> QED
    BY <2>3, <2>4 DEF RightRows
<1>4. CASE c # <<>>
  <2>1. rows = [i \in 1 .. Len(c) |->
                  [name |-> n, row |-> c[i], score |-> Rounded(Score(n, c[i]))]]
    BY <1>4 DEF Join
  <2>2. \A i \in 1 .. Len(c) :
           [name |-> n, row |-> c[i], score |-> Rounded(Score(n, c[i]))] \in AnswerRow
    BY <1>1, <1>5 DEF AnswerRow
  <2>3. Len(c) \in 1 .. option.topN /\ Len(c) \in Nat
    BY <1>1, <1>4
  <2>4. rows \in Seq(AnswerRow) /\ DOMAIN rows = 1 .. Len(c) /\ Len(rows) = Len(c)
    BY <2>1, <2>2, <2>3
  <2>5. \A i \in 1 .. Len(c) :
           rows[i].name = n /\ rows[i].row = c[i] /\ rows[i].score = R(i)
    BY <2>1
  <2> DEFINE shown == {rows[i].row : i \in DOMAIN rows}
  <2>6. shown \subseteq GtRow
    BY <1>1, <2>4, <2>5
  <2>7. \A g \in GtRow \ shown : \A i \in 1 .. Len(c) : c[i] # g
    BY <2>4, <2>5
  <2>8. \A g \in GtRow \ shown : Score(n, g) > option.threshold =>
           /\ Len(rows) = option.topN
           /\ \A i \in DOMAIN rows : Score(n, rows[i].row) >= Score(n, g)
    BY <1>1, <2>4, <2>5, <2>7
  <2>9. /\ \A i \in DOMAIN rows : rows[i].name = n
        /\ \A i \in DOMAIN rows : /\ rows[i].score = Rounded(Score(n, rows[i].row))
                                  /\ rows[i].score >= Rounded(option.threshold)
                                  /\ Score(n, rows[i].row) > option.threshold
        /\ \A i, j \in DOMAIN rows : i < j =>
              /\ rows[i].row # rows[j].row
              /\ rows[i].score >= rows[j].score
              /\ Score(n, rows[i].row) >= Score(n, rows[j].row)
    BY <1>1, <1>5, <2>4, <2>5
  <2> HIDE DEF rows
  <2> QED
    BY <2>3, <2>4, <2>6, <2>8, <2>9 DEF RightRows, rows
<1> QED
  BY <1>3, <1>4

-----------------------------------------------------------------------------
(* FlattenSeq, which the library defines by recursion over its argument.   *)
(* The induction it takes is one over a set of numbers.                    *)

LEMMA Induction ==
    ASSUME NEW S, 0 \in S, \A n \in Nat : n \in S => n + 1 \in S
    PROVE  Nat \subseteq S
<1>1. SUFFICES ASSUME Nat \ S # {} PROVE FALSE
  OBVIOUS
<1>2. PICK x \in Nat \ S : \A y \in Nat \ S : ~(<<y, x>> \in OpToRel(<, Nat))
  BY <1>1, NatLessThanWellFounded, WFMin
<1>3. \A y \in Nat \ S : ~(y < x)
  BY <1>2 DEF OpToRel
<1>4. x # 0 /\ x - 1 \in Nat /\ x - 1 < x
  OBVIOUS
<1>5. x - 1 \in S
  BY <1>3, <1>4
<1>6. (x - 1) + 1 \in S
  BY <1>4, <1>5
<1> QED
  BY <1>6

\* Names of their own, so that a step that needs no more sees no more.
Rows       == Seq(AnswerRow)
Then(s, t) == s \o t

LEMMA LenOfRows == \A s \in Rows : Len(s) \in Nat
BY DEF Rows

LEMMA ThenOf ==
    ASSUME NEW s \in Rows, NEW t \in Rows
    PROVE  /\ Then(s, t) \in Rows /\ Len(Then(s, t)) = Len(s) + Len(t)
           /\ \A x \in 1 .. Len(s) : Then(s, t)[x] = s[x]
           /\ \A x \in 1 .. Len(t) : Then(s, t)[Len(s) + x] = t[x]
BY DEF Then, Rows

LEMMA SubSeqOf ==
    ASSUME NEW s \in Rows, NEW p \in Rows, NEW a \in Nat,
           a + Len(p) <= Len(s), \A x \in 1 .. Len(p) : s[a + x] = p[x]
    PROVE  SubSeq(s, a + 1, a + Len(p)) = p
<1> USE DEF Rows
<1>1. a + 1 \in Int /\ a + Len(p) \in Int /\ Len(p) \in Nat /\ Len(s) \in Nat
  OBVIOUS
<1>2. SubSeq(s, a + 1, a + Len(p)) \in Rows
  BY <1>1
<1>3. Len(SubSeq(s, a + 1, a + Len(p))) = Len(p)
  BY <1>1
<1>4. \A x \in 1 .. Len(p) : SubSeq(s, a + 1, a + Len(p))[x] = p[x]
  BY <1>1
<1> QED
  BY <1>2, <1>3, <1>4, SeqEqual

\* f holds the first part, the first two in a row, and so on, up to n.
Chain(f, parts, n) ==
    f = [i \in 1 .. n |-> IF i = 1 THEN parts[i] ELSE Then(f[i - 1], parts[i])]

LEMMA ChainExists ==
    ASSUME NEW parts, NEW n \in Nat
    PROVE  \E f : Chain(f, parts, n)
<1> DEFINE S == {m \in Nat : \E f : Chain(f, parts, m)}
<1>1. 0 \in S
  <2> DEFINE f == [i \in 1 .. 0 |-> parts]
  <2>1. Chain(f, parts, 0)
    BY DEF Chain
  <2> QED
    BY <2>1
<1>2. ASSUME NEW m \in Nat, m \in S PROVE m + 1 \in S
  <2>1. PICK f : Chain(f, parts, m)
    BY <1>2
  <2> DEFINE e == [i \in 1 .. m + 1 |-> IF i = 1 THEN parts[i] ELSE Then(f[i - 1], parts[i])]
  <2>2. ASSUME NEW i \in 1 .. m PROVE e[i] = f[i]
    <3>1. i \in 1 .. m + 1
      OBVIOUS
    <3> QED
      BY <2>1, <3>1 DEF Chain
  <2>3. \A i \in 1 .. m + 1 : i # 1 => i - 1 \in 1 .. m
    OBVIOUS
  <2>4. Chain(e, parts, m + 1)
    BY <2>2, <2>3 DEF Chain
  <2> QED
    BY <2>4
<1> HIDE DEF S
<1>3. Nat \subseteq S
  BY <1>1, <1>2, Induction
<1> QED
  BY <1>3 DEF S

LEMMA FlattenIsChain ==
    ASSUME NEW parts, NEW n \in Nat \ {0}, Len(parts) = n
    PROVE  \E f : Chain(f, parts, n) /\ FlattenSeq(parts) = f[n]
<1> DEFINE g == CHOOSE g : g = [i \in 1 .. n |->
                                  IF i = 1 THEN parts[i] ELSE g[i - 1] \o parts[i]]
<1>1. FlattenSeq(parts) = g[n]
  BY DEF FlattenSeq
<1>2. g = CHOOSE f : Chain(f, parts, n)
  BY DEF Chain, Then
<1>3. Chain(g, parts, n)
  <2> HIDE DEF g
  <2> QED
    BY <1>2, ChainExists
<1> QED
  BY <1>1, <1>3

\* Each part of a chain stands at the end of its place there, and what stands
\* before it stays as it is.
LEMMA ChainGrows ==
    ASSUME NEW n \in Nat, NEW parts \in [1 .. n -> Rows],
           NEW f, Chain(f, parts, n)
    PROVE  /\ f \in [1 .. n -> Rows]
           /\ n # 0 => f[1] = parts[1]
           /\ \A i \in 2 .. n : f[i] = Then(f[i - 1], parts[i])
           /\ \A j \in 1 .. n : \A i \in 1 .. j :
                 Len(f[i]) <= Len(f[j]) /\ \A x \in 1 .. Len(f[i]) : f[j][x] = f[i][x]
<1>1. /\ DOMAIN f = 1 .. n
      /\ \A i \in 1 .. n : f[i] = IF i = 1 THEN parts[i] ELSE Then(f[i - 1], parts[i])
  BY DEF Chain
<1>2. /\ n # 0 => f[1] = parts[1]
      /\ \A i \in 2 .. n : f[i] = Then(f[i - 1], parts[i])
  BY <1>1
<1>3. \A i \in 1 .. n : f[i] \in Rows
  <2> DEFINE S == {m \in Nat : m \in 1 .. n => f[m] \in Rows}
  <2>1. 0 \in S
    OBVIOUS
  <2>2. ASSUME NEW m \in Nat, m \in S PROVE m + 1 \in S
    <3>1. CASE m + 1 \in 2 .. n
      <4>1. m \in 1 .. n /\ f[m + 1] = Then(f[m], parts[m + 1]) /\ parts[m + 1] \in Rows
        BY <1>2, <3>1
      <4>2. f[m] \in Rows
        BY <2>2, <4>1
      <4>3. Then(f[m], parts[m + 1]) \in Rows
        BY <4>1, <4>2, ThenOf
      <4> QED
        BY <4>1, <4>3
    <3>2. CASE m + 1 \notin 2 .. n
      BY <1>2, <3>2
    <3> QED
      BY <3>1, <3>2
  <2> HIDE DEF S
  <2>3. Nat \subseteq S
    BY <2>1, <2>2, Induction
  <2> QED
    BY <2>3 DEF S
<1>4. f \in [1 .. n -> Rows]
  BY <1>1, <1>3 DEF Chain
<1> DEFINE Prefix(i, j) ==
             Len(f[i]) <= Len(f[j]) /\ \A x \in 1 .. Len(f[i]) : f[j][x] = f[i][x]
<1>5. ASSUME NEW j \in 2 .. n PROVE Prefix(j - 1, j)
  <2>1. j \in 1 .. n /\ j - 1 \in 1 .. n
    OBVIOUS
  <2>2. f[j - 1] \in Rows /\ parts[j] \in Rows /\ f[j] = Then(f[j - 1], parts[j])
    BY <1>2, <1>3, <2>1
  <2>3. Len(f[j - 1]) \in Nat /\ Len(parts[j]) \in Nat /\ Len(f[j]) \in Nat
    BY <1>3, <2>1, <2>2, LenOfRows
  <2>4. /\ Len(f[j]) = Len(f[j - 1]) + Len(parts[j])
        /\ \A x \in 1 .. Len(f[j - 1]) : f[j][x] = f[j - 1][x]
    <3> HIDE DEF Prefix
    <3> DEFINE u == Then(f[j - 1], parts[j])
    <3>1. /\ Len(u) = Len(f[j - 1]) + Len(parts[j])
          /\ \A x \in 1 .. Len(f[j - 1]) : u[x] = f[j - 1][x]
      BY <2>2, ThenOf
    <3> HIDE DEF u
    <3> QED
      BY <2>2, <3>1 DEF u
  <2>5. Len(f[j]) = Len(f[j - 1]) + Len(parts[j])
    BY <2>4
  <2>6. Len(f[j - 1]) <= Len(f[j])
    <3> DEFINE k == Len(f[j - 1])
               l == Len(parts[j])
               m == Len(f[j])
    <3>1. k \in Nat /\ l \in Nat /\ m \in Nat /\ m = k + l
      BY <2>3, <2>5
    <3> HIDE DEF k, l, m
    <3>2. k <= m
      BY <3>1
    <3> QED
      BY <3>2 DEF k, m
  <2> QED
    BY <2>4, <2>6, Zenon
<1>6. ASSUME NEW i \in 1 .. n, NEW j \in 1 .. n, NEW k \in 1 .. n, Prefix(i, j), Prefix(j, k)
      PROVE  Prefix(i, k)
  <2>1. Len(f[i]) \in Nat /\ Len(f[j]) \in Nat /\ Len(f[k]) \in Nat
    BY <1>3
  <2> QED
    BY <1>6, <2>1
<1>7. \A i \in 1 .. n : Prefix(i, i)
  BY <1>3
<1>8. \A j \in 1 .. n : \A i \in 1 .. j : Prefix(i, j)
  <2> DEFINE S == {m \in Nat : m \in 1 .. n => \A i \in 1 .. m : Prefix(i, m)}
  <2> HIDE DEF Prefix
  <2>1. 0 \in S
    OBVIOUS
  <2>2. ASSUME NEW m \in Nat, m \in S PROVE m + 1 \in S
    <3> SUFFICES ASSUME m + 1 \in 1 .. n, NEW i \in 1 .. m + 1 PROVE Prefix(i, m + 1)
      OBVIOUS
    <3>1. CASE i = m + 1
      BY <1>7, <3>1
    <3>2. CASE i # m + 1
      <4>1. i \in 1 .. m /\ m \in 1 .. n /\ m + 1 \in 2 .. n /\ (m + 1) - 1 = m /\ i \in 1 .. n
        BY <3>2
      <4>2. Prefix(i, m)
        BY <2>2, <4>1
      <4>3. Prefix(m, m + 1)
        BY <1>5, <4>1
      <4> QED
        BY <1>6, <4>1, <4>2, <4>3
    <3> QED
      BY <3>1, <3>2
  <2> HIDE DEF S
  <2>3. Nat \subseteq S
    BY <2>1, <2>2, Induction
  <2> QED
    BY <2>3 DEF S
<1> QED
  BY <1>2, <1>4, <1>8

\* flat falls into parts, of which there are n.
InParts(flat, parts, n) ==
    \E end \in [0 .. n -> 0 .. Len(flat)] :
       /\ end[0] = 0 /\ end[n] = Len(flat)
       /\ \A i \in 1 .. n : /\ end[i - 1] <= end[i]
                            /\ SubSeq(flat, end[i - 1] + 1, end[i]) = parts[i]

\* p stands in s after a.
Stands(s, a, p) == a + Len(p) <= Len(s) /\ SubSeq(s, a + 1, a + Len(p)) = p

\* The place of a part in the chain.
LEMMA ChainPart ==
    ASSUME NEW n \in Nat \ {0}, NEW parts \in [1 .. n -> Rows],
           NEW f, Chain(f, parts, n), NEW i \in 1 .. n, NEW a \in Nat,
           i = 1 => a = 0, i # 1 => a = Len(f[i - 1])
    PROVE  Len(f[i]) = a + Len(parts[i]) /\ Stands(f[n], a, parts[i])
<1>1. /\ f \in [1 .. n -> Rows] /\ f[1] = parts[1]
      /\ \A k \in 2 .. n : f[k] = Then(f[k - 1], parts[k])
  BY ChainGrows
<1>2. Len(f[i]) <= Len(f[n]) /\ \A x \in 1 .. Len(f[i]) : f[n][x] = f[i][x]
  <2>1. n \in 1 .. n
    OBVIOUS
  <2> QED
    BY <2>1, ChainGrows
<1>3. f[n] \in Rows /\ f[i] \in Rows /\ parts[i] \in Rows
  <2>1. n \in 1 .. n
    OBVIOUS
  <2> QED
    BY <1>1, <2>1
<1>4. Len(f[i]) \in Nat /\ Len(parts[i]) \in Nat /\ Len(f[n]) \in Nat
  BY <1>3
<1>5. /\ Len(f[i]) = a + Len(parts[i])
      /\ \A x \in 1 .. Len(parts[i]) : f[i][a + x] = parts[i][x]
  <2>1. CASE i = 1
    BY <1>1, <1>4, <2>1
  <2>2. CASE i # 1
    <3>1. i - 1 \in 1 .. n /\ i \in 2 .. n
      BY <2>2
    <3>2. f[i - 1] \in Rows /\ f[i] = Then(f[i - 1], parts[i]) /\ a = Len(f[i - 1])
      BY <1>1, <2>2, <3>1
    <3>3. /\ Len(f[i]) = Len(f[i - 1]) + Len(parts[i])
          /\ \A x \in 1 .. Len(parts[i]) : f[i][Len(f[i - 1]) + x] = parts[i][x]
      <4> DEFINE u == Then(f[i - 1], parts[i])
      <4>1. /\ Len(u) = Len(f[i - 1]) + Len(parts[i])
            /\ \A x \in 1 .. Len(parts[i]) : u[Len(f[i - 1]) + x] = parts[i][x]
        BY <1>3, <3>2, ThenOf
      <4> HIDE DEF u
      <4> QED
        BY <3>2, <4>1 DEF u
    <3> QED
      BY <3>2, <3>3
  <2> QED
    BY <2>1, <2>2
<1>6. \A x \in 1 .. Len(parts[i]) : f[n][a + x] = parts[i][x]
  <2> SUFFICES ASSUME NEW x \in 1 .. Len(parts[i]) PROVE f[n][a + x] = parts[i][x]
    OBVIOUS
  <2>1. a + x \in 1 .. Len(f[i])
    BY <1>4, <1>5
  <2> QED
    BY <1>2, <1>5, <2>1
<1>7. SubSeq(f[n], a + 1, a + Len(parts[i])) = parts[i]
  BY <1>2, <1>3, <1>5, <1>6, SubSeqOf
<1> QED
  BY <1>2, <1>5, <1>7 DEF Stands

\* A flattened sequence falls into its parts, in their order.
LEMMA FlattenHasParts ==
    ASSUME NEW n \in Nat, NEW parts \in [1 .. n -> Rows],
           NEW flat, flat = FlattenSeq(parts)
    PROVE  flat \in Rows /\ InParts(flat, parts, n)
<1>1. Len(parts) = n
  OBVIOUS
<1>2. CASE n = 0
  <2>1. flat = parts
    BY <1>1, <1>2 DEF FlattenSeq
  <2>2. parts \in Rows
    BY <1>2 DEF Rows
  <2> DEFINE end == [i \in 0 .. n |-> 0]
  <2>3. end \in [0 .. n -> 0 .. Len(flat)] /\ end[0] = 0 /\ end[n] = Len(flat)
    BY <1>1, <1>2, <2>1
  <2>4. \A i \in 1 .. n : FALSE
    BY <1>2
  <2> HIDE DEF end
  <2> QED
    BY <2>1, <2>2, <2>3, <2>4 DEF InParts
<1>3. CASE n # 0
  <2>1. PICK f : Chain(f, parts, n) /\ flat = f[n]
    BY <1>1, <1>3, FlattenIsChain
  <2>2. n \in Nat \ {0} /\ n \in 1 .. n
    BY <1>3
  <2>3. f \in [1 .. n -> Rows]
    BY <2>1, ChainGrows
  <2> DEFINE end == [i \in 0 .. n |-> IF i = 0 THEN 0 ELSE Len(f[i])]
  <2>4. flat \in Rows /\ Len(flat) \in Nat /\ \A i \in 1 .. n : Len(f[i]) \in Nat
    BY <2>1, <2>2, <2>3
  <2>5. /\ \A i \in 1 .. n : end[i] = Len(f[i]) /\ end[i] \in Nat
        /\ end[0] = 0 /\ end[n] = Len(flat)
    BY <2>1, <2>2, <2>4
  <2>6. ASSUME NEW i \in 1 .. n
        PROVE  /\ end[i - 1] <= end[i] /\ end[i] <= Len(flat)
               /\ SubSeq(flat, end[i - 1] + 1, end[i]) = parts[i]
    <3>1. /\ end[i - 1] \in Nat
          /\ i = 1 => end[i - 1] = 0
          /\ i # 1 => end[i - 1] = Len(f[i - 1])
      BY <2>4
    <3> DEFINE a == end[i - 1]
    <3> HIDE DEF end
    <3>2. a \in Nat /\ (i = 1 => a = 0) /\ (i # 1 => a = Len(f[i - 1]))
      BY <3>1
    <3> HIDE DEF a
    <3>3. Len(f[i]) = a + Len(parts[i]) /\ Stands(f[n], a, parts[i])
      BY <2>1, <2>2, <3>2, ChainPart
    <3>4. parts[i] \in Rows /\ Len(parts[i]) \in Nat
      BY LenOfRows
    <3>5. a <= Len(f[i])
      BY <3>2, <3>3, <3>4
    <3> QED
      BY <2>1, <2>5, <3>3, <3>5 DEF a, Stands
  <2>7. end \in [0 .. n -> 0 .. Len(flat)]
    <3>1. \A i \in 0 .. n : end[i] \in 0 .. Len(flat)
      <4> SUFFICES ASSUME NEW i \in 0 .. n PROVE end[i] \in 0 .. Len(flat)
        OBVIOUS
      <4>1. CASE i = 0
        BY <2>4, <2>5, <4>1
      <4>2. CASE i # 0
        <5>1. i \in 1 .. n
          BY <4>2
        <5> HIDE DEF end
        <5> QED
          BY <2>4, <2>5, <2>6, <5>1
      <4> QED
        BY <4>1, <4>2
    <3> QED
      BY <3>1
  <2> HIDE DEF end
  <2> QED
    BY <2>4, <2>5, <2>6, <2>7 DEF InParts
<1> QED
  BY <1>2, <1>3

-----------------------------------------------------------------------------
(* The answers.                                                            *)

\* Whatever transform answers for keys and an option is right: what the
\* selection, the join and the post-processing compute step by step is what a
\* client is promised, also where scores are equal and a name is asked twice.
THEOREM AnswersAreRight ==
    ASSUME NEW keys \in Seq(Name),
           NEW option, option.topN \in Nat \ {0}, option.threshold \in Nat,
           NEW rows \in Answers(keys, option)
    PROVE  rows \in Seq(AnswerRow) /\ RightAnswer(rows, keys, option)
<1> DEFINE n == Len(keys)
<1>1. n \in Nat /\ \A i \in 1 .. n : keys[i] \in Name
  OBVIOUS
<1>2. PICK c : /\ \A i \in 1 .. n : c[i] \in TopN(keys[i], option.topN, option.threshold)
               /\ rows = FlattenSeq([i \in 1 .. n |-> Join(keys[i], c[i])])
  BY DEF Answers
<1> DEFINE parts == [i \in 1 .. n |-> Join(keys[i], c[i])]
<1>3. \A i \in 1 .. n : /\ Join(keys[i], c[i]) \in Seq(AnswerRow)
                        /\ RightRows(Join(keys[i], c[i]), keys[i], option)
  BY <1>1, <1>2, JoinIsRight
<1>4. parts \in [1 .. n -> Rows]
  BY <1>3 DEF Rows
<1>5. \A i \in 1 .. n : RightRows(parts[i], keys[i], option)
  BY <1>3
<1>6. rows = FlattenSeq(parts)
  BY <1>2
<1> HIDE DEF parts, n
<1>7. rows \in Rows /\ InParts(rows, parts, n)
  BY <1>1, <1>4, <1>6, FlattenHasParts
<1>8. PICK end \in [0 .. n -> 0 .. Len(rows)] :
            /\ end[0] = 0 /\ end[n] = Len(rows)
            /\ \A i \in 1 .. n : /\ end[i - 1] <= end[i]
                                 /\ SubSeq(rows, end[i - 1] + 1, end[i]) = parts[i]
  BY <1>7 DEF InParts
<1>9. \A i \in 1 .. n : /\ end[i - 1] <= end[i]
                        /\ RightRows(SubSeq(rows, end[i - 1] + 1, end[i]), keys[i], option)
  BY <1>5, <1>8
<1> QED
  BY <1>7, <1>8, <1>9 DEF RightAnswer, Rows, n

\* What a part between two places of a sequence of rows is.
LEMMA Between ==
    ASSUME NEW s \in Rows, NEW a \in Nat, NEW b \in Nat, a <= b, b <= Len(s)
    PROVE  /\ Len(SubSeq(s, a + 1, b)) = b - a
           /\ DOMAIN SubSeq(s, a + 1, b) = 1 .. b - a
           /\ \A x \in 1 .. b - a : SubSeq(s, a + 1, b)[x] = s[a + x]
<1> USE DEF Rows
<1>1. Len(s) \in Nat /\ Len(SubSeq(s, a + 1, b)) = b - a
  OBVIOUS
<1>2. \A x \in 1 .. b - a : SubSeq(s, a + 1, b)[x] = s[a + x]
  BY <1>1
<1>3. SubSeq(s, a + 1, b) \in Seq(AnswerRow)
  BY <1>1
<1> QED
  BY <1>1, <1>2, <1>3

\* Each row of a right answer is in the part of one of the keys.
LEMMA RowIsRight ==
    ASSUME NEW rows \in Rows, NEW keys \in Seq(Name), NEW option,
           RightAnswer(rows, keys, option), NEW i \in 1 .. Len(rows)
    PROVE  \/ rows[i].row = NoRow /\ rows[i].score = 0
           \/ rows[i].row \in GtRow /\ rows[i].score = Rounded(Score(rows[i].name, rows[i].row))
<1> DEFINE n == Len(keys)
<1>1. n \in Nat /\ Len(rows) \in Nat
  BY LenOfRows
<1>2. PICK end \in [0 .. n -> 0 .. Len(rows)] :
         /\ end[0] = 0 /\ end[n] = Len(rows)
         /\ \A k \in 1 .. n :
               /\ end[k - 1] <= end[k]
               /\ RightRows(SubSeq(rows, end[k - 1] + 1, end[k]), keys[k], option)
  BY DEF RightAnswer
<1> HIDE DEF n
<1>3. \A k \in 0 .. n : end[k] \in Nat /\ end[k] <= Len(rows)
  BY <1>1, <1>2
<1>4. \E k \in 1 .. n : end[k - 1] < i /\ i <= end[k]
  <2> SUFFICES ASSUME \A k \in 1 .. n : end[k - 1] < i => end[k] < i PROVE FALSE
    BY <1>1, <1>3
  <2> DEFINE S == {m \in Nat : m \in 0 .. n => end[m] < i}
  <2>1. 0 \in S
    BY <1>2
  <2>2. ASSUME NEW m \in Nat, m \in S PROVE m + 1 \in S
    <3> SUFFICES ASSUME m + 1 \in 0 .. n PROVE end[m + 1] < i
      OBVIOUS
    <3>1. m + 1 \in 1 .. n /\ m \in 0 .. n /\ (m + 1) - 1 = m
      BY <1>1
    <3> QED
      BY <2>2, <3>1
  <2> HIDE DEF S
  <2>3. n \in S
    BY <1>1, <2>1, <2>2, Induction
  <2>4. end[n] < i
    BY <1>1, <2>3 DEF S
  <2> QED
    BY <1>1, <1>2, <2>4
<1>5. PICK k \in 1 .. n : end[k - 1] < i /\ i <= end[k]
  BY <1>4
<1> DEFINE a == end[k - 1]
           b == end[k]
           part == SubSeq(rows, a + 1, b)
<1>6. a \in Nat /\ b \in Nat /\ a <= b /\ b <= Len(rows) /\ a < i /\ i <= b
  <2>1. k \in 0 .. n /\ k - 1 \in 0 .. n
    BY <1>1
  <2> QED
    BY <1>2, <1>3, <1>5, <2>1
<1>7. RightRows(part, keys[k], option)
  BY <1>2
<1> HIDE DEF a, b
<1>8. /\ Len(part) = b - a
      /\ DOMAIN part = 1 .. b - a
      /\ \A x \in 1 .. b - a : part[x] = rows[a + x]
  BY <1>6, Between
<1>9. i - a \in DOMAIN part /\ part[i - a] = rows[i] /\ i \in Nat
  <2> HIDE DEF part
  <2>1. i \in Nat
    BY <1>1
  <2>2. i - a \in 1 .. b - a /\ a + (i - a) = i
    BY <1>6, <2>1
  <2>3. part[i - a] = rows[a + (i - a)]
    BY <1>8, <2>2
  <2> QED
    BY <1>8, <2>1, <2>2, <2>3
<1> HIDE DEF part
<1>10. part[i - a].name = keys[k]
  BY <1>7, <1>9 DEF RightRows
<1>11. \/ part[i - a].row = NoRow /\ part[i - a].score = 0
       \/ part[i - a].row \in GtRow /\ part[i - a].score = Rounded(Score(keys[k], part[i - a].row))
  <2>1. CASE Len(part) = 1 /\ part[1].row = NoRow /\ part[1].score = 0
    <3>1. b - a = 1
      BY <1>8, <2>1
    <3>2. i - a = 1
      BY <1>6, <1>9, <3>1
    <3> QED
      BY <2>1, <3>2
  <2>2. CASE /\ {part[j].row : j \in DOMAIN part} \subseteq GtRow
             /\ \A j \in DOMAIN part : part[j].score = Rounded(Score(keys[k], part[j].row))
    BY <1>9, <2>2
  <2> QED
    BY <1>7, <2>1, <2>2 DEF RightRows
<1> QED
  BY <1>9, <1>10, <1>11

=============================================================================
