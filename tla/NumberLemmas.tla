---------------------------- MODULE NumberLemmas ----------------------------
(***************************************************************************)
(* Facts about sets of natural numbers, about division and about           *)
(* sequences that the other proofs rest on.                                *)
(***************************************************************************)
EXTENDS Integers, Sequences, FiniteSets, FiniteSetTheorems, WellFoundedInduction, TLAPS

(* Every non-empty set of naturals has a least element.                    *)
LEMMA LeastNumber ==
  ASSUME NEW T, T \subseteq Nat, T # {}
  PROVE  \E x \in T : \A y \in T : x <= y
<1>1. PICK x \in T : \A y \in T : ~ (<<y, x>> \in OpToRel(<, Nat))
  BY NatLessThanWellFounded, WFMin
<1>2. \A y \in T : ~(y < x)
  BY <1>1 DEF OpToRel
<1>3. QED BY <1>2

(* A finite set of naturals leaves one free, and the lowest one is no higher  *)
(* than the size of the set.                                               *)
LEMMA LowestFree ==
  ASSUME NEW bits, bits \subseteq Nat, IsFiniteSet(bits)
  PROVE  \E i \in 0 .. Cardinality(bits) : i \notin bits /\ \A j \in 0 .. i - 1 : j \in bits
<1> DEFINE free == Nat \ bits
<1>1. Cardinality(bits) \in Nat
  BY FS_CardinalityType
<1>2. PICK c \in 0 .. Cardinality(bits) : c \notin bits
  <2>1. Cardinality(0 .. Cardinality(bits)) = Cardinality(bits) + 1
    BY <1>1, FS_Interval
  <2>2. ~ (0 .. Cardinality(bits) \subseteq bits)
    BY <1>1, <2>1, FS_Subset
  <2>3. QED BY <2>2
<1>3. PICK x \in free : \A y \in free : x <= y
  <2>1. free \subseteq Nat /\ free # {}
    BY <1>1, <1>2
  <2> HIDE DEF free
  <2>2. QED BY <2>1, LeastNumber
<1>4. x \in 0 .. Cardinality(bits) /\ x \notin bits
  BY <1>1, <1>2, <1>3
<1>5. \A j \in 0 .. x - 1 : j \in bits
  BY <1>3
<1>6. QED BY <1>4, <1>5

(* Every finite set of naturals has a bound: a smallest one without would     *)
(* have one once a member is taken away.                                   *)
LEMMA FiniteIsBounded ==
  ASSUME NEW T, T \subseteq Nat, IsFiniteSet(T)
  PROVE  \E b \in Nat : \A y \in T : y <= b
<1> DEFINE Bounded(S) == \E b \in Nat : \A y \in S : y <= b
           Sizes == {n \in Nat : \E S \in SUBSET Nat :
                       IsFiniteSet(S) /\ Cardinality(S) = n /\ ~Bounded(S)}
<1>1. SUFFICES ASSUME ~Bounded(T) PROVE FALSE
  OBVIOUS
<1> HIDE DEF Bounded
<1>2. Cardinality(T) \in Sizes
  BY <1>1, FS_CardinalityType
<1>3. PICK n \in Sizes : \A k \in Sizes : n <= k
  <2>1. Sizes \subseteq Nat /\ Sizes # {}
    BY <1>2
  <2> HIDE DEF Sizes
  <2>2. QED BY <2>1, LeastNumber
<1>4. PICK S \in SUBSET Nat : IsFiniteSet(S) /\ Cardinality(S) = n /\ ~Bounded(S)
  OBVIOUS
<1>5. S # {}
  BY <1>4 DEF Bounded
<1>6. PICK x \in S : TRUE
  BY <1>5
<1>7. IsFiniteSet(S \ {x}) /\ Cardinality(S \ {x}) = n - 1 /\ n - 1 \in Nat
  <2>1. IsFiniteSet(S \ {x}) /\ Cardinality(S \ {x}) = n - 1
    BY <1>4, <1>6, FS_RemoveElement
  <2>2. Cardinality(S \ {x}) \in Nat
    BY <2>1, FS_CardinalityType
  <2>3. QED BY <2>1, <2>2
<1>8. Bounded(S \ {x})
  <2>1. n - 1 \notin Sizes
    BY <1>3, <1>7
  <2>2. QED BY <1>7, <2>1
<1>9. PICK b \in Nat : \A y \in S \ {x} : y <= b
  BY <1>8 DEF Bounded
<1>10. \A y \in S : y <= b + x
  BY <1>6, <1>9
<1>11. b + x \in Nat
  BY <1>6
<1>12. Bounded(S)
  BY <1>10, <1>11 DEF Bounded
<1>13. QED BY <1>4, <1>12

(* Every bounded, and so every finite, non-empty set of naturals has a         *)
(* greatest element.                                                       *)
LEMMA GreatestBelow ==
  ASSUME NEW T, T \subseteq Nat, T # {}, NEW c \in Nat, \A y \in T : y <= c
  PROVE  \E x \in T : \A y \in T : y <= x
<1> DEFINE Bounds == {b \in Nat : \A y \in T : y <= b}
<1>1. PICK b \in Bounds : \A d \in Bounds : b <= d
  <2>1. Bounds \subseteq Nat /\ Bounds # {}
    OBVIOUS
  <2> HIDE DEF Bounds
  <2>2. QED BY <2>1, LeastNumber
<1>2. b \in T
  <2>1. SUFFICES ASSUME b \notin T PROVE FALSE
    OBVIOUS
  <2>2. \A y \in T : y < b /\ y <= b - 1
    BY <2>1
  <2>3. b - 1 \in Nat
    <3>1. PICK y \in T : y < b
      BY <2>2
    <3>2. y \in Nat /\ b \in Nat
      BY <3>1
    <3>3. QED BY <3>1, <3>2
  <2>4. b - 1 \in Bounds
    BY <2>2, <2>3
  <2>5. QED BY <1>1, <2>4
<1>3. QED BY <1>1, <1>2

LEMMA GreatestNumber ==
  ASSUME NEW T, T \subseteq Nat, T # {}, IsFiniteSet(T)
  PROVE  \E x \in T : \A y \in T : y <= x
BY FiniteIsBounded, GreatestBelow

(* Division rounds towards zero.                                           *)
LEMMA Division ==
  ASSUME NEW a \in Nat, NEW d \in Nat \ {0}
  PROVE  a \div d \in Nat /\ d * (a \div d) <= a /\ d * (a \div d) \in Nat
<1>1. a = (d * (a \div d)) + (a % d) /\ a % d \in 0 .. d - 1 /\ a \div d \in Int
  OBVIOUS
<1>2. d * (a \div d) \in Int /\ d * (a \div d) <= a /\ d * (a \div d) > -d
  BY <1>1
<1>3. a \div d >= 0
  <2>1. SUFFICES ASSUME a \div d <= -1 PROVE FALSE
    BY <1>1
  <2>2. d * (a \div d) <= d * (-1)
    BY <1>1, <2>1
  <2>3. QED BY <1>2, <2>2
<1>4. d * (a \div d) >= 0
  BY <1>1, <1>3
<1>5. QED BY <1>1, <1>2, <1>3, <1>4

(* A number that differs from a remainder by a multiple of W has it.       *)
LEMMA Remainder ==
  ASSUME NEW W \in Nat \ {0}, NEW q \in Int, NEW r \in 0 .. W - 1
  PROVE  (W * q + r) % W = r
<1> DEFINE a == W * q + r
           p == a \div W
<1>1. a \in Int /\ W \in Int /\ W > 0 /\ r \in Int
  OBVIOUS
<1> HIDE DEF a
<1>2. p \in Int /\ a % W \in 0 .. W - 1 /\ a = (W * p) + (a % W)
  BY <1>1
<1> HIDE DEF p
<1>3. W * (q - p) = (a % W) - r
  <2>1. W * (q - p) = W * q - W * p
    BY <1>1, <1>2
  <2>2. W * p \in Int /\ W * q \in Int
    BY <1>1, <1>2
  <2>3. QED BY <1>1, <1>2, <2>1, <2>2 DEF a
<1>4. (a % W) - r < W /\ (a % W) - r > -W
  BY <1>1, <1>2
<1>5. CASE q - p >= 1
  <2>1. W * (q - p) >= W
    BY <1>1, <1>2, <1>5
  <2>2. QED BY <1>1, <1>2, <1>3, <1>4, <2>1
<1>6. CASE q - p <= -1
  <2>1. W * (q - p) <= -W
    BY <1>1, <1>2, <1>6
  <2>2. QED BY <1>1, <1>2, <1>3, <1>4, <2>1
<1>7. CASE q - p = 0
  <2>1. W * (q - p) = 0
    BY <1>1, <1>7
  <2>2. a % W = r
    BY <1>1, <1>2, <1>3, <2>1
  <2>3. QED BY <2>2 DEF a
<1>8. q - p >= 1 \/ q - p <= -1 \/ q - p = 0
  BY <1>2
<1>9. QED BY <1>5, <1>6, <1>7, <1>8

(* Remainders add up.                                                       *)
LEMMA RemainderOfSum ==
  ASSUME NEW W \in Nat \ {0}, NEW a \in Int, NEW b \in Int
  PROVE  (a % W) \in 0 .. W - 1 /\ ((a % W) + b) % W = (a + b) % W
<1> DEFINE p == a \div W
           c == (a % W) + b
           q == c \div W
<1>1. p \in Int /\ a % W \in 0 .. W - 1 /\ a = (W * p) + (a % W)
  OBVIOUS
<1> HIDE DEF p
<1>2. c \in Int
  BY <1>1
<1> HIDE DEF c
<1>3. q \in Int /\ c % W \in 0 .. W - 1 /\ c = (W * q) + (c % W)
  BY <1>2
<1> HIDE DEF q
<1>4. a + b = (W * (p + q)) + (c % W)
  <2>1. W * (p + q) = W * p + W * q /\ W * p \in Int /\ W * q \in Int
    BY <1>1, <1>3
  <2>2. QED BY <1>1, <1>3, <2>1 DEF c
<1>5. p + q \in Int
  BY <1>1, <1>3
<1>6. ((W * (p + q)) + (c % W)) % W = c % W
  BY <1>3, <1>5, Remainder
<1>7. QED BY <1>1, <1>4, <1>6 DEF c

LEMMA RemainderOfSmall ==
  ASSUME NEW W \in Nat \ {0}, NEW a \in 0 .. W - 1
  PROVE  a % W = a
<1>1. W * 0 + a = a
  OBVIOUS
<1>2. QED BY <1>1, Remainder

(* Going on from a remainder, the way gone is what the two differ by.       *)
LEMMA RemainderAhead ==
  ASSUME NEW W \in Nat \ {0}, NEW s \in 0 .. W - 1, NEW k \in 0 .. W - 1
  PROVE  (((s + k) % W) - s) % W = k
<1>1. (((s + k) % W) + (-s)) % W = ((s + k) + (-s)) % W
  <2>1. s + k \in Int /\ -s \in Int
    OBVIOUS
  <2>2. QED BY <2>1, RemainderOfSum
<1>2. (s + k) + (-s) = k
  OBVIOUS
<1>3. (s + k) % W \in Int
  OBVIOUS
<1>4. ((s + k) % W) + (-s) = ((s + k) % W) - s
  BY <1>3
<1>5. QED BY <1>1, <1>2, <1>4, RemainderOfSmall

(* What is where in two sequences put together.                            *)
LEMMA Joined ==
  ASSUME NEW B, NEW s \in Seq(B), NEW t \in Seq(B)
  PROVE  /\ s \o t \in Seq(B) /\ Len(s \o t) = Len(s) + Len(t)
         /\ \A x \in 1 .. Len(s) : (s \o t)[x] = s[x]
         /\ \A x \in 1 .. Len(t) : (s \o t)[Len(s) + x] = t[x]
<1>1. s \o t \in Seq(B) /\ Len(s \o t) = Len(s) + Len(t)
  OBVIOUS
<1>2. \A x \in 1 .. Len(s) : (s \o t)[x] = s[x]
  OBVIOUS
<1>3. \A x \in 1 .. Len(t) : (s \o t)[Len(s) + x] = t[x]
  OBVIOUS
<1>4. QED BY <1>1, <1>2, <1>3

(* What is where when a sequence is cut after its first n elements.         *)
LEMMA Cut ==
  ASSUME NEW B, NEW s \in Seq(B), NEW n \in 0 .. Len(s)
  PROVE  /\ SubSeq(s, 1, n) \in Seq(B) /\ Len(SubSeq(s, 1, n)) = n
         /\ \A x \in 1 .. n : SubSeq(s, 1, n)[x] = s[x]
         /\ SubSeq(s, n + 1, Len(s)) \in Seq(B)
         /\ Len(SubSeq(s, n + 1, Len(s))) = Len(s) - n
         /\ \A x \in 1 .. Len(s) - n : SubSeq(s, n + 1, Len(s))[x] = s[n + x]
<1>1. SubSeq(s, 1, n) \in Seq(B) /\ Len(SubSeq(s, 1, n)) = n
  OBVIOUS
<1>2. \A x \in 1 .. n : SubSeq(s, 1, n)[x] = s[x]
  OBVIOUS
<1>3. SubSeq(s, n + 1, Len(s)) \in Seq(B)
  OBVIOUS
<1>4. Len(SubSeq(s, n + 1, Len(s))) = Len(s) - n
  OBVIOUS
<1>5. \A x \in 1 .. Len(s) - n : SubSeq(s, n + 1, Len(s))[x] = s[n + x]
  OBVIOUS
<1>6. QED BY <1>1, <1>2, <1>3, <1>4, <1>5
=============================================================================
