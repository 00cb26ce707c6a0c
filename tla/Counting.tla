----------------------------- MODULE Counting ------------------------------
(***************************************************************************)
(* What the proofs about reference counts need to know of Cardinality(): a *)
(* count changes by one when one member comes or goes, and a condition     *)
(* counts as 0 or 1; and what those about sequence numbers need to know of *)
(* the remainder.                                                          *)
(***************************************************************************)
EXTENDS Integers, FiniteSets, FiniteSetTheorems, TLAPS

\* A finite set has a natural number of members, which is 0 only without any.
LEMMA CountType ==
  ASSUME NEW S, IsFiniteSet(S)
  PROVE  /\ Cardinality(S) \in Nat
         /\ Cardinality(S) = 0 <=> S = {}
         /\ \A x \in S : Cardinality(S) > 0
<1>1. Cardinality(S) \in Nat
  BY FS_CardinalityType
<1>2. Cardinality(S) = 0 <=> S = {}
  BY FS_EmptySet
<1> QED
  BY <1>1, <1>2

\* The part of a finite set is finite.
LEMMA CountPart ==
  ASSUME NEW S, IsFiniteSet(S), NEW T, T \subseteq S
  PROVE  IsFiniteSet(T)
BY FS_Subset

\* Nothing but x comes or goes.
LEMMA CountChange ==
  ASSUME NEW S, IsFiniteSet(S), NEW T, NEW x, \A y : y # x => (y \in S <=> y \in T)
  PROVE  /\ IsFiniteSet(T)
         /\ Cardinality(S) \in Nat /\ Cardinality(T) \in Nat
         /\ Cardinality(T) = Cardinality(S) + (IF x \in T THEN 1 ELSE 0)
                                            - (IF x \in S THEN 1 ELSE 0)
<1>1. Cardinality(S) \in Nat
  BY FS_CardinalityType
<1>2. CASE x \in S /\ x \notin T
  <2>1. T = S \ {x}
    BY <1>2
  <2>2. IsFiniteSet(T) /\ Cardinality(T) = Cardinality(S) - 1
    BY <1>2, <2>1, FS_RemoveElement
  <2> QED
    BY <1>1, <1>2, <2>2, FS_CardinalityType
<1>3. CASE x \notin S /\ x \in T
  <2>1. T = S \cup {x}
    BY <1>3
  <2>2. IsFiniteSet(T) /\ Cardinality(T) = Cardinality(S) + 1
    BY <1>3, <2>1, FS_AddElement
  <2> QED
    BY <1>1, <1>3, <2>2, FS_CardinalityType
<1>4. CASE x \in S <=> x \in T
  <2>1. T = S
    BY <1>4
  <2> QED
    BY <1>1, <1>4, <2>1
<1> QED
  BY <1>2, <1>3, <1>4

\* A condition, counted as the part of a set of one member where it holds.
LEMMA CountIf ==
  ASSUME NEW x, NEW S, S \subseteq {x}
  PROVE  /\ IsFiniteSet(S)
         /\ Cardinality(S) = IF x \in S THEN 1 ELSE 0
<1>1. CASE x \in S
  <2>1. S = {x}
    BY <1>1
  <2> QED
    BY <1>1, <2>1, FS_Singleton
<1>2. CASE x \notin S
  <2>1. S = {}
    BY <1>2
  <2> QED
    BY <1>2, <2>1, FS_EmptySet
<1> QED
  BY <1>1, <1>2

\* A set of natural numbers has a smallest member.
LEMMA SmallestMember ==
  ASSUME NEW T, T \subseteq Nat, T # {}
  PROVE  \E h \in T : \A g \in T : h <= g
<1> DEFINE R == {p \in Nat \X Nat : p[1] < p[2]}
<1>1. OpToRel(<, Nat) = R
  BY Zenon DEF OpToRel
<1>2. IsWellFoundedOn(R, Nat)
  BY <1>1, NatLessThanWellFounded, Zenon
<1> HIDE DEF R
<1>3. PICK h \in T : \A g \in T : <<g, h>> \notin R
  BY <1>2, WFMin
<1>4. ASSUME NEW g \in T PROVE h <= g
  <2>1. g \in Nat /\ h \in Nat /\ <<g, h>> \notin R
    BY <1>3, <1>4
  <2> QED
    BY <2>1 DEF R
<1> QED
  BY <1>4

\* A part of a finite set has no more members.
LEMMA CountFewer ==
  ASSUME NEW S, IsFiniteSet(S), NEW T, T \subseteq S
  PROVE  /\ IsFiniteSet(T)
         /\ Cardinality(T) \in Nat /\ Cardinality(S) \in Nat
         /\ Cardinality(T) <= Cardinality(S)
BY FS_Subset, FS_CardinalityType

\* The only member of a set.
LEMMA CountOne ==
  ASSUME NEW S, IsFiniteSet(S), Cardinality(S) = 1, NEW x \in S
  PROVE  S = {x}
<1>1. IsFiniteSet(S \ {x}) /\ Cardinality(S \ {x}) = 0
  BY FS_RemoveElement
<1>2. S \ {x} = {}
  BY <1>1, FS_EmptySet
<1> QED
  BY <1>2

\* The remainder of a number in the first period, and in the one before it.
LEMMA Remainder ==
  ASSUME NEW m \in Nat \ {0}, NEW x \in Int
  PROVE  /\ x = (m * (x \div m)) + (x % m) /\ x \div m \in Int /\ x % m \in 0 .. m - 1
         /\ 0 <= x /\ x < m => x % m = x
         /\ -m <= x /\ x < 0 => x % m = x + m
<1>1. x = (m * (x \div m)) + (x % m) /\ x \div m \in Int /\ x % m \in 0 .. m - 1
  OBVIOUS
<1>2. 0 <= x /\ x < m => x % m = x
  OBVIOUS
<1>3. -m <= x /\ x < 0 => x % m = x + m
  OBVIOUS
<1> QED
  BY <1>1, <1>2, <1>3

\* A product with a difference.
LEMMA Distributes ==
  ASSUME NEW m \in Int, NEW u \in Int, NEW v \in Int
  PROVE  m * (u - v) = (m * u) - (m * v)
OBVIOUS

\* Counters that wrap around at 2h: of two values that are less than h apart,
\* the later one is less than h ahead of the other.
LEMMA LaterOfTwo ==
  ASSUME NEW h \in Nat \ {0}, NEW n \in Nat, NEW f \in 1 .. h, NEW g \in 1 .. h,
         NEW d, d = (((n + f) % (2 * h)) - ((n + g) % (2 * h))) % (2 * h)
  PROVE  (0 < d /\ d < h) <=> f > g
<1> DEFINE m == 2 * h
           a == (n + f) % m
           b == (n + g) % m
           q == ((n + f) \div m) - ((n + g) \div m)
<1>1. m \in Nat \ {0} /\ n + f \in Int /\ n + g \in Int /\ m = 2 * h
  OBVIOUS
<1> HIDE DEF m
<1>2. /\ n + f = (m * ((n + f) \div m)) + a /\ (n + f) \div m \in Int
      /\ n + g = (m * ((n + g) \div m)) + b /\ (n + g) \div m \in Int
      /\ a \in 0 .. m - 1 /\ b \in 0 .. m - 1
  BY <1>1, Remainder
<1> DEFINE u == (n + f) \div m
           v == (n + g) \div m
<1>3. u \in Int /\ v \in Int /\ q = u - v /\ q \in Int
  BY <1>2
<1>4. n + f = (m * u) + a /\ n + g = (m * v) + b
  BY <1>2
<1> HIDE DEF a, b, q, u, v
<1>5. m * q = (m * u) - (m * v) /\ m * u \in Int /\ m * v \in Int
  BY <1>1, <1>3, Distributes
<1>6. q \in Int /\ f - g = (m * q) + (a - b)
  BY <1>1, <1>2, <1>3, <1>4, <1>5
<1>7. /\ q >= 2 => m * q >= 2 * m
      /\ q <= -2 => m * q <= -2 * m
  BY <1>1, <1>6
<1>8. q \in {-1, 0, 1}
  BY <1>1, <1>2, <1>6, <1>7
<1>9. a - b = (f - g) - (m * q)
  BY <1>1, <1>2, <1>6
<1>10. m * (-1) = -m /\ m * 0 = 0 /\ m * 1 = m
  BY <1>1
<1>11. a - b \in {f - g, (f - g) + m, (f - g) - m}
  BY <1>1, <1>2, <1>8, <1>9, <1>10
<1>12. d = (a - b) % m
  BY DEF a, b, m
<1>13. a - b \in Int /\ -m < a - b /\ a - b < m
  BY <1>1, <1>2
<1>14. /\ 0 <= a - b => d = a - b
       /\ a - b < 0 => d = (a - b) + m
  <2> DEFINE x == a - b
  <2> HIDE DEF x
  <2>1. x = a - b /\ x \in Int /\ -m <= x /\ x < m /\ d = x % m
    BY <1>1, <1>12, <1>13 DEF x
  <2>2. /\ 0 <= x /\ x < m => x % m = x
        /\ -m <= x /\ x < 0 => x % m = x + m
    BY <1>1, <2>1, Remainder
  <2> QED
    BY <2>1, <2>2
<1> QED
  BY <1>1, <1>11, <1>13, <1>14

============================================================================
