------------------------------- MODULE DataLemmas -------------------------------
(***************************************************************************)
(* Facts about data that the proofs of several modules need.  Induction is *)
(* by the least counterexample: the set of the numbers that violate a      *)
(* claim has a least element, and the one below it does not violate it.    *)
(***************************************************************************)
EXTENDS Integers, Sequences, FiniteSets, FiniteSetsExt, Functions, WellFoundedInduction,
        SequenceTheorems, FiniteSetTheorems, TLAPS

\* The natural numbers are well ordered.
LEMMA LeastNat ==
    ASSUME NEW S \in SUBSET Nat, S # {}
    PROVE  \E m \in S : \A k \in S : m <= k
<1>. DEFINE R == OpToRel(<, Nat)
<1>1. IsWellFoundedOn(R, Nat)
  BY NatLessThanWellFounded
<1>2. \A p, q \in Nat : p < q => <<p, q>> \in R
  BY DEF OpToRel
<1>. HIDE DEF R
<1>3. PICK m \in S : \A y \in S : ~ (<<y, m>> \in R)
  BY <1>1, WFMin
<1>4. \A k \in S : ~(k < m)
  BY <1>2, <1>3
<1>. QED  BY <1>4

\* A sequence in which every element is below the next one is increasing.
LEMMA Increasing ==
    ASSUME NEW s \in Seq(Int), \A k \in 2 .. Len(s) : s[k - 1] < s[k]
    PROVE  \A p, q \in 1 .. Len(s) : p < q => s[p] < s[q]
<1>. SUFFICES ASSUME NEW p \in 1 .. Len(s), NEW o \in 1 .. Len(s), p < o, ~(s[p] < s[o])
              PROVE  FALSE
  OBVIOUS
<1>. DEFINE S == {q \in 1 .. Len(s) : p < q /\ ~(s[p] < s[q])}
<1>1. Len(s) \in Nat /\ \A q \in 1 .. Len(s) : s[q] \in Int
  BY ElementOfSeq, LenProperties
<1>2. S \in SUBSET Nat /\ o \in S
  BY <1>1
<1>3. PICK m \in S : \A k \in S : m <= k
  BY <1>2, LeastNat
<1>4. m - 1 \in 1 .. Len(s) /\ m \in 2 .. Len(s)
  BY <1>1, <1>3
<1>5. m - 1 \notin S
  BY <1>1, <1>3
<1>6. s[p] < s[m - 1] \/ m - 1 = p
  BY <1>1, <1>3, <1>4, <1>5
<1>7. s[m - 1] < s[m] /\ s[m - 1] \in Int /\ s[m] \in Int /\ s[p] \in Int
  BY <1>1, <1>4
<1>. QED  BY <1>3, <1>6, <1>7

\* Division with remainder, for a number and its successor.
LEMMA Division ==
    ASSUME NEW d \in Nat \ {0}, NEW n \in Nat
    PROVE  /\ n \div d \in Nat /\ n % d \in 0 .. d - 1
           /\ n = d * (n \div d) + (n % d)
           /\ \/ (n + 1) \div d = n \div d /\ (n + 1) % d = (n % d) + 1
              \/ (n + 1) \div d = (n \div d) + 1 /\ (n + 1) % d = 0 /\ n % d = d - 1
BY Z3

\* What counting in rows of d reaches before, and at, the end of m rows.
LEMMA Rows ==
    ASSUME NEW d \in Nat \ {0}, NEW m \in Nat
    PROVE  /\ 0 \div d = 0 /\ 0 % d = 0
           /\ (d * m) \div d = m /\ (d * m) % d = 0
           /\ \A n \in Nat : n < d * m => n \div d < m
<1>1. 0 \div d = 0 /\ 0 % d = 0
  OBVIOUS
<1>2. (d * m) \div d = m /\ (d * m) % d = 0
  OBVIOUS
<1>3. ASSUME NEW n \in Nat, n < d * m PROVE n \div d < m
  BY <1>3
<1>. QED  BY <1>1, <1>2, <1>3

\* Sequences of one or two elements.
LEMMA ShortSequences ==
    ASSUME NEW a, NEW b
    PROVE  /\ Append(<<>>, a) = <<a>> /\ Append(<<a>>, b) = <<a, b>>
           /\ Head(<<a>>) = a /\ Tail(<<a>>) = <<>>
           /\ Head(<<a, b>>) = a /\ Tail(<<a, b>>) = <<b>>
           /\ <<a>> # <<>> /\ <<a, b>> # <<>>
<1>1. Append(<<>>, a) = <<a>>
  OBVIOUS
<1>2. Append(<<a>>, b) = <<a, b>>
  <2>1. /\ <<a>> \in Seq({a, b}) /\ Len(<<a>>) = 1 /\ <<a>>[1] = a
        /\ <<a, b>> \in Seq({a, b}) /\ Len(<<a, b>>) = 2 /\ <<a, b>>[1] = a /\ <<a, b>>[2] = b
    OBVIOUS
  <2>2. /\ Append(<<a>>, b) \in Seq({a, b}) /\ Len(Append(<<a>>, b)) = 2
        /\ Append(<<a>>, b)[1] = a /\ Append(<<a>>, b)[2] = b
    BY <2>1, AppendProperties
  <2>. DEFINE u == Append(<<a>>, b)
              v == <<a, b>>
  <2>3. u \in Seq({a, b}) /\ v \in Seq({a, b}) /\ Len(u) = 2 /\ Len(v) = 2
    BY <2>1, <2>2
  <2>4. \A i \in 1 .. 2 : u[i] = v[i]
    BY <2>1, <2>2
  <2>. HIDE DEF u, v
  <2>5. u = v
    BY <2>3, <2>4, SeqEqual
  <2>. QED  BY <2>5 DEF u, v
<1>3. Head(<<a>>) = a /\ Head(<<a, b>>) = a
  OBVIOUS
<1>4. Tail(<<a>>) = <<>>
  OBVIOUS
<1>5. Tail(<<a, b>>) = <<b>>
  OBVIOUS
<1>6. <<a>> # <<>> /\ <<a, b>> # <<>>
  OBVIOUS
<1>. QED  BY <1>1, <1>2, <1>3, <1>4, <1>5, <1>6

\* The least element of a set of natural numbers.
LEMMA MinIs ==
    ASSUME NEW S \in SUBSET Nat, S # {}
    PROVE  Min(S) \in S /\ \A x \in S : Min(S) <= x
<1>1. \E m \in S : \A k \in S : m <= k
  BY LeastNat
<1>. QED  BY <1>1 DEF Min

\* A bounded set of natural numbers has a greatest element.
LEMMA MaxIs ==
    ASSUME NEW S \in SUBSET Nat, S # {}, NEW top \in Nat, \A x \in S : x <= top
    PROVE  Max(S) \in S /\ \A x \in S : x <= Max(S)
<1>. DEFINE B == {k \in Nat : \A x \in S : x <= k}
<1>1. PICK m \in B : \A k \in B : m <= k
  <2>1. B \in SUBSET Nat /\ top \in B
    OBVIOUS
  <2>. HIDE DEF B
  <2>. QED  BY <2>1, LeastNat
<1>2. m \in Nat /\ \A x \in S : x \in Nat /\ x <= m
  OBVIOUS
<1>3. m \in S
  <2>. SUFFICES ASSUME m \notin S PROVE FALSE
    OBVIOUS
  <2>0. \A x \in S : x <= m - 1
    <3>. SUFFICES ASSUME NEW x \in S PROVE x <= m - 1
      OBVIOUS
    <3>1. x \in Nat /\ x <= m /\ x # m
      BY <1>2
    <3>. QED  BY <1>2, <3>1
  <2>1. m # 0
    <3>1. PICK x \in S : TRUE
      OBVIOUS
    <3>. QED  BY <1>2, <2>0, <3>1
  <2>2. m - 1 \in Nat /\ ~(m <= m - 1)
    BY <1>2, <2>1
  <2>3. m - 1 \in B
    BY <2>0, <2>2
  <2>. QED  BY <1>1, <2>2, <2>3
<1>4. \E x \in S : \A y \in S : x >= y
  BY <1>2, <1>3
<1>5. Max(S) \in S /\ \A y \in S : Max(S) >= y
  BY <1>4 DEF Max
<1>. HIDE DEF Max
<1>6. Max(S) \in Nat
  BY <1>5
<1>. QED  BY <1>2, <1>5, <1>6

\* Counting the elements that one does not exceed numbers the elements of a
\* finite set of natural numbers.
LEMMA Numbering ==
    ASSUME NEW S \in SUBSET Nat, IsFiniteSet(S)
    PROVE  /\ Cardinality(S) \in Nat
           /\ \A i \in S : Cardinality({j \in S : j <= i}) \in 1 .. Cardinality(S)
           /\ \A i, k \in S :
                  Cardinality({j \in S : j <= i}) = Cardinality({j \in S : j <= k}) => i = k
           /\ \A n \in 1 .. Cardinality(S) : \E i \in S : Cardinality({j \in S : j <= i}) = n
<1>. DEFINE UpTo(i) == {j \in S : j <= i}
            f == [i \in S |-> Cardinality(UpTo(i))]
<1>1. Cardinality(S) \in Nat
  BY FS_CardinalityType
<1>2. ASSUME NEW i \in S PROVE IsFiniteSet(UpTo(i)) /\ Cardinality(UpTo(i)) \in 1 .. Cardinality(S)
  <2>1. UpTo(i) \in SUBSET S /\ i \in UpTo(i)
    OBVIOUS
  <2>. HIDE DEF UpTo
  <2>2. IsFiniteSet(UpTo(i)) /\ Cardinality(UpTo(i)) <= Cardinality(S)
    BY <2>1, FS_Subset
  <2>3. Cardinality(UpTo(i)) \in Nat /\ Cardinality(UpTo(i)) # 0
    BY <2>1, <2>2, FS_CardinalityType, FS_EmptySet
  <2>. QED  BY <1>1, <2>2, <2>3
<1>3. ASSUME NEW i \in S, NEW k \in S, i < k PROVE Cardinality(UpTo(i)) < Cardinality(UpTo(k))
  <2>1. UpTo(i) \in SUBSET UpTo(k) /\ k \in UpTo(k) /\ k \notin UpTo(i)
    <3>1. \A j \in S : j \in Nat
      OBVIOUS
    <3>2. \A j \in S : j <= i => j <= k
      BY <1>3, <3>1
    <3>3. ~(k <= i) /\ k <= k
      BY <1>3, <3>1
    <3>. QED  BY <3>2, <3>3
  <2>. HIDE DEF UpTo
  <2>2. /\ Cardinality(UpTo(i)) <= Cardinality(UpTo(k))
        /\ Cardinality(UpTo(i)) # Cardinality(UpTo(k))
    BY <1>2, <2>1, FS_Subset
  <2>3. Cardinality(UpTo(i)) \in Nat /\ Cardinality(UpTo(k)) \in Nat
    BY <1>1, <1>2
  <2>. QED  BY <2>2, <2>3
<1>4. ASSUME NEW i \in S, NEW k \in S, Cardinality(UpTo(i)) = Cardinality(UpTo(k)) PROVE i = k
  <2>1. Cardinality(UpTo(i)) \in Nat
    BY <1>1, <1>2
  <2>2. ~(i < k) /\ ~(k < i)
    BY <1>3, <1>4, <2>1
  <2>. QED  BY <2>2
<1>. HIDE DEF UpTo
<1>5. f \in Injection(S, 1 .. Cardinality(S))
  BY <1>2, <1>4 DEF Injection, IsInjective
<1>6. IsFiniteSet(1 .. Cardinality(S)) /\ Cardinality(1 .. Cardinality(S)) = Cardinality(S)
  <2>1. 1 \in Int /\ Cardinality(S) \in Int
        /\ (IF 1 > Cardinality(S) THEN 0 ELSE Cardinality(S) - 1 + 1) = Cardinality(S)
    BY <1>1
  <2>. QED  BY <2>1, FS_Interval
<1>7. f \in Surjection(S, 1 .. Cardinality(S))
  BY <1>5, <1>6, FS_Injection
<1>8. \A n \in 1 .. Cardinality(S) : \E i \in S : Cardinality(UpTo(i)) = n
  BY <1>7 DEF Surjection
<1>. QED  BY <1>1, <1>2, <1>4, <1>8 DEF UpTo
===============================================================================
