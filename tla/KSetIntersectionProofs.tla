------------------------ MODULE KSetIntersectionProofs ------------------------
(***************************************************************************)
(* Proofs about KSetIntersection, for any set of argument lists: the loops *)
(* stay inside the lists, and what is returned is exactly what two lists   *)
(* share, although every single merge may skip shared elements.            *)
(***************************************************************************)
EXTENDS KSetIntersection, DataLemmas

(***************************************************************************)
(* One merge.  A merge of A with B gives up an element x of both only when *)
(* it passes x in B together with an element of A that is below x but      *)
(* above everything that B has below x.  The merge of B with A gives up x  *)
(* only in the opposite case, so the two cannot both miss it.              *)
(***************************************************************************)
\* A has an element below x that is above all that B has below x.
Ahead(A, B, x) == \E u \in Range(A) : u < x /\ \A v \in Range(B) : v < x => v < u

\* What both lists have before the positions p and q is in H or given up.
Covered(A, B, H, p, q) ==
    \A a \in DOMAIN A, b \in DOMAIN B :
        A[a] = B[b] /\ (a < p \/ b < q) => A[a] \in H \/ Ahead(A, B, A[a])

\* The two orders of a pair do not both give up an element.
LEMMA NotBothAhead ==
    ASSUME NEW A \in Seq(Int), NEW B \in Seq(Int), NEW x \in Int, Ahead(A, B, x), Ahead(B, A, x)
    PROVE  FALSE
<1>1. Range(A) \subseteq Int /\ Range(B) \subseteq Int
  BY ElementOfSeq, LenProperties DEF Range
<1>. QED  BY <1>1 DEF Ahead

\* A list that passes the check is strictly increasing: positions and values
\* are ordered alike.
LEMMA SaneIncreasing ==
    ASSUME NEW s \in Seq(Int), SaneList(s)
    PROVE  /\ Len(s) \in Nat /\ DOMAIN s = 1 .. Len(s)
           /\ \A p \in 1 .. Len(s) : s[p] \in Int
           /\ \A p, q \in 1 .. Len(s) : (p < q <=> s[p] < s[q]) /\ (p = q <=> s[p] = s[q])
<1>1. Len(s) \in Nat /\ DOMAIN s = 1 .. Len(s) /\ \A p \in 1 .. Len(s) : s[p] \in Int
  BY ElementOfSeq, LenProperties
<1>2. \A k \in 2 .. Len(s) : s[k - 1] < s[k]
  BY <1>1 DEF SaneList
<1>3. \A p, q \in 1 .. Len(s) : p < q => s[p] < s[q]
  BY <1>2, Increasing
<1>. QED  BY <1>1, <1>3

\* The inner loop stops at the first element that is not below the bound.
LEMMA SkipBelowStops ==
    ASSUME NEW list \in Seq(Int), NEW k \in Nat \ {0}, k <= Len(list), NEW bound \in Int,
           NEW m, m = SkipBelow(list, k, bound)
    PROVE  /\ m \in k .. Len(list) + 1
           /\ \A n \in k .. m - 1 : list[n] < bound
           /\ m <= Len(list) => list[m] >= bound
<1>1. Len(list) \in Nat /\ \A n \in 1 .. Len(list) : list[n] \in Int
  BY ElementOfSeq, LenProperties
<1>. DEFINE Stop == {n \in k .. Len(list) + 1 : n <= Len(list) => list[n] >= bound}
<1>2. Stop \in SUBSET Nat /\ Len(list) + 1 \in Stop
  BY <1>1
<1>3. PICK s \in Stop : \A n \in Stop : s <= n
  BY <1>2, LeastNat
<1>4. \A n \in k .. s - 1 : list[n] < bound
  BY <1>1, <1>3
<1>. QED  BY <1>3, <1>4 DEF SkipBelow

\* Skipping in either list leaves nothing uncovered.
LEMMA SkipCovers ==
    ASSUME NEW A \in Seq(Int), NEW B \in Seq(Int), SaneList(A), SaneList(B), NEW H,
           NEW p \in 1 .. Len(A), NEW q \in 1 .. Len(B), NEW m, NEW n
    PROVE  /\ Covered(A, B, H, p, q) /\ m = SkipBelow(A, p, B[q]) => Covered(A, B, H, m, q)
           /\ Covered(A, B, H, p, q) /\ n = SkipBelow(B, q, A[p]) => Covered(A, B, H, p, n)
<1>1. /\ Len(A) \in Nat /\ DOMAIN A = 1 .. Len(A)
      /\ \A a \in 1 .. Len(A) : A[a] \in Int
      /\ \A a, b \in 1 .. Len(A) : a < b <=> A[a] < A[b]
  BY SaneIncreasing
<1>2. /\ Len(B) \in Nat /\ DOMAIN B = 1 .. Len(B)
      /\ \A a \in 1 .. Len(B) : B[a] \in Int
      /\ \A a, b \in 1 .. Len(B) : a < b <=> B[a] < B[b]
  BY SaneIncreasing
<1>3. ASSUME Covered(A, B, H, p, q), m = SkipBelow(A, p, B[q])
      PROVE  Covered(A, B, H, m, q)
  <2>1. m \in p .. Len(A) + 1 /\ \A x \in p .. m - 1 : A[x] < B[q]
    <3>1. p \in Nat \ {0} /\ p <= Len(A) /\ B[q] \in Int
      BY <1>1, <1>2
    <3>. QED  BY <1>3, <3>1, SkipBelowStops
  <2>2. ASSUME NEW a \in 1 .. Len(A), NEW b \in 1 .. Len(B), A[a] = B[b], a < m, ~(a < p)
        PROVE  b < q
    BY <1>1, <1>2, <2>1, <2>2
  <2>. QED  BY <1>1, <1>2, <1>3, <2>2 DEF Covered
<1>4. ASSUME Covered(A, B, H, p, q), n = SkipBelow(B, q, A[p])
      PROVE  Covered(A, B, H, p, n)
  <2>1. n \in q .. Len(B) + 1 /\ \A x \in q .. n - 1 : B[x] < A[p]
    <3>1. q \in Nat \ {0} /\ q <= Len(B) /\ A[p] \in Int
      BY <1>1, <1>2
    <3>. QED  BY <1>4, <3>1, SkipBelowStops
  <2>2. ASSUME NEW a \in 1 .. Len(A), NEW b \in 1 .. Len(B), A[a] = B[b], b < n, ~(b < q)
        PROVE  a < p
    BY <1>1, <1>2, <2>1, <2>2
  <2>. QED  BY <1>1, <1>2, <1>4, <2>2 DEF Covered
<1>. QED  BY <1>3, <1>4

\* Nor does passing the two heads: if they differ, the one of B may be shared,
\* and then the one of A is the reason why it is given up.
LEMMA StepCovers ==
    ASSUME NEW A \in Seq(Int), NEW B \in Seq(Int), SaneList(A), SaneList(B), NEW H,
           NEW p \in 1 .. Len(A), NEW q \in 1 .. Len(B), A[p] >= B[q],
           NEW n, n = SkipBelow(B, q, A[p]), n <= Len(B), Covered(A, B, H, p, q)
    PROVE  Covered(A, B, IF A[p] = B[n] THEN H \cup {A[p]} ELSE H, p + 1, n + 1)
<1>1. /\ Len(A) \in Nat /\ DOMAIN A = 1 .. Len(A)
      /\ \A a \in 1 .. Len(A) : A[a] \in Int
      /\ \A a, b \in 1 .. Len(A) : (a < b <=> A[a] < A[b]) /\ (a = b <=> A[a] = A[b])
  BY SaneIncreasing
<1>2. /\ Len(B) \in Nat /\ DOMAIN B = 1 .. Len(B)
      /\ \A a \in 1 .. Len(B) : B[a] \in Int
      /\ \A a, b \in 1 .. Len(B) : (a < b <=> B[a] < B[b]) /\ (a = b <=> B[a] = B[b])
  BY SaneIncreasing
<1>3. /\ n \in q .. Len(B)
      /\ \A x \in q .. n - 1 : B[x] < A[p]
      /\ B[n] >= A[p]
  <2>1. q \in Nat \ {0} /\ q <= Len(B) /\ A[p] \in Int
    BY <1>1, <1>2
  <2>2. n \in q .. Len(B) + 1 /\ (\A x \in q .. n - 1 : B[x] < A[p]) /\ B[n] >= A[p]
    BY <2>1, SkipBelowStops
  <2>. QED  BY <1>2, <2>2
<1>4. Covered(A, B, H, p, n)
  BY SkipCovers
<1>. DEFINE G == IF A[p] = B[n] THEN H \cup {A[p]} ELSE H
<1>5. SUFFICES ASSUME NEW a \in 1 .. Len(A), NEW b \in 1 .. Len(B), A[a] = B[b],
                      a < p + 1 \/ b < n + 1
               PROVE  A[a] \in G \/ Ahead(A, B, A[a])
  BY <1>1, <1>2 DEF Covered
<1>6. CASE a < p \/ b < n
  <2>1. A[a] \in H \/ Ahead(A, B, A[a])
    BY <1>1, <1>2, <1>4, <1>5, <1>6 DEF Covered
  <2>. QED  BY <2>1
<1>7. CASE a = p /\ ~(b < n)
  <2>1. b = n
    <3>. SUFFICES ASSUME n < b PROVE FALSE
      BY <1>2, <1>3, <1>7
    <3>. QED  BY <1>1, <1>2, <1>3, <1>5, <1>7
  <2>. QED  BY <1>5, <1>7, <2>1
<1>8. CASE a # p /\ b = n /\ ~(a < p)
  <2>1. A[p] < A[a] /\ A[a] = B[n]
    BY <1>1, <1>5, <1>8
  <2>2. ASSUME NEW v \in Range(B), v < A[a]
        PROVE  v < A[p]
    <3>1. PICK x \in 1 .. Len(B) : v = B[x]
      BY <1>2 DEF Range
    <3>2. x < n
      BY <1>1, <1>2, <1>3, <2>1, <2>2, <3>1
    <3>3. CASE x \in q .. n - 1
      BY <1>3, <3>1, <3>3
    <3>4. CASE x < q
      <4>1. B[x] < B[q] /\ B[q] <= A[p] /\ A[p] \in Int /\ B[x] \in Int /\ B[q] \in Int
        BY <1>1, <1>2, <3>4
      <4>2. B[q] # A[p] \/ B[q] = A[p]
        OBVIOUS
      <4>. QED  BY <3>1, <4>1
    <3>. QED  BY <1>2, <1>3, <3>2, <3>3, <3>4
  <2>3. A[p] \in Range(A)
    BY <1>1 DEF Range
  <2>. QED  BY <2>1, <2>2, <2>3 DEF Ahead
<1>. QED  BY <1>1, <1>2, <1>3, <1>5, <1>6, <1>7, <1>8

(***************************************************************************)
(* The loops over the pairs.                                               *)
(***************************************************************************)
\* The merge of the lists k and l, in this order, is behind the loops.
Passed(k, l) == pc = "done" \/ k < seta \/ (k = seta /\ l < setb)

\* It has left nothing uncovered.
Through(k, l) ==
    \A x \in Range(sets[k]) \cap Range(sets[l]) : x \in htab \/ Ahead(sets[k], sets[l], x)

LoopInv ==
    /\ TypeOK
    /\ pc = "check" => /\ seta = 1 /\ setb = 1 /\ i = 1 /\ j = 1
                       /\ htab = {} /\ rc = "SUCCESS"
    /\ pc = "merge" => /\ Sane /\ rc = "SUCCESS"
                       /\ Covered(sets[seta], sets[setb], htab, i, j)
    /\ pc = "done" => (rc = "SUCCESS" <=> Sane)
    /\ htab \subseteq Shared(sets)
    /\ pc # "check" /\ Sane =>
          \A k, l \in DOMAIN sets : k # l /\ Passed(k, l) => Through(k, l)

\* The lists handed to the intersection are finite lists of integers.
LEMMA ListsTyped ==
    ASSUME TypeOK
    PROVE  /\ Len(sets) \in Nat /\ DOMAIN sets = 1 .. Len(sets)
           /\ \A k \in DOMAIN sets :
                 /\ sets[k] \in Seq(Int) /\ Len(sets[k]) \in Nat
                 /\ DOMAIN sets[k] = 1 .. Len(sets[k])
                 /\ \A p \in 1 .. Len(sets[k]) : sets[k][p] \in Int
<1>1. sets \in Seq(Seq(Int))
  BY InputsAssumption DEF TypeOK
<1>. QED  BY <1>1, ElementOfSeq, LenProperties

\* The loop's invariant holds before the call.
LEMMA LoopInvInit == Init => LoopInv
<1>. SUFFICES ASSUME Init PROVE LoopInv
  OBVIOUS
<1>1. TypeOK
  BY DEF Init, TypeOK
<1>. QED  BY <1>1 DEF Init, LoopInv

\* A refused call keeps the invariant.
LEMMA LoopInvRefuse == LoopInv /\ Refuse => LoopInv'
<1>. SUFFICES ASSUME LoopInv, Refuse PROVE LoopInv'
  OBVIOUS
<1>1. TypeOK'
  BY DEF Refuse, LoopInv, TypeOK, Elements
<1>2. Sane' <=> Sane
  BY DEF Refuse, Sane, SaneList
<1>3. sets = <<>> \/ ~Sane
  BY DEF Refuse
<1>4. DOMAIN sets = {} \/ ~Sane
  BY <1>3, ListsTyped, EmptySeq DEF LoopInv
<1>. QED  BY <1>1, <1>2, <1>4 DEF Refuse, LoopInv, Shared, Passed, Through, Ahead

\* An accepted call keeps the invariant.
LEMMA LoopInvAccept == LoopInv /\ Accept => LoopInv'
<1>. SUFFICES ASSUME LoopInv, Accept PROVE LoopInv'
  OBVIOUS
<1>0. /\ pc = "check" /\ pc' = "merge" /\ seta = 1 /\ setb = 1 /\ i = 1 /\ j = 1
      /\ htab = {} /\ rc = "SUCCESS" /\ Sane
      /\ UNCHANGED <<sets, seta, setb, i, j, htab, rc>>
  BY DEF Accept, LoopInv
<1>1. 1 \in DOMAIN sets
  <2>1. sets \in Seq(Seq(Int)) /\ sets # <<>>
    BY InputsAssumption DEF LoopInv, TypeOK, Accept
  <2>. QED  BY <2>1, EmptySeq, LenProperties
<1>2. TypeOK'
  BY <1>0, <1>1 DEF LoopInv, TypeOK, Elements
<1>3. Sane' /\ Shared(sets)' = Shared(sets)
  BY <1>0 DEF Sane, SaneList, Shared
<1>4. Covered(sets[seta], sets[setb], htab, i, j)'
  BY <1>0, <1>1, ListsTyped DEF Covered, LoopInv
<1>5. \A k, l \in DOMAIN sets : ~Passed(k, l)'
  BY <1>0, ListsTyped DEF Passed, LoopInv
<1>. QED  BY <1>0, <1>2, <1>3, <1>4, <1>5 DEF LoopInv

\* An iteration of the merge.
LEMMA LoopInvMerge == LoopInv /\ Merge => LoopInv'
<1>. SUFFICES ASSUME LoopInv, Merge PROVE LoopInv'
  OBVIOUS
<1>. DEFINE A == sets[seta]
            B == sets[setb]
            m == SkipBelow(A, i, B[j])
            n == SkipBelow(B, j, A[m])
<1>1. /\ pc = "merge" /\ seta \in DOMAIN sets /\ setb \in DOMAIN sets /\ seta # setb
      /\ UNCHANGED <<sets, pc, seta, setb, rc>>
      /\ rc = "SUCCESS" /\ Sane /\ Covered(A, B, htab, i, j)
  BY DEF LoopInv, TypeOK, Merge, PairOver
<1>2. /\ A \in Seq(Int) /\ B \in Seq(Int) /\ SaneList(A) /\ SaneList(B)
      /\ Len(A) \in Nat /\ DOMAIN A = 1 .. Len(A)
      /\ Len(B) \in Nat /\ DOMAIN B = 1 .. Len(B)
      /\ \A p \in 1 .. Len(A) : A[p] \in Int
      /\ \A p \in 1 .. Len(B) : B[p] \in Int
  BY <1>1, ListsTyped DEF LoopInv, Sane
<1>3. i \in 1 .. Len(A) /\ j \in 1 .. Len(B)
  BY <1>2 DEF Merge, PairOver, LoopInv, TypeOK
<1>4. m \in i .. Len(A) + 1 /\ (m <= Len(A) => A[m] >= B[j])
  <2>1. i \in Nat \ {0} /\ i <= Len(A) /\ B[j] \in Int
    BY <1>2, <1>3
  <2>. QED  BY <1>2, <2>1, SkipBelowStops
<1>5. Covered(A, B, htab, m, j)
  BY <1>1, <1>2, <1>3, SkipCovers
<1>6. /\ i' \in Nat \ {0} /\ j' \in Nat \ {0}
      /\ htab \subseteq htab' /\ htab' \subseteq htab \cup (Range(A) \cap Range(B))
      /\ Covered(A, B, htab', i', j')
  <2>1. CASE m > Len(A)
    <3>1. i' = m /\ j' = j /\ htab' = htab
      BY <2>1 DEF Merge
    <3>. QED  BY <1>3, <1>4, <1>5, <3>1
  <2>2. CASE ~(m > Len(A))
    <3>1. m \in 1 .. Len(A)
      BY <1>2, <1>3, <1>4, <2>2
    <3>2. n \in j .. Len(B) + 1
      <4>1. j \in Nat \ {0} /\ j <= Len(B) /\ A[m] \in Int
        BY <1>2, <1>3, <3>1
      <4>. QED  BY <1>2, <4>1, SkipBelowStops
    <3>3. CASE n > Len(B)
      <4>1. i' = m /\ j' = n /\ htab' = htab
        BY <2>2, <3>3 DEF Merge
      <4>2. Covered(A, B, htab, m, n)
        BY <1>2, <1>3, <1>5, <3>1, SkipCovers
      <4>. QED  BY <1>3, <1>4, <3>1, <3>2, <4>1, <4>2
    <3>4. CASE ~(n > Len(B))
      <4>1. /\ i' = m + 1 /\ j' = n + 1
            /\ htab' = IF A[m] = B[n] THEN htab \cup {A[m]} ELSE htab
        BY <2>2, <3>4 DEF Merge, StepPast
      <4>2. Covered(A, B, IF A[m] = B[n] THEN htab \cup {A[m]} ELSE htab, m + 1, n + 1)
        <5>1. A[m] >= B[j] /\ n <= Len(B)
          BY <1>2, <1>4, <3>1, <3>2, <3>4
        <5>. QED  BY <1>2, <1>3, <1>5, <3>1, <5>1, StepCovers
      <4>3. n \in 1 .. Len(B)
        BY <1>2, <1>3, <3>2, <3>4
      <4>4. A[m] = B[n] => A[m] \in Range(A) \cap Range(B)
        BY <1>2, <3>1, <4>3 DEF Range
      <4>. HIDE DEF A, B, m, n
      <4>5. htab \subseteq htab' /\ htab' \subseteq htab \cup (Range(A) \cap Range(B))
        BY <4>1, <4>4
      <4>6. Covered(A, B, htab', i', j')
        BY <4>1, <4>2
      <4>7. i' \in Nat \ {0} /\ j' \in Nat \ {0}
        BY <3>1, <4>1, <4>3
      <4>. QED  BY <4>5, <4>6, <4>7
    <3>. QED  BY <3>3, <3>4
  <2>. QED  BY <2>1, <2>2
<1>. HIDE DEF m, n
<1>7. htab' \subseteq Shared(sets) /\ htab' \subseteq Elements
  <2>1. Range(A) \cap Range(B) \subseteq Shared(sets)
    BY <1>1 DEF Shared
  <2>2. Shared(sets) \subseteq Elements
    BY DEF Shared, Elements
  <2>. QED  BY <1>6, <2>1, <2>2 DEF LoopInv
<1>8. TypeOK'
  BY <1>1, <1>6, <1>7 DEF LoopInv, TypeOK, Elements
<1>9. ASSUME NEW k \in DOMAIN sets, NEW l \in DOMAIN sets, k # l, Passed(k, l)'
      PROVE  Through(k, l)'
  <2>1. Passed(k, l)
    BY <1>1, <1>9 DEF Passed
  <2>2. Through(k, l)
    BY <1>1, <1>9, <2>1 DEF LoopInv
  <2>. QED  BY <1>1, <1>6, <2>2 DEF Through, Ahead
<1>10. Sane' /\ Shared(sets)' = Shared(sets)
  BY <1>1 DEF Sane, SaneList, Shared
<1>. QED  BY <1>1, <1>6, <1>7, <1>8, <1>9, <1>10 DEF LoopInv

\* The end of a merge, and of a row of merges.
LEMMA LoopInvNextPair == LoopInv /\ NextPair => LoopInv'
<1>. SUFFICES ASSUME LoopInv, NextPair PROVE LoopInv'
  OBVIOUS
<1>1. /\ pc = "merge" /\ seta \in DOMAIN sets /\ setb \in DOMAIN sets
      /\ UNCHANGED <<sets, htab, rc>> /\ i' = 1 /\ j' = 1
      /\ rc = "SUCCESS" /\ Sane
      /\ Covered(sets[seta], sets[setb], htab, i, j)
  BY DEF LoopInv, TypeOK, NextPair
<1>2. Len(sets) \in Nat /\ DOMAIN sets = 1 .. Len(sets)
  BY ListsTyped DEF LoopInv
<1>3. \/ setb < Len(sets) /\ seta' = seta /\ setb' = setb + 1 /\ pc' = "merge"
      \/ setb = Len(sets) /\ seta < Len(sets) /\ seta' = seta + 1 /\ setb' = 1 /\ pc' = "merge"
      \/ setb = Len(sets) /\ seta = Len(sets) /\ pc' = "done"
  BY <1>1, <1>2 DEF NextPair, MoreLists, FirstPartner
<1>4. TypeOK'
  BY <1>1, <1>2, <1>3 DEF LoopInv, TypeOK, Elements
<1>5. pc' = "merge" => Covered(sets[seta], sets[setb], htab, i, j)'
  <2>. SUFFICES ASSUME pc' = "merge"
                PROVE  Covered(sets[seta], sets[setb], htab, i, j)'
    OBVIOUS
  <2>1. seta' \in DOMAIN sets /\ setb' \in DOMAIN sets
    BY <1>1, <1>4 DEF TypeOK
  <2>. QED  BY <1>1, <2>1, ListsTyped DEF Covered, LoopInv
<1>6. ASSUME seta # setb
      PROVE  Through(seta, setb)
  <2>. DEFINE A == sets[seta]
              B == sets[setb]
  <2>1. /\ Len(A) \in Nat /\ DOMAIN A = 1 .. Len(A)
        /\ Len(B) \in Nat /\ DOMAIN B = 1 .. Len(B)
    BY <1>1, ListsTyped DEF LoopInv
  <2>2. i > Len(A) \/ j > Len(B)
    BY <1>6 DEF NextPair, PairOver
  <2>3. i \in Nat /\ j \in Nat
    BY DEF LoopInv, TypeOK
  <2>4. \A a \in DOMAIN A, b \in DOMAIN B :
            A[a] = B[b] => A[a] \in htab \/ Ahead(A, B, A[a])
    BY <1>1, <2>1, <2>2, <2>3 DEF Covered
  <2>. QED  BY <2>4 DEF Through, Range
<1>7. ASSUME NEW k \in DOMAIN sets, NEW l \in DOMAIN sets, k # l, Passed(k, l)'
      PROVE  Through(k, l)'
  <2>1. Passed(k, l) \/ (k = seta /\ l = setb)
    BY <1>1, <1>2, <1>3, <1>7 DEF Passed
  <2>2. Through(k, l)
    BY <1>1, <1>6, <1>7, <2>1 DEF LoopInv
  <2>. QED  BY <1>1, <2>2 DEF Through, Ahead
<1>8. Sane' /\ Shared(sets)' = Shared(sets)
  BY <1>1 DEF Sane, SaneList, Shared
<1>. QED  BY <1>1, <1>3, <1>4, <1>5, <1>7, <1>8 DEF LoopInv

\* Every step keeps the invariant.
LEMMA LoopInvNext == LoopInv /\ [Next]_vars => LoopInv'
<1>1. LoopInv /\ UNCHANGED vars => LoopInv'
  <2>. SUFFICES ASSUME LoopInv, UNCHANGED vars PROVE LoopInv'
    OBVIOUS
  <2>1. TypeOK' /\ (Sane' <=> Sane) /\ Shared(sets)' = Shared(sets)
    BY DEF vars, LoopInv, TypeOK, Elements, Sane, SaneList, Shared
  <2>2. Covered(sets[seta], sets[setb], htab, i, j)' <=> Covered(sets[seta], sets[setb], htab, i, j)
    BY DEF vars, Covered, Ahead
  <2>3. \A k, l \in DOMAIN sets : (Passed(k, l)' <=> Passed(k, l)) /\ (Through(k, l)' <=> Through(k, l))
    BY DEF vars, Passed, Through, Ahead
  <2>. QED  BY <2>1, <2>2, <2>3 DEF vars, LoopInv
<1>. QED
  BY <1>1, LoopInvRefuse, LoopInvAccept, LoopInvMerge, LoopInvNextPair DEF Next, Returned

\* The loop's invariant holds in every reachable state.
LEMMA LoopInvThm == Spec => []LoopInv
BY LoopInvInit, LoopInvNext, PTL DEF Spec

(***************************************************************************)
(* What the invariant says of the result.                                  *)
(***************************************************************************)
\* quo_set_get_k_set_intersection() never reads outside of its lists and finds
\* nothing that was not in one.
THEOREM KSetTyping == Spec => []TypeOK
<1>1. LoopInv => TypeOK
  BY DEF LoopInv
<1>. QED  BY <1>1, LoopInvThm, PTL

\* The invariant gives each shared element its entry for each pair of lists.
LEMMA PairsCompleteInv == LoopInv => PairsComplete
<1>. SUFFICES ASSUME LoopInv, pc # "check", Sane,
                     NEW k \in DOMAIN sets, NEW l \in DOMAIN sets, k # l, MergedBothWays(k, l),
                     NEW x \in Range(sets[k]) \cap Range(sets[l])
              PROVE  x \in htab
  BY DEF PairsComplete
<1>1. Passed(k, l) /\ Passed(l, k)
  BY DEF MergedBothWays, Passed
<1>2. Through(k, l) /\ Through(l, k)
  BY <1>1 DEF LoopInv
<1>3. x \in htab \/ (Ahead(sets[k], sets[l], x) /\ Ahead(sets[l], sets[k], x))
  BY <1>2 DEF Through
<1>4. sets[k] \in Seq(Int) /\ sets[l] \in Seq(Int) /\ x \in Int
  BY ListsTyped DEF LoopInv, Range
<1>. QED  BY <1>3, <1>4, NotBothAhead

\* The two merges of a pair together miss nothing, whatever the lists.
THEOREM PairsCompleteThm == Spec => []PairsComplete
BY PairsCompleteInv, LoopInvThm, PTL

\* The result of quo_set_get_k_set_intersection() is exactly the set of the
\* elements of two lists or more, for any number of sorted lists of any length,
\* and an argument that is not sorted is refused.
THEOREM FindsAllSharedThm == Spec => []FindsAllShared
<1>1. LoopInv => FindsAllShared
  <2>. SUFFICES ASSUME LoopInv, pc = "done", Sane
                PROVE  Shared(sets) \subseteq htab
    BY DEF FindsAllShared, LoopInv
  <2>1. \A k, l \in DOMAIN sets :
            k # l => Range(sets[k]) \cap Range(sets[l]) \subseteq htab
    BY PairsCompleteInv DEF PairsComplete, MergedBothWays
  <2>. QED  BY <2>1 DEF Shared
<1>. QED  BY <1>1, LoopInvThm, PTL
===============================================================================
