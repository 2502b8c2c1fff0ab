------------------------------- MODULE XpmProofs -------------------------------
(***************************************************************************)
(* Proofs about Xpm, for any number of ranks, any sizes, any width of a    *)
(* size_t and any of the failures.  The inductive invariant is made in     *)
(* three layers, each proved with the ones before:                         *)
(*   - Together: the ranks are in one turn, at places that go together     *)
(*     (the one barrier serves three purposes and cannot tell them apart), *)
(*     and agree on the turns before;                                      *)
(*   - Links: whose segment is linked where, so that a path told twice     *)
(*     never leads to memory that somebody has mapped;                     *)
(*   - Memory: what has been written to the mapped segments.               *)
(* A rank that fails alone, or oversteps, keeps the others in its turn for *)
(* good; so none of the three needs a proviso about failures.              *)
(***************************************************************************)
EXTENDS Xpm, DataLemmas

(***************************************************************************)
(* The loop that adds up sizes.                                            *)
(***************************************************************************)
\* What the loop's running total is, when there is such a function.
Totals(s, a, b, t) ==
    t = [i \in a - 1 .. b |-> IF i < a THEN 0 ELSE t[i - 1] + s[i]]

\* The loop has a running total.
LEMMA TotalsExist ==
    ASSUME NEW a \in Int, NEW n \in Nat, NEW s, \A i \in a .. a + n - 1 : s[i] \in Nat
    PROVE  \E t : Totals(s, a, a + n - 1, t)
<1>. DEFINE Has(m) == \E t \in [a - 1 .. a + m - 1 -> Nat] :
                         /\ t[a - 1] = 0
                         /\ \A i \in a .. a + m - 1 : t[i] = t[i - 1] + s[i]
            Not == {m \in 0 .. n : ~Has(m)}
<1>1. Not = {}
  <2>. SUFFICES ASSUME Not # {} PROVE FALSE
    OBVIOUS
  <2>0. Not \in SUBSET Nat
    OBVIOUS
  <2>1. PICK m \in Not : \A k \in Not : m <= k
    BY <2>0, LeastNat
  <2>2. m # 0
    <3>1. Has(0)
      <4>. DEFINE t == [i \in a - 1 .. a - 1 |-> 0]
      <4>1. t \in [a - 1 .. a - 1 -> Nat] /\ t[a - 1] = 0
        OBVIOUS
      <4>2. a + 0 - 1 = a - 1 /\ \A i \in a .. a - 1 : FALSE
        OBVIOUS
      <4>. HIDE DEF t
      <4>. QED  BY <4>1, <4>2
    <3>. QED  BY <2>1, <3>1
  <2>. HIDE DEF Has
  <2>3. m \in Nat /\ m - 1 \in 0 .. n /\ m \in 0 .. n /\ ~Has(m)
    BY <2>1, <2>2
  <2>4. Has(m - 1)
    <3>1. m - 1 \notin Not
      BY <2>1, <2>3
    <3>. QED  BY <2>3, <3>1
  <2>5. PICK t \in [a - 1 .. a + (m - 1) - 1 -> Nat] :
            /\ t[a - 1] = 0
            /\ \A i \in a .. a + (m - 1) - 1 : t[i] = t[i - 1] + s[i]
    BY <2>4 DEF Has
  <2>. DEFINE e == a + m - 1
              u == [i \in a - 1 .. e |-> IF i = e THEN t[e - 1] + s[e] ELSE t[i]]
  <2>6. e \in Int /\ e - 1 = a + (m - 1) - 1 /\ e >= a /\ e \in a .. a + n - 1
    BY <2>2, <2>3
  <2>7. u \in [a - 1 .. e -> Nat]
    <3>1. ASSUME NEW i \in a - 1 .. e PROVE (IF i = e THEN t[e - 1] + s[e] ELSE t[i]) \in Nat
      <4>1. t \in [a - 1 .. e - 1 -> Nat] /\ s[e] \in Nat
        BY <2>6
      <4>2. CASE i = e
        <5>1. e - 1 \in a - 1 .. e - 1
          BY <2>6
        <5>. QED  BY <4>1, <4>2, <5>1
      <4>3. CASE i # e
        <5>1. i \in a - 1 .. e - 1
          BY <2>6, <4>3
        <5>. QED  BY <4>1, <4>3, <5>1
      <4>. QED  BY <4>2, <4>3
    <3>. QED  BY <3>1
  <2>8. u[a - 1] = 0
    BY <2>5, <2>6
  <2>9. ASSUME NEW i \in a .. e PROVE u[i] = u[i - 1] + s[i]
    <3>1. i \in a - 1 .. e /\ i - 1 \in a - 1 .. e /\ i - 1 # e
      BY <2>6, <2>9
    <3>2. u[i - 1] = t[i - 1]
      BY <3>1
    <3>3. CASE i = e
      BY <3>1, <3>2, <3>3
    <3>4. CASE i # e
      <4>1. i \in a .. a + (m - 1) - 1
        BY <2>6, <2>9, <3>4
      <4>2. u[i] = t[i] /\ t[i] = t[i - 1] + s[i]
        BY <2>5, <3>1, <3>4, <4>1
      <4>. QED  BY <3>2, <4>2
    <3>. QED  BY <3>3, <3>4
  <2>. HIDE DEF u
  <2>10. Has(m)
    BY <2>7, <2>8, <2>9 DEF Has
  <2>. QED  BY <2>3, <2>10
<1>2. Has(n)
  <2>. HIDE DEF Has
  <2>. QED  BY <1>1
<1>3. PICK t \in [a - 1 .. a + n - 1 -> Nat] :
          t[a - 1] = 0 /\ \A i \in a .. a + n - 1 : t[i] = t[i - 1] + s[i]
  BY <1>2
<1>4. \A i \in a - 1 .. a + n - 1 : t[i] = IF i < a THEN 0 ELSE t[i - 1] + s[i]
  BY <1>3
<1>5. t = [i \in a - 1 .. a + n - 1 |-> t[i]]
  OBVIOUS
<1>6. Totals(s, a, a + n - 1, t)
  BY <1>4, <1>5 DEF Totals
<1>. QED  BY <1>6

\* And only one.
LEMMA TotalsUnique ==
    ASSUME NEW a \in Int, NEW b \in Int, NEW c \in Int, NEW s, \A i \in a .. b : s[i] \in Nat,
           NEW t, Totals(s, a, b, t), NEW u, Totals(s, a, c, u), c <= b
    PROVE  \A i \in a - 1 .. c : t[i] = u[i] /\ u[i] \in Nat
<1>1. /\ \A i \in a - 1 .. b : t[i] = IF i < a THEN 0 ELSE t[i - 1] + s[i]
      /\ \A i \in a - 1 .. c : u[i] = IF i < a THEN 0 ELSE u[i - 1] + s[i]
  BY DEF Totals
<1>. DEFINE Good(i) == t[i] = u[i] /\ u[i] \in Nat
            Not == {m \in Nat : a - 1 + m <= c /\ ~Good(a - 1 + m)}
<1>2. Not = {}
  <2>. SUFFICES ASSUME Not # {} PROVE FALSE
    OBVIOUS
  <2>0. Not \in SUBSET Nat
    OBVIOUS
  <2>1. PICK m \in Not : \A k \in Not : m <= k
    BY <2>0, LeastNat
  <2>2. m # 0
    BY <1>1, <2>1
  <2>3. m - 1 \in Nat /\ m - 1 \notin Not /\ a - 1 + (m - 1) <= c
    BY <2>1, <2>2
  <2>4. Good(a - 1 + (m - 1))
    BY <2>3
  <2>. DEFINE i == a - 1 + m
  <2>5. i \in a .. c /\ i - 1 = a - 1 + (m - 1) /\ i \in a .. b
    BY <2>1, <2>2
  <2>. HIDE DEF i
  <2>6. t[i] = t[i - 1] + s[i] /\ u[i] = u[i - 1] + s[i] /\ s[i] \in Nat
    BY <1>1, <2>5
  <2>7. Good(i)
    BY <2>4, <2>5, <2>6
  <2>. QED  BY <2>1, <2>7 DEF i
<1>3. ASSUME NEW i \in a - 1 .. c PROVE Good(i)
  <2>1. i - (a - 1) \in Nat /\ a - 1 + (i - (a - 1)) = i /\ i <= c
    OBVIOUS
  <2>. HIDE DEF Good
  <2>2. i - (a - 1) \notin Not
    BY <1>2
  <2>. QED  BY <2>1, <2>2
<1>. QED  BY <1>3

\* What the loop adds up: nothing, or one more size than without its last round.
LEMMA AddedIs ==
    ASSUME NEW a \in Int, NEW b \in Int, a - 1 <= b, NEW s, \A i \in a .. b : s[i] \in Nat
    PROVE  /\ Added(s, a, b) \in Nat
           /\ b = a - 1 => Added(s, a, b) = 0
           /\ b >= a => Added(s, a, b) = Added(s, a, b - 1) + s[b]
<1>. DEFINE T(c) == CHOOSE t : t = [i \in a - 1 .. c |-> IF i < a THEN 0 ELSE t[i - 1] + s[i]]
<1>1. ASSUME NEW c \in Int, a - 1 <= c, c <= b
      PROVE  Added(s, a, c) = T(c)[c] /\ Totals(s, a, c, T(c)) /\ T(c)[c] \in Nat
  <2>1. \E t : Totals(s, a, c, t)
    <3>1. c - (a - 1) \in Nat /\ a + (c - (a - 1)) - 1 = c
      BY <1>1
    <3>2. \A i \in a .. c : s[i] \in Nat
      BY <1>1
    <3>. QED  BY <3>1, <3>2, TotalsExist
  <2>2. Totals(s, a, c, T(c))
    BY <2>1 DEF Totals
  <2>3. Added(s, a, c) = T(c)[c]
    BY DEF Added
  <2>4. c \in a - 1 .. c /\ \A i \in a .. c : s[i] \in Nat
    BY <1>1
  <2>. HIDE DEF T
  <2>5. PICK t : t = T(c)
    OBVIOUS
  <2>6. Totals(s, a, c, t) /\ c <= c /\ c \in Int
    BY <1>1, <2>2, <2>5
  <2>7. \A i \in a - 1 .. c : t[i] = t[i] /\ t[i] \in Nat
    BY <2>4, <2>6, TotalsUnique
  <2>. QED  BY <2>2, <2>3, <2>4, <2>5, <2>7
<1>. HIDE DEF T
<1>2. Added(s, a, b) \in Nat
  BY <1>1
<1>3. ASSUME b = a - 1 PROVE Added(s, a, b) = 0
  <2>1. T(b)[b] = 0
    <3>1. Totals(s, a, b, T(b)) /\ b \in a - 1 .. b /\ b < a
      BY <1>1, <1>3
    <3>. QED  BY <3>1 DEF Totals
  <2>. QED  BY <1>1, <2>1
<1>4. ASSUME b >= a PROVE Added(s, a, b) = Added(s, a, b - 1) + s[b]
  <2>1. b - 1 \in Int /\ a - 1 <= b - 1 /\ b - 1 <= b /\ b - 1 \in a - 1 .. b - 1 /\ b \in a - 1 .. b /\ ~(b < a)
    BY <1>4
  <2>2. /\ Added(s, a, b) = T(b)[b] /\ Totals(s, a, b, T(b))
        /\ Added(s, a, b - 1) = T(b - 1)[b - 1] /\ Totals(s, a, b - 1, T(b - 1))
    BY <1>1, <2>1
  <2>3. \A i \in a - 1 .. b - 1 : T(b)[i] = T(b - 1)[i] /\ T(b - 1)[i] \in Nat
    BY <2>1, <2>2, TotalsUnique
  <2>4. T(b)[b] = T(b)[b - 1] + s[b]
    BY <2>1, <2>2 DEF Totals
  <2>. QED  BY <2>1, <2>2, <2>3, <2>4
<1>. QED  BY <1>2, <1>3, <1>4

\* What is added up to a and from a on is what is added in one go.
LEMMA AddedOn ==
    ASSUME NEW a \in Nat, NEW b \in Int, a - 1 <= b, NEW s, \A i \in 0 .. b : s[i] \in Nat
    PROVE  /\ Added(s, 0, a - 1) \in Nat /\ Added(s, a, b) \in Nat
           /\ Added(s, 0, b) = Added(s, 0, a - 1) + Added(s, a, b)
<1>. DEFINE Good(c) == Added(s, 0, c) = Added(s, 0, a - 1) + Added(s, a, c)
            Not == {m \in Nat : a - 1 + m <= b /\ ~Good(a - 1 + m)}
<1>1. ASSUME NEW c \in Int, a - 1 <= c, c <= b
      PROVE  /\ Added(s, 0, c) \in Nat /\ Added(s, a, c) \in Nat
             /\ c = a - 1 => Added(s, a, c) = 0
             /\ c >= a => /\ Added(s, 0, c) = Added(s, 0, c - 1) + s[c]
                          /\ Added(s, a, c) = Added(s, a, c - 1) + s[c]
  <2>1. 0 \in Int /\ 0 - 1 <= c /\ \A i \in 0 .. c : s[i] \in Nat
    BY <1>1
  <2>2. \A i \in a .. c : s[i] \in Nat
    BY <1>1
  <2>3. Added(s, 0, c) \in Nat /\ (c >= 0 => Added(s, 0, c) = Added(s, 0, c - 1) + s[c])
    BY <2>1, AddedIs
  <2>4. /\ Added(s, a, c) \in Nat /\ (c = a - 1 => Added(s, a, c) = 0)
        /\ c >= a => Added(s, a, c) = Added(s, a, c - 1) + s[c]
    BY <1>1, <2>2, AddedIs
  <2>. QED  BY <2>3, <2>4
<1>2. Added(s, 0, a - 1) \in Nat /\ Added(s, a, a - 1) = 0
  BY <1>1
<1>. HIDE DEF Good
<1>3. Not = {}
  <2>. SUFFICES ASSUME Not # {} PROVE FALSE
    OBVIOUS
  <2>0. Not \in SUBSET Nat
    OBVIOUS
  <2>1. PICK m \in Not : \A k \in Not : m <= k
    BY <2>0, LeastNat
  <2>2. m # 0
    <3>1. Good(a - 1)
      BY <1>2 DEF Good
    <3>2. a - 1 + 0 = a - 1
      OBVIOUS
    <3>. QED  BY <2>1, <3>1, <3>2
  <2>3. m - 1 \in Nat /\ m - 1 \notin Not /\ a - 1 + (m - 1) <= b
    BY <2>1, <2>2
  <2>4. Good(a - 1 + (m - 1))
    BY <2>3
  <2>. DEFINE c == a - 1 + m
  <2>5. c \in Int /\ a - 1 <= c /\ c <= b /\ c >= a /\ c - 1 = a - 1 + (m - 1)
        /\ c - 1 \in Int /\ a - 1 <= c - 1 /\ c - 1 <= b
    BY <2>1, <2>2
  <2>. HIDE DEF c
  <2>6. /\ Added(s, 0, c) = Added(s, 0, c - 1) + s[c]
        /\ Added(s, a, c) = Added(s, a, c - 1) + s[c]
        /\ Added(s, a, c - 1) \in Nat /\ s[c] \in Nat
    BY <1>1, <2>5
  <2>7. Good(c)
    BY <1>2, <2>4, <2>5, <2>6 DEF Good
  <2>. QED  BY <2>1, <2>7 DEF c
<1>4. Good(b)
  <2>1. b - (a - 1) \in Nat /\ a - 1 + (b - (a - 1)) = b /\ b <= b
    OBVIOUS
  <2>2. b - (a - 1) \notin Not
    BY <1>3
  <2>. QED  BY <2>1, <2>2
<1>. QED  BY <1>1, <1>2, <1>4 DEF Good

(***************************************************************************)
(* Views.  Offset(s, q) is what the ranks below q asked for.               *)
(***************************************************************************)
Asked == [Rank -> 0 .. SIZE_MOD - 1]

Offset(s, q) == Added(s, 0, q - 1)

\* There is a rank 0.
LEMMA RankIs == N \in Nat /\ N > 0 /\ 0 \in Rank /\ SIZE_MOD \in Nat /\ SIZE_MOD > 1
BY XpmAssumption DEF Rank

\* The offsets grow from rank to rank by what each asked for.
LEMMA OffsetIs ==
    ASSUME NEW s \in Asked
    PROVE  /\ Offset(s, 0) = 0
           /\ \A q \in 0 .. N : Offset(s, q) \in Nat
           /\ \A q \in Rank : Offset(s, q + 1) = Offset(s, q) + s[q]
           /\ \A p, q \in 0 .. N : p <= q =>
                  Offset(s, p) <= Offset(s, q) /\ Offset(s, q) = Offset(s, p) + Added(s, p, q - 1)
<1>. USE RankIs
<1>1. \A i \in 0 .. N - 1 : s[i] \in Nat
  BY DEF Asked, Rank
<1>2. Offset(s, 0) = 0
  <2>1. 0 \in Int /\ 0 - 1 \in Int /\ 0 - 1 <= 0 - 1 /\ \A i \in 0 .. 0 - 1 : s[i] \in Nat
    OBVIOUS
  <2>. QED  BY <2>1, AddedIs DEF Offset
<1>3. ASSUME NEW q \in 0 .. N PROVE Offset(s, q) \in Nat
  <2>1. 0 \in Int /\ q - 1 \in Int /\ 0 - 1 <= q - 1 /\ \A i \in 0 .. q - 1 : s[i] \in Nat
    BY <1>1
  <2>. QED  BY <2>1, AddedIs DEF Offset
<1>4. ASSUME NEW q \in Rank PROVE Offset(s, q + 1) = Offset(s, q) + s[q]
  <2>1. 0 \in Int /\ q \in Int /\ 0 - 1 <= q /\ q >= 0 /\ \A i \in 0 .. q : s[i] \in Nat
    BY <1>1 DEF Rank
  <2>2. Added(s, 0, q) = Added(s, 0, q - 1) + s[q]
    BY <2>1, AddedIs
  <2>3. q + 1 - 1 = q
    BY <2>1
  <2>4. Offset(s, q + 1) = Added(s, 0, q) /\ Offset(s, q) = Added(s, 0, q - 1)
    BY <2>1, <2>3 DEF Offset
  <2>. QED  BY <2>2, <2>4
<1>5. ASSUME NEW p \in 0 .. N, NEW q \in 0 .. N, p <= q
      PROVE  Offset(s, p) <= Offset(s, q) /\ Offset(s, q) = Offset(s, p) + Added(s, p, q - 1)
  <2>1. p \in Nat /\ q - 1 \in Int /\ p - 1 <= q - 1 /\ \A i \in 0 .. q - 1 : s[i] \in Nat
    BY <1>1, <1>5
  <2>2. /\ Added(s, 0, p - 1) \in Nat /\ Added(s, p, q - 1) \in Nat
        /\ Added(s, 0, q - 1) = Added(s, 0, p - 1) + Added(s, p, q - 1)
    BY <2>1, AddedOn
  <2>. QED  BY <2>2 DEF Offset
<1>. QED  BY <1>2, <1>3, <1>4, <1>5

\* Every size that a view is made of is a size_t, and a rank's own extent is
\* exactly what it asked for, wrapped or not.
LEMMA ViewOfIs ==
    ASSUME NEW s \in Asked, NEW q \in Rank
    PROVE  /\ ViewOf(s, q).base = Offset(s, q) % SIZE_MOD /\ ViewOf(s, q).extent = s[q]
           /\ GlobalSize(s) = Offset(s, N) % SIZE_MOD
           /\ GlobalSize(s) \in 0 .. SIZE_MOD - 1 /\ Offset(s, q) % SIZE_MOD \in 0 .. SIZE_MOD - 1
<1>. USE RankIs
<1>1. q \in 0 .. N /\ q \in Int /\ s[q] \in 0 .. SIZE_MOD - 1 /\ N \in 0 .. N
  BY DEF Rank, Asked
<1>2. Added(s, q, q) = s[q]
  <2>1. /\ q - 1 <= q /\ (\A i \in q .. q : s[i] \in Nat) /\ q >= q
        /\ q - 1 \in Int /\ q - 1 <= q - 1 /\ (\A i \in q .. q - 1 : s[i] \in Nat)
    BY <1>1
  <2>2. Added(s, q, q) = Added(s, q, q - 1) + s[q]
    BY <1>1, <2>1, AddedIs
  <2>3. Added(s, q, q - 1) = 0
    BY <1>1, <2>1, AddedIs
  <2>. QED  BY <1>1, <2>2, <2>3
<1>3. s[q] % SIZE_MOD = s[q]
  BY <1>1
<1>4. Offset(s, q) \in Nat /\ Offset(s, N) \in Nat
  BY <1>1, OffsetIs
<1>5. Offset(s, q) % SIZE_MOD \in 0 .. SIZE_MOD - 1 /\ Offset(s, N) % SIZE_MOD \in 0 .. SIZE_MOD - 1
  BY <1>4
<1>. QED
  BY <1>2, <1>3, <1>5 DEF ViewOf, View, BaseOffset, RangeSum, GlobalSize, Offset

\* When the sizes together are a size_t nothing wraps: the views lie between
\* the offsets.
LEMMA ViewsWithin ==
    ASSUME NEW s \in Asked, Offset(s, N) < SIZE_MOD
    PROVE  /\ GlobalSize(s) = Offset(s, N)
           /\ \A q \in Rank : Bytes(ViewOf(s, q)) = Offset(s, q) + 1 .. Offset(s, q + 1)
           /\ \A a, b \in Rank : a <= b =>
                  Bytes(View(s, a, b)) = Offset(s, a) + 1 .. Offset(s, b + 1)
<1>. USE RankIs
<1>1. ASSUME NEW q \in 0 .. N
      PROVE  Offset(s, q) \in Nat /\ Offset(s, q) <= Offset(s, N) /\ Offset(s, q) % SIZE_MOD = Offset(s, q)
  <2>1. Offset(s, q) \in Nat /\ Offset(s, N) \in Nat /\ Offset(s, q) <= Offset(s, N)
    BY OffsetIs
  <2>. QED  BY <2>1
<1>2. GlobalSize(s) = Offset(s, N)
  <2>1. N \in 0 .. N
    OBVIOUS
  <2>. QED  BY <1>1, <2>1 DEF GlobalSize, RangeSum, Offset
<1>3. ASSUME NEW q \in Rank PROVE Bytes(ViewOf(s, q)) = Offset(s, q) + 1 .. Offset(s, q + 1)
  <2>1. q \in 0 .. N
    BY DEF Rank
  <2>2. ViewOf(s, q).base = Offset(s, q) /\ ViewOf(s, q).extent = s[q]
    BY <1>1, <2>1, ViewOfIs
  <2>3. Offset(s, q + 1) = Offset(s, q) + s[q]
    BY OffsetIs
  <2>. QED  BY <2>2, <2>3 DEF Bytes
<1>4. ASSUME NEW a \in Rank, NEW b \in Rank, a <= b
      PROVE  Bytes(View(s, a, b)) = Offset(s, a) + 1 .. Offset(s, b + 1)
  <2>1. a \in 0 .. N /\ b + 1 \in 0 .. N /\ a <= b + 1 /\ b + 1 - 1 = b
    BY <1>4 DEF Rank
  <2>2. Offset(s, b + 1) = Offset(s, a) + Added(s, a, b)
    BY <2>1, OffsetIs
  <2>3. Offset(s, a) \in Nat /\ Offset(s, b + 1) \in Nat /\ Offset(s, a) <= Offset(s, b + 1)
        /\ Offset(s, b + 1) <= Offset(s, N) /\ Offset(s, N) \in Nat
    <3>1. N \in 0 .. N
      OBVIOUS
    <3>. QED  BY <1>1, <2>1, <3>1, OffsetIs
  <2>4. Added(s, a, b) = Offset(s, b + 1) - Offset(s, a)
    <3>1. a \in Int /\ b \in Int /\ a - 1 <= b /\ \A i \in a .. b : s[i] \in Nat
      BY <1>4 DEF Rank, Asked
    <3>2. Added(s, a, b) \in Nat
      BY <3>1, AddedIs
    <3>. QED  BY <2>2, <2>3, <3>2
  <2>5. Added(s, a, b) % SIZE_MOD = Added(s, a, b)
    BY <2>3, <2>4
  <2>6. View(s, a, b).base = Offset(s, a) /\ View(s, a, b).extent = Added(s, a, b)
    BY <1>1, <2>1, <2>5 DEF View, BaseOffset, RangeSum, Offset
  <2>. QED  BY <2>2, <2>6 DEF Bytes
<1>. QED  BY <1>2, <1>3, <1>4

\* Each byte between two offsets lies in the part of one of the ranks between.
LEMMA PartsCover ==
    ASSUME NEW s \in Asked, NEW a \in Rank, NEW b \in Rank, a <= b,
           NEW i \in Offset(s, a) + 1 .. Offset(s, b + 1)
    PROVE  \E q \in a .. b : i \in Offset(s, q) + 1 .. Offset(s, q + 1)
<1>. DEFINE Reach == {q \in a .. b : i <= Offset(s, q + 1)}
<1>. USE RankIs
<1>1. a \in Nat /\ b \in Nat /\ a .. b \subseteq Rank /\ \A q \in a .. b : q \in 0 .. N /\ q + 1 \in 0 .. N
  BY DEF Rank
<1>2. \A q \in a .. b : Offset(s, q) \in Nat /\ Offset(s, q + 1) \in Nat
  BY <1>1, OffsetIs
<1>3. Reach \in SUBSET Nat /\ b \in Reach
  BY <1>1, <1>2
<1>4. PICK q \in Reach : \A p \in Reach : q <= p
  BY <1>3, LeastNat
<1>5. Offset(s, q) + 1 <= i
  <2>1. CASE q = a
    BY <2>1
  <2>2. CASE q # a
    <3>1. q - 1 \in a .. b /\ q - 1 \notin Reach /\ q - 1 + 1 = q
      BY <1>1, <1>4, <2>2
    <3>2. ~(i <= Offset(s, q))
      BY <3>1
    <3>. QED  BY <1>2, <1>4, <3>2
  <2>. QED  BY <2>1, <2>2
<1>. QED  BY <1>2, <1>4, <1>5

\* When the sizes wrap around, the view of the rank at which they do ends
\* beyond the segment.
LEMMA WrapsBeyond ==
    ASSUME NEW s \in Asked, ~(Offset(s, N) < SIZE_MOD)
    PROVE  \E q \in Rank : ~(Bytes(ViewOf(s, q)) \subseteq 1 .. GlobalSize(s))
<1>. DEFINE Reach == {q \in Rank : SIZE_MOD <= Offset(s, q + 1)}
<1>. USE RankIs
<1>1. \A q \in Rank : q \in Nat /\ q \in 0 .. N /\ q + 1 \in 0 .. N
  BY DEF Rank
<1>2. \A q \in 0 .. N : Offset(s, q) \in Nat
  BY OffsetIs
<1>3. Reach \in SUBSET Nat /\ N - 1 \in Reach
  BY <1>1, <1>2 DEF Rank
<1>4. PICK q \in Reach : \A p \in Reach : q <= p
  BY <1>3, LeastNat
<1>5. Offset(s, q) < SIZE_MOD
  <2>1. CASE q = 0
    BY <2>1, OffsetIs
  <2>2. CASE q # 0
    <3>1. q - 1 \in Rank /\ q - 1 \notin Reach /\ q - 1 + 1 = q
      BY <1>1, <1>4, <2>2 DEF Rank
    <3>. QED  BY <1>1, <1>2, <1>4, <3>1
  <2>. QED  BY <2>1, <2>2
<1>6. Offset(s, q) \in Nat /\ Offset(s, q + 1) = Offset(s, q) + s[q] /\ SIZE_MOD <= Offset(s, q + 1)
  BY <1>1, <1>2, <1>4, OffsetIs
<1>7. ViewOf(s, q).base = Offset(s, q) /\ ViewOf(s, q).extent = s[q] /\ GlobalSize(s) < SIZE_MOD
      /\ GlobalSize(s) \in Nat
  <2>1. Offset(s, q) % SIZE_MOD = Offset(s, q)
    BY <1>5, <1>6
  <2>. QED  BY <1>4, <2>1, ViewOfIs
<1>8. s[q] \in Nat
  BY <1>4 DEF Asked
<1>9. Offset(s, q + 1) \in Bytes(ViewOf(s, q))
  BY <1>5, <1>6, <1>7, <1>8 DEF Bytes
<1>10. Offset(s, q + 1) \notin 1 .. GlobalSize(s)
  BY <1>6, <1>7, <1>8
<1>. QED  BY <1>4, <1>9, <1>10

(***************************************************************************)
(* What holds of every rank by itself, whoever fails.                      *)
(***************************************************************************)
\* Inside the call after the allgather, with the segment mapped, and returned
\* with success but not yet through with it.
Inside == {"path", "create", "published", "collect", "unlink", "sized", "attach", "mapped", "done"}
Mapping == {"published", "collect", "unlink", "mapped", "done"}
Using == {"use", "sync", "read", "gone"}

\* The places that only the custodian, or only the others, come to.
RootPlaces == {"create", "published", "collect", "unlink"}
OtherPlaces == {"sized", "attach", "mapped", "done"}

Joined(k) == {q \in Rank : k <= call[q]}

\* The sizes gathered are those of the ranks that have begun the allocation.
AskedOf ==
    /\ DOMAIN asked = Allocation
    /\ \A k \in Allocation : asked[k] \in [Joined(k) -> Sizes[k]]

\* A rank's history is as long as the number of its calls says, and a rank is
\* past the allgather only when everybody has come to it.
Entered(r) ==
    /\ Len(answer[r]) = IF pc[r] \in Inside \cup {"gather"} THEN call[r] - 1 ELSE call[r]
    /\ pc[r] # "app" => call[r] > 0
    /\ pc[r] \in Inside \cup Using => Joined(call[r]) = Rank
    /\ pc[r] \in Using => answer[r][call[r]] = "SUCCESS"

\* Where a rank can be.
Placed(r) ==
    /\ r \in waiting => pc[r] \in DOMAIN Beyond
    /\ r = 0 => pc[r] \notin OtherPlaces
    /\ r # 0 => pc[r] \notin RootPlaces

\* What a rank has mapped: the segments of the allocations that succeeded, and
\* of the one it is inside.
Holds(r) ==
    /\ pc[r] \in Mapping \cup Using => held[r][call[r]] # 0
    /\ \A k \in Allocation : held[r][k] # 0 =>
           Allocated(r, k) \/ (k = call[r] /\ pc[r] \in Mapping)

\* The part of the invariant that is about one rank at a time.
Books == TypeOK /\ AskedOf /\ \A r \in Rank : Entered(r) /\ Placed(r) /\ Holds(r)

\* The places at which a rank waits for the barrier, and the place beyond each.
LEMMA BeyondIs ==
    /\ DOMAIN Beyond = {"published", "collect", "sized", "mapped", "sync"}
    /\ Beyond["published"] = "collect" /\ Beyond["collect"] = "unlink"
    /\ Beyond["sized"] = "attach" /\ Beyond["mapped"] = "done" /\ Beyond["sync"] = "read"
BY DEF Beyond

\* The places of the model, as an explicit set.
LEMMA LabelIs ==
    Label = {"app", "gather", "path", "create", "attach", "unlink", "done", "use", "read",
             "gone", "published", "collect", "sized", "mapped", "sync"}
<1>1. "gather" \in Label
  BY DEF Label
<1>. QED  BY <1>1, BeyondIs DEF Label

\* The books in the parts that the steps below use.
LEMMA Facts ==
    ASSUME Books, NEW r \in Rank
    PROVE  /\ pc \in [Rank -> Label] /\ pc[r] \in Label
           /\ call \in [Rank -> 0 .. Len(Sizes)] /\ call[r] \in Nat
           /\ Len(Sizes) \in Nat /\ Allocation = 1 .. Len(Sizes)
           /\ call[r] > 0 => call[r] \in Allocation
           /\ answer \in [Rank -> Seq(Result)] /\ Len(answer[r]) \in Nat
           /\ DOMAIN answer[r] = 1 .. Len(answer[r])
           /\ Len(mem) \in Nat /\ DOMAIN mem = 1 .. Len(mem)
           /\ held \in [Rank -> [Allocation -> 0 .. Len(mem)]]
           /\ Entered(r) /\ Placed(r) /\ Holds(r)
<1>1. Len(Sizes) \in Nat /\ Allocation = 1 .. Len(Sizes)
  BY XpmAssumption, LenProperties DEF Allocation
<1>2. answer[r] \in Seq(Result) /\ mem \in Seq(Seq(Byte))
  BY DEF Books, TypeOK
<1>3. Len(mem) \in Nat /\ DOMAIN mem = 1 .. Len(mem)
  BY <1>2, LenProperties
<1>4. Len(answer[r]) \in Nat /\ DOMAIN answer[r] = 1 .. Len(answer[r])
  BY <1>2, LenProperties
<1>. QED  BY <1>1, <1>3, <1>4 DEF Books, TypeOK

\* What answering changes of the histories.
LEMMA Answered ==
    ASSUME Books, NEW r \in Rank, NEW result \in Result, Answer(r, result)
    PROVE  /\ answer' \in [Rank -> Seq(Result)]
           /\ \A q \in Rank \ {r} : answer'[q] = answer[q]
           /\ Len(answer'[r]) = Len(answer[r]) + 1
           /\ DOMAIN answer'[r] = 1 .. Len(answer[r]) + 1
           /\ answer'[r] # <<>>
           /\ answer'[r][Len(answer[r]) + 1] = result
           /\ \A k \in 1 .. Len(answer[r]) : answer'[r][k] = answer[r][k]
<1>1. answer[r] \in Seq(Result) /\ answer \in [Rank -> Seq(Result)] /\ Len(answer[r]) \in Nat
  BY Facts
<1>2. /\ Append(answer[r], result) \in Seq(Result)
      /\ Len(Append(answer[r], result)) = Len(answer[r]) + 1
      /\ Append(answer[r], result)[Len(answer[r]) + 1] = result
      /\ \A k \in 1 .. Len(answer[r]) : Append(answer[r], result)[k] = answer[r][k]
  BY <1>1, AppendProperties
<1>3. answer' = [answer EXCEPT ![r] = Append(answer[r], result)]
  BY DEF Answer
<1>4. /\ answer'[r] = Append(answer[r], result) /\ answer' \in [Rank -> Seq(Result)]
      /\ \A q \in Rank \ {r} : answer'[q] = answer[q]
  BY <1>1, <1>2, <1>3
<1>5. DOMAIN answer'[r] = 1 .. Len(answer'[r])
  BY <1>2, <1>4, LenProperties
<1>6. answer'[r] # <<>>
  BY <1>1, <1>2, <1>4, EmptySeq
<1>. QED  BY <1>2, <1>4, <1>5, <1>6

(***************************************************************************)
(* The turn of a rank is the allocation it is in, from the last rank's     *)
(* call on, and until then the one it has returned from; its place is      *)
(* where it is in that turn, a result standing for having returned.        *)
(***************************************************************************)
Returned(r) == pc[r] = "app" \/ (pc[r] = "gather" /\ Joined(call[r]) # Rank)

Turn(r) == IF Returned(r) THEN Len(answer[r]) ELSE call[r]

Outcome(r) == IF answer[r] = <<>> THEN "SUCCESS" ELSE answer[r][Len(answer[r])]

Place(r) ==
    IF ~Returned(r) THEN pc[r]
    ELSE IF Outcome(r) = "attach" THEN "unattached" ELSE Outcome(r)

\* A step of one rank.
Only(r) ==
    /\ call' = call /\ asked' = asked
    /\ \A q \in Rank \ {r} : pc'[q] = pc[q] /\ answer'[q] = answer[q] /\ held'[q] = held[q]

\* A step of rank r within its turn, from place x to place y.
Walks(r, x, y) ==
    /\ Only(r)
    /\ Place(r) = x /\ Place(r)' = y
    /\ Turn(r)' = Turn(r) /\ Turn(r) = call[r]
    /\ \A k \in 1 .. Turn(r) - 1 : answer'[r][k] = answer[r][k]

\* A rank that is not moved stays where it is.
LEMMA OthersStay ==
    ASSUME NEW r \in Rank, Only(r), NEW q \in Rank, q # r
    PROVE  Turn(q)' = Turn(q) /\ Place(q)' = Place(q)
BY DEF Only, Turn, Place, Returned, Outcome, Joined

\* A step of one rank keeps the books of the others.
LEMMA OthersBooks ==
    ASSUME Books, NEW r \in Rank, Only(r), NEW q \in Rank, q # r, q \in waiting' => q \in waiting
    PROVE  Entered(q)' /\ Placed(q)' /\ Holds(q)'
<1>1. Entered(q) /\ Placed(q) /\ Holds(q)
  BY Facts
<1>. QED  BY <1>1 DEF Only, Entered, Placed, Holds, Joined, Allocated

\* Where a rank inside the call, or past it, is.
LEMMA PlaceIs ==
    ASSUME Books, NEW r \in Rank, pc[r] \in Inside \cup Using
    PROVE  /\ Place(r) = pc[r] /\ Turn(r) = call[r] /\ call[r] \in Allocation
           /\ Joined(call[r]) = Rank
           /\ Len(answer[r]) = IF pc[r] \in Inside THEN call[r] - 1 ELSE call[r]
<1>1. ~Returned(r)
  BY Facts DEF Returned, Inside, Using
<1>2. Entered(r) /\ (call[r] > 0 => call[r] \in Allocation)
  BY Facts
<1>. QED  BY <1>1, <1>2 DEF Place, Turn, Entered, Inside, Using

\* A rank that goes to another place inside the call, or past it.
LEMMA MovesOn ==
    ASSUME Books, NEW r \in Rank, NEW l \in Inside \cup Using, Goto(r, l),
           UNCHANGED <<call, asked, waiting, answer>>, r \notin waiting,
           \A q \in Rank \ {r} : held'[q] = held[q],
           pc[r] \in Inside \cup Using \/ (pc[r] = "gather" /\ Joined(call[r]) = Rank),
           l \in Using <=> pc[r] \in Using,
           IF r = 0 THEN l \notin OtherPlaces ELSE l \notin RootPlaces
    PROVE  /\ AskedOf' /\ pc' \in [Rank -> Label] /\ Walks(r, pc[r], l)
           /\ Holds(r)' => \A q \in Rank : Entered(q)' /\ Placed(q)' /\ Holds(q)'
<1>1. /\ pc \in [Rank -> Label] /\ call[r] \in Nat /\ Len(answer[r]) \in Nat
      /\ Entered(r) /\ Placed(r)
  BY Facts
<1>2. l \in Label
  BY LabelIs DEF Inside, Using
<1>3. pc'[r] = l /\ pc' \in [Rank -> Label] /\ \A q \in Rank \ {r} : pc'[q] = pc[q]
  BY <1>1, <1>2 DEF Goto
<1>4. Only(r)
  BY <1>3 DEF Only
<1>5. Place(r) = pc[r] /\ Turn(r) = call[r] /\ Joined(call[r]) = Rank
  BY <1>1, PlaceIs DEF Place, Turn, Returned
<1>6. Place(r)' = l /\ Turn(r)' = call[r]
  BY <1>3, <1>5 DEF Place, Turn, Returned, Joined, Inside, Using
<1>7. Entered(r)'
  BY <1>1, <1>3, <1>5 DEF Entered, Joined, Inside, Using
<1>8. Placed(r)'
  BY <1>1, <1>3 DEF Placed
<1>9. AskedOf'
  BY DEF Books, AskedOf, Joined
<1>10. Walks(r, pc[r], l)
  BY <1>4, <1>5, <1>6 DEF Walks
<1>. QED  BY <1>3, <1>4, <1>7, <1>8, <1>9, <1>10, OthersBooks

\* A rank that returns from the call with an error.
LEMMA Fails ==
    ASSUME Books, NEW r \in Rank, NEW result \in Result \ {"SUCCESS"}, Fail(r, result),
           UNCHANGED <<call, asked, waiting>>, r \notin waiting, pc[r] \in Inside,
           pc[r] \notin Mapping
    PROVE  /\ AskedOf' /\ pc' \in [Rank -> Label] /\ answer' \in [Rank -> Seq(Result)]
           /\ held' = held
           /\ Walks(r, pc[r], IF result = "attach" THEN "unattached" ELSE result)
           /\ \A q \in Rank : Entered(q)' /\ Placed(q)' /\ Holds(q)'
<1>1. /\ pc \in [Rank -> Label] /\ call[r] \in Nat /\ Len(answer[r]) \in Nat
      /\ DOMAIN answer[r] = 1 .. Len(answer[r])
      /\ held \in [Rank -> [Allocation -> 0 .. Len(mem)]]
      /\ Entered(r) /\ Placed(r) /\ Holds(r)
  BY Facts
<1>2. Answer(r, result) /\ Goto(r, "app") /\ Hold(r, 0)
  BY DEF Fail
<1>3. pc'[r] = "app" /\ pc' \in [Rank -> Label] /\ \A q \in Rank \ {r} : pc'[q] = pc[q]
  BY <1>1, <1>2, LabelIs DEF Goto
<1>4. /\ answer' \in [Rank -> Seq(Result)]
      /\ \A q \in Rank \ {r} : answer'[q] = answer[q]
      /\ Len(answer'[r]) = Len(answer[r]) + 1
      /\ DOMAIN answer'[r] = 1 .. Len(answer[r]) + 1 /\ answer'[r] # <<>>
      /\ answer'[r][Len(answer[r]) + 1] = result
      /\ \A k \in 1 .. Len(answer[r]) : answer'[r][k] = answer[r][k]
  BY <1>2, Answered
<1>5. /\ Place(r) = pc[r] /\ Turn(r) = call[r] /\ Joined(call[r]) = Rank
      /\ Len(answer[r]) = call[r] - 1 /\ call[r] \in Allocation
  BY PlaceIs
<1>6. held[r][call[r]] = 0
  BY <1>1, <1>5 DEF Holds, Allocated
<1>7. held' = held
  BY <1>1, <1>2, <1>5, <1>6 DEF Hold
<1>8. Only(r)
  BY <1>3, <1>4, <1>7 DEF Only
<1>9. Turn(r)' = call[r]
      /\ Place(r)' = IF result = "attach" THEN "unattached" ELSE result
  BY <1>1, <1>3, <1>4, <1>5 DEF Turn, Place, Returned, Outcome
<1>10. Entered(r)' /\ Placed(r)'
  BY <1>1, <1>3, <1>4, <1>5 DEF Entered, Placed, Inside, Using, OtherPlaces, RootPlaces
<1>11. Holds(r)'
  <2>1. \A k \in Allocation : held[r][k] # 0 => Allocated(r, k)
    BY <1>1 DEF Holds
  <2>2. \A k \in Allocation : Allocated(r, k) => Allocated(r, k)'
    BY <1>1, <1>4 DEF Allocated
  <2>. QED  BY <1>3, <1>7, <2>1, <2>2 DEF Holds, Mapping, Using
<1>12. AskedOf'
  BY DEF Books, AskedOf, Joined
<1>13. Walks(r, pc[r], IF result = "attach" THEN "unattached" ELSE result)
  BY <1>1, <1>4, <1>5, <1>8, <1>9 DEF Walks
<1>. QED  BY <1>3, <1>4, <1>7, <1>8, <1>10, <1>11, <1>12, <1>13, OthersBooks

\* A rank that returns from the call with success.
LEMMA Succeeds ==
    ASSUME Books, NEW r \in Rank, Succeed(r), pc[r] \in {"unlink", "done"},
           UNCHANGED <<call, asked, waiting, held>>, r \notin waiting
    PROVE  /\ AskedOf' /\ pc' \in [Rank -> Label] /\ answer' \in [Rank -> Seq(Result)]
           /\ Walks(r, pc[r], "use")
           /\ \A q \in Rank : Entered(q)' /\ Placed(q)' /\ Holds(q)'
<1>1. /\ pc \in [Rank -> Label] /\ call[r] \in Nat /\ Len(answer[r]) \in Nat
      /\ DOMAIN answer[r] = 1 .. Len(answer[r])
      /\ Entered(r) /\ Placed(r) /\ Holds(r)
  BY Facts
<1>2. Answer(r, "SUCCESS") /\ Goto(r, "use") /\ "SUCCESS" \in Result
  BY DEF Succeed, Result
<1>3. pc'[r] = "use" /\ pc' \in [Rank -> Label] /\ \A q \in Rank \ {r} : pc'[q] = pc[q]
  BY <1>1, <1>2, LabelIs DEF Goto
<1>4. /\ answer' \in [Rank -> Seq(Result)]
      /\ \A q \in Rank \ {r} : answer'[q] = answer[q]
      /\ Len(answer'[r]) = Len(answer[r]) + 1
      /\ DOMAIN answer'[r] = 1 .. Len(answer[r]) + 1
      /\ answer'[r][Len(answer[r]) + 1] = "SUCCESS"
      /\ \A k \in 1 .. Len(answer[r]) : answer'[r][k] = answer[r][k]
  BY <1>2, Answered
<1>5. /\ Place(r) = pc[r] /\ Turn(r) = call[r] /\ Joined(call[r]) = Rank
      /\ Len(answer[r]) = call[r] - 1 /\ call[r] \in Allocation
  BY PlaceIs DEF Inside
<1>6. Only(r)
  BY <1>3, <1>4 DEF Only
<1>7. Turn(r)' = call[r] /\ Place(r)' = "use"
  BY <1>3, <1>5 DEF Turn, Place, Returned
<1>8. Entered(r)' /\ Placed(r)'
  BY <1>1, <1>3, <1>4, <1>5 DEF Entered, Placed, Joined, Inside, Using, OtherPlaces, RootPlaces
<1>9. Holds(r)'
  <2>1. \A k \in Allocation : held[r][k] # 0 => Allocated(r, k) \/ k = call[r]
    BY <1>1 DEF Holds
  <2>2. \A k \in Allocation : Allocated(r, k) => Allocated(r, k)'
    BY <1>1, <1>4 DEF Allocated
  <2>3. Allocated(r, call[r])'
    BY <1>1, <1>4, <1>5 DEF Allocated
  <2>4. held[r][call[r]] # 0
    BY <1>1 DEF Holds, Mapping
  <2>. QED  BY <1>3, <2>1, <2>2, <2>3, <2>4 DEF Holds, Mapping, Using
<1>10. AskedOf'
  BY DEF Books, AskedOf, Joined
<1>11. Walks(r, pc[r], "use")
  BY <1>1, <1>4, <1>5, <1>6, <1>7 DEF Walks
<1>. QED  BY <1>3, <1>4, <1>6, <1>8, <1>9, <1>10, <1>11, OthersBooks

(***************************************************************************)
(* The ranks in lockstep: in one turn, and at places that go together.     *)
(***************************************************************************)
Before == {"gather", "path"}
Creating == {"create", "open", "ftruncate", "mmap", "published"}

\* Where the others can be when the custodian is at place p.
Along(p) ==
    CASE p \in Before                           -> Before
      [] p = "NO_PATH"                          -> Before \cup {"NO_PATH"}
      [] p \in Creating                         -> Before \cup {"sized"}
      [] p = "collect"                          -> {"attach", "mapped", "unattached"}
      [] p \in {"unlink", "use", "sync", "gone"} -> {"done", "use", "sync", "gone"}
      [] p \in {"read", "SUCCESS"}               -> {"read", "SUCCESS"}
      [] OTHER                                  -> {}

Lockstep == \A r \in Rank \ {0} : Turn(r) = Turn(0) /\ Place(r) \in Along(Place(0))

\* What the custodian has told the others, by its own place.
Telling ==
    /\ \A k \in Allocation : k > Turn(0) => told[k] = Untold
    /\ Turn(0) > 0 =>
           /\ Place(0) \in Before => told[Turn(0)] = Untold
           /\ Place(0) = "NO_PATH" => told[Turn(0)] = NoPath
           /\ Place(0) \notin Before \cup {"NO_PATH"} => told[Turn(0)] \in Names

\* Of the turns before, every rank has the custodian's answer.
Agreed == \A r \in Rank : \A k \in Allocation : k < Turn(0) => answer[r][k] = answer[0][k]

Together == Books /\ Lockstep /\ Telling /\ Agreed

\* A rank that has heard of a path is in the custodian's turn, and the path is one.
LEMMA PathIs ==
    ASSUME Together, NEW r \in Rank, pc[r] \in (Inside \cup Using) \ {"path"}
    PROVE  told[call[r]] \in Names /\ call[r] = Turn(0) /\ call[r] \in Allocation
<1>. USE RankIs
<1>1. Books
  BY DEF Together
<1>2. Place(r) = pc[r] /\ Turn(r) = call[r] /\ call[r] \in Allocation /\ call[r] > 0
  BY <1>1, PlaceIs, Facts
<1>3. Turn(r) = Turn(0) /\ (r # 0 => Place(r) \in Along(Place(0)))
  BY DEF Together, Lockstep
<1>4. Place(0) \notin Before \cup {"NO_PATH"}
  BY <1>2, <1>3, Facts, <1>1 DEF Along, Before, Creating, Inside, Using, Placed, OtherPlaces, RootPlaces
<1>. QED  BY <1>2, <1>3, <1>4 DEF Together, Telling

\* A step of one rank that suits the others and what was told keeps them together.
LEMMA WalkKeeps ==
    ASSUME Together, Books', NEW r \in Rank, NEW x, NEW y, Walks(r, x, y),
           r # 0 => y \in Along(Place(0)) /\ told' = told,
           r = 0 => \A q \in Rank \ {0} : Place(q) \in Along(y),
           r = 0 => \/ told' = told /\ (x \in Before <=> y \in Before)
                                    /\ x # "NO_PATH" /\ y # "NO_PATH"
                    \/ /\ \A k \in Allocation \ {call[0]} : told'[k] = told[k]
                       /\ IF y = "NO_PATH" THEN told'[call[0]] = NoPath
                                           ELSE y \notin Before /\ told'[call[0]] \in Names
    PROVE  Together'
<1>. USE RankIs
<1>1. \A q \in Rank : Turn(q)' = Turn(q)
  BY OthersStay DEF Walks
<1>2. \A q \in Rank \ {r} : Place(q)' = Place(q)
  BY OthersStay DEF Walks
<1>3. Place(r) = x /\ Place(r)' = y /\ Turn(r) = call[r]
  BY DEF Walks
<1>4. Lockstep'
  <2>. SUFFICES ASSUME NEW q \in Rank \ {0} PROVE (Turn(q) = Turn(0) /\ Place(q) \in Along(Place(0)))'
    BY DEF Lockstep
  <2>1. Turn(q)' = Turn(0)'
    BY <1>1 DEF Together, Lockstep
  <2>2. CASE r = 0
    <3>1. Place(q)' = Place(q) /\ Place(0)' = y /\ Place(q) \in Along(y)
      BY <1>2, <1>3, <2>2
    <3>2. Place(q)' \in Along(Place(0)')
      BY <3>1
    <3>. QED  BY <2>1, <3>2 DEF Along
  <2>3. CASE r # 0
    <3>1. Place(0)' = Place(0)
      BY <1>2, <2>3
    <3>2. Place(q)' \in Along(Place(0))
      BY <1>2, <1>3, <2>3 DEF Together, Lockstep
    <3>. QED  BY <2>1, <3>1, <3>2 DEF Along
  <2>. QED  BY <2>2, <2>3
<1>5. Telling'
  <2>1. CASE r # 0
    <3>1. told' = told /\ Turn(0)' = Turn(0) /\ Place(0)' = Place(0)
      BY <1>1, <1>2, <2>1
    <3>. QED  BY <3>1 DEF Together, Telling
  <2>2. CASE r = 0 /\ told' = told /\ (x \in Before <=> y \in Before) /\ x # "NO_PATH" /\ y # "NO_PATH"
    <3>1. Turn(0)' = Turn(0) /\ Place(0)' = y /\ Place(0) = x
      BY <1>1, <1>3, <2>2
    <3>. QED  BY <2>2, <3>1 DEF Together, Telling
  <2>3. CASE r = 0 /\ /\ \A k \in Allocation \ {call[0]} : told'[k] = told[k]
                      /\ IF y = "NO_PATH" THEN told'[call[0]] = NoPath
                                          ELSE y \notin Before /\ told'[call[0]] \in Names
    <3>1. Turn(0)' = call[0] /\ Place(0)' = y /\ Turn(0) = call[0]
      BY <1>1, <1>3, <2>3
    <3>2. Turn(0) \in Nat /\ \A k \in Allocation : k \in Nat
      BY <3>1, Facts DEF Together
    <3>3. \A k \in Allocation : k > Turn(0) => told'[k] = told[k]
      BY <2>3, <3>1, <3>2
    <3>. QED  BY <2>3, <3>1, <3>2, <3>3 DEF Together, Telling, Before
  <2>. QED  BY <2>1, <2>2, <2>3
<1>6. Agreed'
  <2>. SUFFICES ASSUME NEW q \in Rank, NEW k \in Allocation, k < Turn(0)'
                PROVE  answer'[q][k] = answer'[0][k]
    BY DEF Agreed
  <2>1. k < Turn(0) /\ answer[q][k] = answer[0][k] /\ Turn(0) = call[r] /\ call[r] \in Nat /\ k \in 1 .. Turn(r) - 1
    <3>1. k < Turn(0) /\ Turn(r) = Turn(0)
      BY <1>1 DEF Together, Lockstep
    <3>2. call[r] \in Nat /\ Turn(r) = call[r] /\ k \in Nat /\ k > 0
      BY <1>3, Facts DEF Together
    <3>. QED  BY <3>1, <3>2 DEF Together, Agreed
  <2>2. \A p \in Rank : answer'[p][k] = answer[p][k]
    BY <2>1 DEF Walks, Only
  <2>. QED  BY <2>1, <2>2
<1>. QED  BY <1>4, <1>5, <1>6 DEF Together

\* A step of one rank that moves nobody keeps them together.
LEMMA StayKeeps ==
    ASSUME Together, Books', UNCHANGED <<pc, call, told, answer>>
    PROVE  Together'
<1>1. \A q \in Rank : Turn(q)' = Turn(q) /\ Place(q)' = Place(q)
  BY DEF Turn, Place, Returned, Outcome, Joined
<1>. QED  BY <1>1, RankIs DEF Together, Lockstep, Telling, Agreed, Along

(***************************************************************************)
(* The steps of a rank by itself.                                          *)
(***************************************************************************)
\* A rank leaves the allgather when all have come to it.
LEMMA GatherKeeps ==
    ASSUME Together, NEW r \in Rank, Gather(r)
    PROVE  Together' /\ Walks(r, "gather", "path")
<1>. USE RankIs
<1>1. Books /\ pc[r] = "gather" /\ Goto(r, "path") /\ call[r] \in Allocation
  BY Facts DEF Together, Gather, Entered
<1>2. Joined(call[r]) = Rank
  BY <1>1 DEF Gather, Local, Books, AskedOf
<1>3. r \notin waiting /\ Holds(r)
  BY <1>1, Facts, BeyondIs DEF Placed
<1>4. Holds(r)'
  BY <1>1, <1>3, Facts DEF Gather, Goto, Holds, Mapping, Using, Allocated
<1>5. /\ AskedOf' /\ pc' \in [Rank -> Label] /\ Walks(r, "gather", "path")
      /\ \A q \in Rank : Entered(q)' /\ Placed(q)' /\ Holds(q)'
  BY <1>1, <1>2, <1>3, <1>4, MovesOn DEF Gather, Inside, Using, OtherPlaces, RootPlaces
<1>6. Books'
  BY <1>1, <1>5 DEF Books, TypeOK, Gather
<1>7. r # 0 => "path" \in Along(Place(0))
  BY <1>5 DEF Walks, Together, Lockstep, Along, Before, Creating
<1>8. r = 0 => \A q \in Rank \ {0} : Place(q) \in Along("path")
  BY <1>5 DEF Walks, Together, Lockstep, Along, Before, Creating
<1>. QED  BY <1>5, <1>6, <1>7, <1>8, WalkKeeps DEF Gather, Before

\* The custodian makes up a path, and tells the others in the allocation's turn.
LEMMA TellPathKeeps ==
    ASSUME Together, NEW p \in Names, TellPath(p)
    PROVE  Together' /\ Walks(0, "path", "create")
<1>. USE RankIs
<1>1. Books /\ pc[0] = "path" /\ Goto(0, "create") /\ call[0] \in Allocation
  BY Facts, PlaceIs DEF Together, TellPath, Custodian, Inside
<1>2. 0 \notin waiting /\ Holds(0)
  BY <1>1, Facts, BeyondIs DEF Placed
<1>3. Holds(0)'
  BY <1>1, <1>2, Facts DEF TellPath, Goto, Holds, Mapping, Using, Allocated
<1>4. /\ AskedOf' /\ pc' \in [Rank -> Label] /\ Walks(0, "path", "create")
      /\ \A q \in Rank : Entered(q)' /\ Placed(q)' /\ Holds(q)'
  BY <1>1, <1>2, <1>3, MovesOn DEF TellPath, Inside, Using, OtherPlaces, RootPlaces
<1>5. told' = [told EXCEPT ![call[0]] = p] /\ told \in [Allocation -> Names \cup {Untold, NoPath}]
  BY <1>1 DEF TellPath, Custodian, Books, TypeOK
<1>6. Books'
  BY <1>1, <1>4, <1>5 DEF Books, TypeOK, TellPath
<1>7. \A q \in Rank \ {0} : Place(q) \in Along("create")
  BY <1>4 DEF Walks, Together, Lockstep, Along, Before, Creating
<1>. QED  BY <1>1, <1>4, <1>5, <1>6, <1>7, WalkKeeps DEF Before

\* It tells them that there is none, and returns before any of them.
LEMMA TellNoPathKeeps ==
    ASSUME Together, TellNoPath
    PROVE  Together' /\ Walks(0, "path", "NO_PATH") /\ held' = held
<1>. USE RankIs
<1>1. Books /\ pc[0] = "path" /\ Fail(0, "NO_PATH") /\ call[0] \in Allocation
  BY Facts, PlaceIs DEF Together, TellNoPath, Custodian, Inside
<1>2. 0 \notin waiting /\ "NO_PATH" \in Result \ {"SUCCESS"}
  BY <1>1, Facts, BeyondIs DEF Placed, Result
<1>3. /\ AskedOf' /\ pc' \in [Rank -> Label] /\ answer' \in [Rank -> Seq(Result)]
      /\ held' = held /\ Walks(0, "path", "NO_PATH")
      /\ \A q \in Rank : Entered(q)' /\ Placed(q)' /\ Holds(q)'
  BY <1>1, <1>2, Fails DEF TellNoPath, Inside, Mapping
<1>4. told' = [told EXCEPT ![call[0]] = NoPath] /\ told \in [Allocation -> Names \cup {Untold, NoPath}]
  BY <1>1 DEF TellNoPath, Custodian, Books, TypeOK
<1>5. Books'
  BY <1>1, <1>3, <1>4 DEF Books, TypeOK, TellNoPath
<1>6. \A q \in Rank \ {0} : Place(q) \in Along("NO_PATH")
  BY <1>3 DEF Walks, Together, Lockstep, Along, Before, Creating
<1>. QED  BY <1>1, <1>3, <1>4, <1>5, <1>6, WalkKeeps

\* A rank that hears goes where the custodian has gone, or returns as it did.
LEMMA HearPathKeeps ==
    ASSUME Together, NEW r \in Rank, HearPath(r)
    PROVE  /\ Together' /\ r # 0 /\ held' = held
           /\ IF told[call[r]] = NoPath THEN Walks(r, "path", "NO_PATH") ELSE Walks(r, "path", "sized")
<1>. USE RankIs
<1>1. Books /\ pc[r] = "path" /\ r # 0 /\ call[r] \in Allocation /\ told[call[r]] # Untold
  BY Facts, PlaceIs DEF Together, HearPath, Custodian, Inside
<1>2. r \notin waiting /\ "NO_PATH" \in Result \ {"SUCCESS"} /\ Holds(r)
  BY <1>1, Facts, BeyondIs DEF Placed, Result
<1>3. /\ Place(r) = "path" /\ Turn(r) = call[r] /\ Turn(r) = Turn(0)
      /\ Place(r) \in Along(Place(0)) /\ call[r] > 0
  BY <1>1, PlaceIs, Facts DEF Together, Lockstep, Inside
<1>4. CASE told[call[r]] = NoPath
  <2>1. /\ AskedOf' /\ pc' \in [Rank -> Label] /\ answer' \in [Rank -> Seq(Result)]
        /\ held' = held /\ Walks(r, "path", "NO_PATH")
        /\ \A q \in Rank : Entered(q)' /\ Placed(q)' /\ Holds(q)'
    BY <1>1, <1>2, <1>4, Fails DEF HearPath, Inside, Mapping
  <2>2. Books'
    BY <1>1, <2>1 DEF Books, TypeOK, HearPath
  <2>3. Place(0) = "NO_PATH"
    BY <1>1, <1>3, <1>4, XpmAssumption DEF Together, Telling
  <2>4. "NO_PATH" \in Along(Place(0))
    BY <2>3 DEF Along, Before, Creating
  <2>. QED  BY <1>1, <1>4, <2>1, <2>2, <2>4, WalkKeeps DEF HearPath
<1>5. CASE told[call[r]] # NoPath
  <2>1. Goto(r, "sized") /\ UNCHANGED <<held, answer>>
    BY <1>5 DEF HearPath
  <2>2. Holds(r)'
    BY <1>1, <1>2, <2>1, Facts DEF HearPath, Goto, Holds, Mapping, Using, Allocated
  <2>3. /\ AskedOf' /\ pc' \in [Rank -> Label] /\ Walks(r, "path", "sized")
        /\ \A q \in Rank : Entered(q)' /\ Placed(q)' /\ Holds(q)'
    BY <1>1, <1>2, <2>1, <2>2, MovesOn DEF HearPath, Inside, Using, OtherPlaces, RootPlaces
  <2>4. Books'
    BY <1>1, <2>1, <2>3 DEF Books, TypeOK, HearPath
  <2>5. Place(0) \notin Before \cup {"NO_PATH"}
    BY <1>1, <1>3, <1>5 DEF Together, Telling
  <2>6. "sized" \in Along(Place(0))
    BY <1>3, <2>5 DEF Along, Before, Creating
  <2>. QED  BY <1>1, <1>5, <2>1, <2>3, <2>4, <2>6, WalkKeeps DEF HearPath
<1>. QED  BY <1>4, <1>5

\* The sizes that a whole allgather returns.
LEMMA SizesAre ==
    ASSUME Books, NEW k \in Allocation, Joined(k) = Rank
    PROVE  asked[k] \in Asked
<1>1. Sizes[k] \in SUBSET (0 .. SIZE_MOD - 1)
  BY XpmAssumption, ElementOfSeq, LenProperties DEF Allocation
<1>. QED  BY <1>1 DEF Books, AskedOf, Asked

\* The largest size of a file is a number.
LEMMA OffMaxIs == OFF_MAX \in Nat
BY XpmAssumption DEF OFF_MAX

\* Resizing a file makes bytes of nobody.
LEMMA ResizedIs ==
    ASSUME NEW bytes \in Seq(Byte), NEW size \in Nat
    PROVE  Resized(bytes, size) \in Seq(Byte) /\ Len(Resized(bytes, size)) = size
<1>1. \A i \in 1 .. size : (IF i \in DOMAIN bytes THEN bytes[i] ELSE Nobody) \in Byte
  BY ElementOfSeq, LenProperties DEF Byte
<1>. DEFINE u == [i \in 1 .. size |-> IF i \in DOMAIN bytes THEN bytes[i] ELSE Nobody]
<1>2. u \in [1 .. size -> Byte]
  BY <1>1
<1>. HIDE DEF u
<1>3. u \in Seq(Byte) /\ Len(u) = size
  BY <1>2
<1>. QED  BY <1>3 DEF u, Resized

\* What open() and ftruncate() do: the path's file is the one that was there or
\* a new one, it has the size asked for, and all others are what they were.
LEMMA Opened ==
    ASSUME Books, NEW p \in Names, p = told[call[0]], NEW size \in 0 .. OFF_MAX, OpenFile(size)
    PROVE  /\ mem' \in Seq(Seq(Byte)) /\ \A id \in DOMAIN mem' : Len(mem'[id]) <= OFF_MAX
           /\ Len(mem') \in Nat /\ Len(mem) <= Len(mem')
           /\ file' \in [Names -> 0 .. Len(mem')]
           /\ file'[p] # 0 /\ Len(mem'[file'[p]]) = size
           /\ file'[p] = file[p] \/ (file[p] = 0 /\ file'[p] = Len(mem) + 1)
           /\ \A id \in 1 .. Len(mem) : id # file'[p] => mem'[id] = mem[id]
           /\ \A n \in Names \ {p} : file'[n] = file[n]
<1>1. /\ mem \in Seq(Seq(Byte)) /\ file \in [Names -> 0 .. Len(mem)] /\ Len(mem) \in Nat
      /\ DOMAIN mem = 1 .. Len(mem) /\ \A id \in 1 .. Len(mem) : Len(mem[id]) <= OFF_MAX
  BY Facts, RankIs DEF Books, TypeOK
<1>2. size \in Nat /\ OFF_MAX \in Nat /\ size <= OFF_MAX
  BY OffMaxIs
<1>3. CASE file[p] # 0
  <2>. DEFINE new == Resized(mem[file[p]], size)
  <2>1. file[p] \in 1 .. Len(mem) /\ mem[file[p]] \in Seq(Byte)
    BY <1>1, <1>3, ElementOfSeq
  <2>2. new \in Seq(Byte) /\ Len(new) = size
    BY <1>2, <2>1, ResizedIs
  <2>3. mem' = [mem EXCEPT ![file[p]] = new] /\ file' = file
    BY <1>3 DEF OpenFile, Custodian
  <2>. HIDE DEF new
  <2>4. /\ mem' \in Seq(Seq(Byte)) /\ Len(mem') = Len(mem)
        /\ \A j \in 1 .. Len(mem) : mem'[j] = IF j = file[p] THEN new ELSE mem[j]
    BY <1>1, <2>1, <2>2, <2>3, ExceptSeq
  <2>5. DOMAIN mem' = 1 .. Len(mem)
    BY <2>4, LenProperties
  <2>6. \A id \in DOMAIN mem' : Len(mem'[id]) <= OFF_MAX
    BY <1>1, <1>2, <2>2, <2>4, <2>5
  <2>. QED  BY <1>1, <1>3, <2>1, <2>2, <2>3, <2>4, <2>6
<1>4. CASE file[p] = 0
  <2>. DEFINE new == Resized(<<>>, size)
  <2>1. <<>> \in Seq(Byte)
    BY EmptySeq
  <2>2. new \in Seq(Byte) /\ Len(new) = size
    BY <1>2, <2>1, ResizedIs
  <2>3. mem' = Append(mem, new) /\ file' = [file EXCEPT ![p] = Len(mem')]
    BY <1>4 DEF OpenFile, Custodian
  <2>. HIDE DEF new
  <2>4. /\ mem' \in Seq(Seq(Byte)) /\ Len(mem') = Len(mem) + 1
        /\ (\A j \in 1 .. Len(mem) : mem'[j] = mem[j]) /\ mem'[Len(mem) + 1] = new
    BY <1>1, <2>2, <2>3, AppendProperties
  <2>5. DOMAIN mem' = 1 .. Len(mem) + 1
    BY <2>4, LenProperties
  <2>6. \A id \in DOMAIN mem' : Len(mem'[id]) <= OFF_MAX
    <3>. SUFFICES ASSUME NEW id \in 1 .. Len(mem) + 1 PROVE Len(mem'[id]) <= OFF_MAX
      BY <2>5
    <3>1. CASE id = Len(mem) + 1
      <4>1. mem'[id] = new
        BY <2>4, <3>1
      <4>. QED  BY <1>2, <2>2, <4>1
    <3>2. CASE id # Len(mem) + 1
      <4>1. id \in 1 .. Len(mem)
        BY <1>1, <3>2
      <4>2. mem'[id] = mem[id] /\ Len(mem[id]) <= OFF_MAX
        BY <1>1, <2>4, <4>1
      <4>. QED  BY <4>2
    <3>. QED  BY <3>1, <3>2
  <2>7. file' = [file EXCEPT ![p] = Len(mem) + 1]
    BY <2>3, <2>4
  <2>8. file' \in [Names -> 0 .. Len(mem')] /\ file'[p] = Len(mem) + 1
        /\ \A n \in Names \ {p} : file'[n] = file[n]
    BY <1>1, <2>4, <2>7
  <2>. QED  BY <1>1, <1>4, <2>2, <2>4, <2>6, <2>8
<1>. QED  BY <1>3, <1>4

\* What the custodian knows when it comes to create the segment.
LEMMA CreatingIs ==
    ASSUME Together, pc[0] = "create"
    PROVE  /\ Books /\ told[call[0]] \in Names /\ call[0] \in Allocation
           /\ CreatedSize \in Nat /\ CreatedSize = GlobalSize(asked[call[0]])
           /\ 0 \notin waiting /\ Joined(call[0]) = Rank
           /\ \A r \in Rank \ {0} : Place(r) \in Before \cup {"sized"}
           /\ Place(0) = "create" /\ Turn(0) = call[0]
           /\ \A r \in Rank : held[r][call[0]] = 0 /\ ~Allocated(r, call[0])
<1>. USE RankIs
<1>1. Books /\ 0 \notin waiting
  BY Facts, BeyondIs DEF Together, Placed
<1>2. Place(0) = "create" /\ Turn(0) = call[0] /\ Joined(call[0]) = Rank /\ call[0] \in Allocation
  BY <1>1, PlaceIs DEF Inside
<1>3. told[call[0]] \in Names
  BY PathIs DEF Inside
<1>4. asked[call[0]] \in Asked
  BY <1>1, <1>2, SizesAre
<1>5. CreatedSize = GlobalSize(asked[call[0]]) /\ CreatedSize \in Nat
  BY <1>4, ViewOfIs DEF CreatedSize, Local, Custodian
<1>6. ASSUME NEW r \in Rank \ {0}
      PROVE  Place(r) \in Before \cup {"sized"} /\ Turn(r) = call[0]
  BY <1>2 DEF Together, Lockstep, Along, Before, Creating
<1>7. ASSUME NEW r \in Rank PROVE held[r][call[0]] = 0 /\ ~Allocated(r, call[0])
  <2>1. pc[r] \in {"gather", "path", "sized", "create"} /\ Turn(r) = call[r] /\ call[r] = call[0]
    <3>1. CASE r = 0
      BY <1>2, <3>1
    <3>2. CASE r # 0
      <4>1. Place(r) \in {"gather", "path", "sized"} /\ Turn(r) = call[0]
        BY <1>6, <3>2 DEF Before
      <4>2. ~Returned(r)
        <5>. SUFFICES ASSUME Returned(r) PROVE FALSE
          OBVIOUS
        <5>1. Outcome(r) \in Result
          <6>1. CASE answer[r] = <<>>
            BY <6>1 DEF Outcome, Result
          <6>2. CASE answer[r] # <<>>
            <7>1. answer[r] \in Seq(Result) /\ Len(answer[r]) \in 1 .. Len(answer[r])
              BY <1>1, <6>2, EmptySeq, Facts
            <7>. QED  BY <6>2, <7>1, ElementOfSeq DEF Outcome
          <6>. QED  BY <6>1, <6>2
        <5>. QED  BY <4>1, <5>1 DEF Place, Result
      <4>. QED  BY <4>1, <4>2 DEF Place, Turn
    <3>. QED  BY <3>1, <3>2
  <2>2. Len(answer[r]) = call[r] - 1 /\ DOMAIN answer[r] = 1 .. Len(answer[r]) /\ call[r] \in Nat
    BY <1>1, <2>1, Facts DEF Entered, Inside
  <2>3. Holds(r)
    BY <1>1, Facts
  <2>. QED  BY <1>2, <2>1, <2>2, <2>3 DEF Holds, Mapping, Allocated
<1>. QED  BY <1>1, <1>2, <1>3, <1>5, <1>6, <1>7

\* The custodian creates the segment while the others are told or wait for it.
LEMMA CreateKeeps ==
    ASSUME Together, Create
    PROVE  Together' /\ Walks(0, "create", "published")
<1>. USE RankIs
<1>0. pc[0] = "create"
  BY DEF Create, Custodian
<1>1. /\ Books /\ told[call[0]] \in Names /\ call[0] \in Allocation
      /\ CreatedSize \in 1 .. OFF_MAX /\ OpenFile(CreatedSize) /\ 0 \notin waiting
      /\ \A r \in Rank \ {0} : Place(r) \in Before \cup {"sized"}
  BY <1>0, CreatingIs DEF Create
<1>. DEFINE p == told[call[0]]
<1>2. CreatedSize \in 0 .. OFF_MAX
  BY <1>1
<1>3. /\ mem' \in Seq(Seq(Byte)) /\ \A id \in DOMAIN mem' : Len(mem'[id]) <= OFF_MAX
      /\ Len(mem') \in Nat /\ Len(mem) <= Len(mem')
      /\ file' \in [Names -> 0 .. Len(mem')] /\ file'[p] # 0
  BY <1>1, <1>2, Opened
<1>4. held \in [Rank -> [Allocation -> 0 .. Len(mem)]] /\ Len(mem) \in Nat
  BY <1>1, Facts
<1>5. held' = [held EXCEPT ![0][call[0]] = file'[p]]
  BY DEF Create, Hold, Custodian
<1>6. /\ held' \in [Rank -> [Allocation -> 0 .. Len(mem')]]
      /\ \A q \in Rank \ {0} : held'[q] = held[q]
      /\ \A k \in Allocation : held'[0][k] = IF k = call[0] THEN file'[p] ELSE held[0][k]
  BY <1>1, <1>3, <1>4, <1>5
<1>7. pc'[0] = "published" /\ Goto(0, "published") /\ Holds(0)
  BY <1>1, Facts DEF Create, Goto, Custodian
<1>8. Holds(0)'
  BY <1>0, <1>1, <1>3, <1>6, <1>7 DEF Create, Holds, Mapping, Using, Allocated
<1>9. /\ AskedOf' /\ pc' \in [Rank -> Label] /\ Walks(0, "create", "published")
      /\ \A q \in Rank : Entered(q)' /\ Placed(q)' /\ Holds(q)'
  BY <1>0, <1>1, <1>6, <1>7, <1>8, MovesOn DEF Create, Inside, Using, OtherPlaces, RootPlaces
<1>10. Books'
  BY <1>1, <1>3, <1>6, <1>9 DEF Books, TypeOK, Create
<1>11. \A q \in Rank \ {0} : Place(q) \in Along("published")
  BY <1>1 DEF Along, Before, Creating
<1>. QED  BY <1>9, <1>10, <1>11, WalkKeeps DEF Create, Before

\* A custodian that cannot open the path leaves the others at the first barrier.
LEMMA OpenFailureKeeps ==
    ASSUME Together, OpenFailure
    PROVE  Together' /\ Walks(0, "create", "open") /\ held' = held
<1>. USE RankIs
<1>0. pc[0] = "create"
  BY DEF OpenFailure, Custodian
<1>1. Books /\ 0 \notin waiting /\ \A r \in Rank \ {0} : Place(r) \in Before \cup {"sized"}
  BY <1>0, CreatingIs
<1>2. "open" \in Result \ {"SUCCESS"} /\ Fail(0, "open")
  BY DEF Result, OpenFailure, Custodian
<1>3. /\ AskedOf' /\ pc' \in [Rank -> Label] /\ answer' \in [Rank -> Seq(Result)]
      /\ held' = held /\ Walks(0, "create", "open")
      /\ \A q \in Rank : Entered(q)' /\ Placed(q)' /\ Holds(q)'
  BY <1>0, <1>1, <1>2, Fails DEF OpenFailure, Inside, Mapping
<1>4. Books'
  BY <1>1, <1>3 DEF Books, TypeOK, OpenFailure
<1>5. \A q \in Rank \ {0} : Place(q) \in Along("open")
  BY <1>1 DEF Along, Before, Creating
<1>. QED  BY <1>3, <1>4, <1>5, WalkKeeps DEF OpenFailure, Before

\* A segment made and not mapped leaves the types of what is mapped alone.
LEMMA LeftFileKeeps ==
    ASSUME Together, pc[0] = "create", NEW result \in {"ftruncate", "mmap"}, Fail(0, result),
           NEW size \in 0 .. OFF_MAX, OpenFile(size) \/ UNCHANGED <<file, mem>>,
           UNCHANGED <<call, asked, told, waiting>>
    PROVE  Together' /\ Walks(0, "create", result) /\ held' = held
<1>. USE RankIs
<1>1. /\ Books /\ 0 \notin waiting /\ told[call[0]] \in Names
      /\ \A r \in Rank \ {0} : Place(r) \in Before \cup {"sized"}
  BY CreatingIs
<1>2. result \in Result \ {"SUCCESS"} /\ result # "attach"
  BY DEF Result
<1>3. /\ AskedOf' /\ pc' \in [Rank -> Label] /\ answer' \in [Rank -> Seq(Result)]
      /\ held' = held /\ Walks(0, "create", result)
      /\ \A q \in Rank : Entered(q)' /\ Placed(q)' /\ Holds(q)'
  BY <1>1, <1>2, Fails DEF Inside, Mapping
<1>4. /\ mem' \in Seq(Seq(Byte)) /\ \A id \in DOMAIN mem' : Len(mem'[id]) <= OFF_MAX
      /\ Len(mem') \in Nat /\ Len(mem) <= Len(mem') /\ file' \in [Names -> 0 .. Len(mem')]
  <2>1. CASE OpenFile(size)
    BY <1>1, <2>1, Opened
  <2>2. CASE UNCHANGED <<file, mem>>
    BY <1>1, <2>2, Facts DEF Books, TypeOK
  <2>. QED  BY <2>1, <2>2
<1>5. held \in [Rank -> [Allocation -> 0 .. Len(mem)]] /\ Len(mem) \in Nat
  BY <1>1, Facts
<1>6. held' \in [Rank -> [Allocation -> 0 .. Len(mem')]]
  BY <1>3, <1>4, <1>5
<1>7. Books'
  BY <1>1, <1>3, <1>4, <1>6 DEF Books, TypeOK
<1>8. \A q \in Rank \ {0} : Place(q) \in Along(result)
  BY <1>1 DEF Along, Before, Creating
<1>. QED  BY <1>3, <1>7, <1>8, WalkKeeps DEF Before

\* A custodian that cannot size the segment leaves the others at the first barrier.
LEMMA SizeFailureKeeps ==
    ASSUME Together, SizeFailure
    PROVE  /\ Together' /\ Walks(0, "create", "ftruncate") /\ held' = held
           /\ OpenFile(0) \/ UNCHANGED <<file, mem>>
<1>1. /\ pc[0] = "create" /\ Fail(0, "ftruncate")
      /\ OpenFile(0) \/ UNCHANGED <<file, mem>>
      /\ UNCHANGED <<call, asked, told, waiting>>
  BY DEF SizeFailure, Custodian
<1>2. 0 \in 0 .. OFF_MAX
  BY OffMaxIs
<1>. QED  BY <1>1, <1>2, LeftFileKeeps

\* A custodian that cannot map the segment leaves the others at the first barrier.
LEMMA MapFailureKeeps ==
    ASSUME Together, MapFailure
    PROVE  /\ Together' /\ Walks(0, "create", "mmap") /\ held' = held
           /\ CreatedSize \in 0 .. OFF_MAX /\ OpenFile(CreatedSize)
<1>1. /\ pc[0] = "create" /\ Fail(0, "mmap") /\ OpenFile(CreatedSize)
      /\ UNCHANGED <<call, asked, told, waiting>> /\ CreatedSize <= OFF_MAX
  BY DEF MapFailure, Custodian
<1>2. CreatedSize \in 0 .. OFF_MAX
  BY <1>1, OffMaxIs, CreatingIs
<1>. QED  BY <1>1, <1>2, LeftFileKeeps

\* A rank that attaches does so while the custodian waits for it.
LEMMA AttachingIs ==
    ASSUME Together, NEW r \in Rank, pc[r] = "attach"
    PROVE  /\ Books /\ r # 0 /\ r \notin waiting /\ Place(0) = "collect"
           /\ told[call[r]] \in Names /\ call[r] \in Allocation /\ call[r] = Turn(0)
           /\ held[r][call[r]] = 0
<1>1. Books /\ r \notin waiting /\ r # 0 /\ Holds(r) /\ DOMAIN answer[r] = 1 .. Len(answer[r])
  BY Facts, BeyondIs DEF Together, Placed, OtherPlaces
<1>2. Place(r) = "attach" /\ Len(answer[r]) = call[r] - 1 /\ call[r] \in Allocation
  BY <1>1, PlaceIs DEF Inside
<1>3. Place(0) = "collect"
  BY <1>1, <1>2 DEF Together, Lockstep, Along, Before, Creating
<1>4. told[call[r]] \in Names /\ call[r] = Turn(0)
  BY PathIs DEF Inside
<1>5. call[r] \in Nat
  BY <1>1, Facts
<1>6. held[r][call[r]] = 0
  BY <1>1, <1>2, <1>5 DEF Holds, Allocated, Mapping
<1>. QED  BY <1>1, <1>2, <1>3, <1>4, <1>6

\* A rank that attaches maps the segment linked at the path it was told.
LEMMA AttachKeeps ==
    ASSUME Together, NEW r \in Rank, Attach(r)
    PROVE  /\ Together' /\ Walks(r, "attach", "mapped")
           /\ file[told[call[r]]] \in 1 .. Len(mem)
           /\ \A q \in Rank, k \in Allocation :
                  held'[q][k] = IF q = r /\ k = call[r] THEN file[told[call[r]]] ELSE held[q][k]
<1>. USE RankIs
<1>1. /\ Books /\ r # 0 /\ r \notin waiting /\ Place(0) = "collect" /\ pc[r] = "attach"
      /\ told[call[r]] \in Names /\ call[r] \in Allocation
  BY AttachingIs DEF Attach
<1>. DEFINE f == file[told[call[r]]]
<1>2. /\ held \in [Rank -> [Allocation -> 0 .. Len(mem)]] /\ Len(mem) \in Nat
      /\ file \in [Names -> 0 .. Len(mem)] /\ Holds(r)
  BY <1>1, Facts DEF Books, TypeOK
<1>3. f \in 1 .. Len(mem)
  BY <1>1, <1>2 DEF Attach
<1>4. held' = [held EXCEPT ![r][call[r]] = f]
  BY DEF Attach, Hold
<1>. HIDE DEF f
<1>5. /\ held' \in [Rank -> [Allocation -> 0 .. Len(mem)]]
      /\ \A q \in Rank \ {r} : held'[q] = held[q]
      /\ \A k \in Allocation : held'[r][k] = IF k = call[r] THEN f ELSE held[r][k]
  BY <1>1, <1>2, <1>3, <1>4
<1>6. Goto(r, "mapped") /\ pc'[r] = "mapped"
  BY <1>1, Facts DEF Attach, Goto
<1>7. Holds(r)'
  BY <1>1, <1>2, <1>3, <1>5, <1>6 DEF Attach, Holds, Mapping, Using, Allocated
<1>8. /\ AskedOf' /\ pc' \in [Rank -> Label] /\ Walks(r, "attach", "mapped")
      /\ \A q \in Rank : Entered(q)' /\ Placed(q)' /\ Holds(q)'
  BY <1>1, <1>5, <1>6, <1>7, MovesOn DEF Attach, Inside, Using, OtherPlaces, RootPlaces
<1>9. Books'
  BY <1>1, <1>5, <1>8 DEF Books, TypeOK, Attach
<1>10. "mapped" \in Along(Place(0))
  BY <1>1 DEF Along, Before, Creating
<1>11. Together'
  BY <1>1, <1>8, <1>9, <1>10, WalkKeeps DEF Attach
<1>12. \A q \in Rank, k \in Allocation : held'[q][k] = IF q = r /\ k = call[r] THEN f ELSE held[q][k]
  BY <1>5
<1>. QED  BY <1>3, <1>8, <1>11, <1>12 DEF f

\* A rank that fails to attach returns alone.
LEMMA AttachFailureKeeps ==
    ASSUME Together, NEW r \in Rank, AttachFailure(r)
    PROVE  Together' /\ Walks(r, "attach", "unattached") /\ held' = held
<1>. USE RankIs
<1>1. Books /\ r # 0 /\ r \notin waiting /\ Place(0) = "collect" /\ pc[r] = "attach"
  BY AttachingIs DEF AttachFailure
<1>2. "attach" \in Result \ {"SUCCESS"} /\ Fail(r, "attach")
  BY DEF Result, AttachFailure
<1>3. /\ AskedOf' /\ pc' \in [Rank -> Label] /\ answer' \in [Rank -> Seq(Result)]
      /\ held' = held /\ Walks(r, "attach", "unattached")
      /\ \A q \in Rank : Entered(q)' /\ Placed(q)' /\ Holds(q)'
  BY <1>1, <1>2, Fails DEF AttachFailure, Inside, Mapping
<1>4. Books'
  BY <1>1, <1>3 DEF Books, TypeOK, AttachFailure
<1>5. "unattached" \in Along(Place(0))
  BY <1>1 DEF Along, Before, Creating
<1>. QED  BY <1>1, <1>3, <1>4, <1>5, WalkKeeps DEF AttachFailure

\* The custodian unlinks the path when all the others have mapped the segment.
LEMMA UnlinkKeeps ==
    ASSUME Together, Unlink
    PROVE  /\ Together' /\ Walks(0, "unlink", "use") /\ held' = held
           /\ told[call[0]] \in Names
           /\ \A p \in Names : file'[p] = IF p = told[call[0]] THEN 0 ELSE file[p]
<1>. USE RankIs
<1>1. /\ Books /\ pc[0] = "unlink" /\ Succeed(0) /\ 0 \notin waiting
      /\ file \in [Names -> 0 .. Len(mem)] /\ Len(mem) \in Nat
  BY Facts, BeyondIs DEF Together, Unlink, Custodian, Placed, Books, TypeOK
<1>2. told[call[0]] \in Names
  BY <1>1, PathIs DEF Inside
<1>3. /\ AskedOf' /\ pc' \in [Rank -> Label] /\ answer' \in [Rank -> Seq(Result)]
      /\ Walks(0, "unlink", "use")
      /\ \A q \in Rank : Entered(q)' /\ Placed(q)' /\ Holds(q)'
  BY <1>1, Succeeds DEF Unlink
<1>4. file' = [file EXCEPT ![told[call[0]]] = 0]
  BY DEF Unlink, Custodian
<1>5. /\ file' \in [Names -> 0 .. Len(mem)]
      /\ \A p \in Names : file'[p] = IF p = told[call[0]] THEN 0 ELSE file[p]
  BY <1>1, <1>2, <1>4
<1>6. Books'
  BY <1>1, <1>3, <1>5 DEF Books, TypeOK, Unlink
<1>7. \A q \in Rank \ {0} : Place(q) \in Along("use")
  BY <1>3 DEF Walks, Together, Lockstep, Along, Before, Creating
<1>8. Together'
  BY <1>3, <1>6, <1>7, WalkKeeps DEF Unlink, Before
<1>. QED  BY <1>2, <1>3, <1>5, <1>8 DEF Unlink

\* One of the others returns with success.
LEMMA FinishKeeps ==
    ASSUME Together, NEW r \in Rank, Finish(r)
    PROVE  Together' /\ Walks(r, "done", "use")
<1>. USE RankIs
<1>1. Books /\ pc[r] = "done" /\ Succeed(r) /\ r \notin waiting /\ r # 0
  BY Facts, BeyondIs DEF Together, Finish, Placed, OtherPlaces
<1>2. /\ AskedOf' /\ pc' \in [Rank -> Label] /\ answer' \in [Rank -> Seq(Result)]
      /\ Walks(r, "done", "use")
      /\ \A q \in Rank : Entered(q)' /\ Placed(q)' /\ Holds(q)'
  BY <1>1, Succeeds DEF Finish
<1>3. Books'
  BY <1>1, <1>2 DEF Books, TypeOK, Finish
<1>4. "use" \in Along(Place(0))
  BY <1>1, <1>2 DEF Walks, Together, Lockstep, Along, Before, Creating
<1>. QED  BY <1>1, <1>2, <1>3, <1>4, WalkKeeps DEF Finish

\* What writing changes of the memory.
LEMMA Written ==
    ASSUME Books, NEW r \in Rank, Write(r)
    PROVE  /\ mem' \in Seq(Seq(Byte)) /\ Len(mem') = Len(mem)
           /\ Segment(r) \in 1 .. Len(mem)
           /\ \A id \in 1 .. Len(mem) : Len(mem'[id]) = Len(mem[id])
           /\ \A id \in 1 .. Len(mem) : id # Segment(r) => mem'[id] = mem[id]
           /\ \A i \in 1 .. Len(mem[Segment(r)]) :
                  mem'[Segment(r)][i] = IF i \in OwnBytes(r) THEN [alloc |-> call[r], rank |-> r]
                                                             ELSE mem[Segment(r)][i]
           /\ OwnBytes(r) \subseteq 1 .. Len(mem[Segment(r)])
<1>1. /\ pc[r] = "use" /\ Len(mem) \in Nat /\ DOMAIN mem = 1 .. Len(mem) /\ mem \in Seq(Seq(Byte))
      /\ held \in [Rank -> [Allocation -> 0 .. Len(mem)]] /\ Holds(r)
      /\ call[r] \in Allocation
  BY Facts DEF Write, Books, TypeOK, Entered
<1>2. Segment(r) \in 1 .. Len(mem)
  BY <1>1 DEF Segment, Holds, Using
<1>. DEFINE old == mem[Segment(r)]
            stamp == [alloc |-> call[r], rank |-> r]
            new == [i \in DOMAIN old |-> IF i \in OwnBytes(r) THEN stamp ELSE old[i]]
<1>3. old \in Seq(Byte) /\ stamp \in Byte
  BY <1>1, <1>2, ElementOfSeq DEF Byte
<1>4. mem' = [mem EXCEPT ![Segment(r)] = new] /\ OwnBytes(r) \subseteq DOMAIN old
  BY DEF Write
<1>. HIDE DEF old, stamp
<1>5. DOMAIN old = 1 .. Len(old) /\ Len(old) \in Nat /\ \A i \in 1 .. Len(old) : old[i] \in Byte
  BY <1>3, LenProperties, ElementOfSeq
<1>6. new \in [1 .. Len(old) -> Byte] /\ \A i \in 1 .. Len(old) :
          new[i] = IF i \in OwnBytes(r) THEN stamp ELSE old[i]
  BY <1>3, <1>5
<1>. HIDE DEF new
<1>7. new \in Seq(Byte) /\ Len(new) = Len(old)
  BY <1>5, <1>6
<1>8. /\ mem' \in Seq(Seq(Byte)) /\ Len(mem') = Len(mem)
      /\ \A j \in 1 .. Len(mem) : mem'[j] = IF j = Segment(r) THEN new ELSE mem[j]
  BY <1>1, <1>2, <1>4, <1>7, ExceptSeq
<1>9. \A id \in 1 .. Len(mem) : Len(mem'[id]) = Len(mem[id])
  BY <1>7, <1>8 DEF old
<1>10. mem'[Segment(r)] = new
  BY <1>2, <1>8
<1>. QED  BY <1>2, <1>4, <1>5, <1>6, <1>8, <1>9, <1>10 DEF old, stamp

\* A rank that has written its part moves on to the barrier.
LEMMA WriteKeeps ==
    ASSUME Together, NEW r \in Rank, Write(r)
    PROVE  Together' /\ Walks(r, "use", "sync")
<1>. USE RankIs
<1>1. /\ Books /\ pc[r] = "use" /\ Goto(r, "sync") /\ r \notin waiting /\ Holds(r)
      /\ pc'[r] = "sync" /\ DOMAIN mem = 1 .. Len(mem)
  BY Facts, BeyondIs DEF Together, Write, Placed, Goto
<1>2. Holds(r)'
  BY <1>1 DEF Write, Holds, Mapping, Using, Allocated
<1>3. /\ AskedOf' /\ pc' \in [Rank -> Label] /\ Walks(r, "use", "sync")
      /\ \A q \in Rank : Entered(q)' /\ Placed(q)' /\ Holds(q)'
  BY <1>1, <1>2, MovesOn DEF Write, Inside, Using, OtherPlaces, RootPlaces
<1>4. /\ mem' \in Seq(Seq(Byte)) /\ Len(mem') = Len(mem)
      /\ \A id \in 1 .. Len(mem) : Len(mem'[id]) = Len(mem[id])
  BY <1>1, Written
<1>5. DOMAIN mem' = 1 .. Len(mem)
  BY <1>4, LenProperties
<1>6. \A id \in DOMAIN mem' : Len(mem'[id]) <= OFF_MAX
  BY <1>1, <1>4, <1>5 DEF Books, TypeOK
<1>7. Books'
  BY <1>1, <1>3, <1>4, <1>6 DEF Books, TypeOK, Write
<1>8. r # 0 => "sync" \in Along(Place(0))
  BY <1>3 DEF Walks, Together, Lockstep, Along, Before, Creating
<1>9. r = 0 => \A q \in Rank \ {0} : Place(q) \in Along("sync")
  BY <1>3 DEF Walks, Together, Lockstep, Along, Before, Creating
<1>. QED  BY <1>3, <1>7, <1>8, <1>9, WalkKeeps DEF Write, Before

\* A rank that is gone stays in its turn.
LEMMA OverstepKeeps ==
    ASSUME Together, NEW r \in Rank, Overstep(r)
    PROVE  Together' /\ Walks(r, "use", "gone")
<1>. USE RankIs
<1>1. Books /\ pc[r] = "use" /\ Goto(r, "gone") /\ r \notin waiting /\ Holds(r) /\ pc'[r] = "gone"
  BY Facts, BeyondIs DEF Together, Overstep, Placed, Goto
<1>2. Holds(r)'
  BY <1>1 DEF Overstep, Holds, Mapping, Using, Allocated
<1>3. /\ AskedOf' /\ pc' \in [Rank -> Label] /\ Walks(r, "use", "gone")
      /\ \A q \in Rank : Entered(q)' /\ Placed(q)' /\ Holds(q)'
  BY <1>1, <1>2, MovesOn DEF Overstep, Inside, Using, OtherPlaces, RootPlaces
<1>4. Books'
  BY <1>1, <1>3 DEF Books, TypeOK, Overstep
<1>5. r # 0 => "gone" \in Along(Place(0))
  BY <1>3 DEF Walks, Together, Lockstep, Along, Before, Creating
<1>6. r = 0 => \A q \in Rank \ {0} : Place(q) \in Along("gone")
  BY <1>3 DEF Walks, Together, Lockstep, Along, Before, Creating
<1>. QED  BY <1>3, <1>4, <1>5, <1>6, WalkKeeps DEF Overstep, Before

\* A rank that has read is between allocations.
LEMMA ReadKeeps ==
    ASSUME Together, NEW r \in Rank, Read(r)
    PROVE  Together' /\ Walks(r, "read", "SUCCESS")
<1>. USE RankIs
<1>1. /\ Books /\ pc[r] = "read" /\ Goto(r, "app") /\ r \notin waiting
      /\ Entered(r) /\ Placed(r) /\ Holds(r) /\ pc \in [Rank -> Label]
      /\ call[r] \in Nat /\ DOMAIN answer[r] = 1 .. Len(answer[r])
  BY Facts, BeyondIs DEF Together, Read, Placed
<1>2. pc'[r] = "app" /\ pc' \in [Rank -> Label] /\ \A q \in Rank \ {r} : pc'[q] = pc[q]
  BY <1>1, LabelIs DEF Goto
<1>3. /\ Place(r) = "read" /\ Turn(r) = call[r] /\ Len(answer[r]) = call[r] /\ call[r] \in Allocation
      /\ answer[r][call[r]] = "SUCCESS"
  BY <1>1, PlaceIs DEF Using, Inside, Entered
<1>4. answer[r] # <<>>
  <2>1. call[r] > 0
    BY <1>1 DEF Entered
  <2>. QED  BY <1>3, <2>1, EmptySeq
<1>5. Only(r)
  BY <1>2 DEF Only, Read
<1>6. Turn(r)' = call[r] /\ Place(r)' = "SUCCESS"
  BY <1>2, <1>3, <1>4 DEF Read, Turn, Place, Returned, Outcome
<1>7. Walks(r, "read", "SUCCESS")
  BY <1>3, <1>5, <1>6 DEF Walks, Read
<1>8. Entered(r)' /\ Placed(r)'
  BY <1>1, <1>2, <1>3 DEF Read, Entered, Placed, Inside, Using, OtherPlaces, RootPlaces
<1>9. Holds(r)'
  BY <1>1, <1>2 DEF Read, Holds, Allocated, Mapping, Using
<1>10. \A q \in Rank : Entered(q)' /\ Placed(q)' /\ Holds(q)'
  BY <1>1, <1>5, <1>8, <1>9, OthersBooks DEF Read
<1>11. AskedOf'
  BY <1>1 DEF Read, Books, AskedOf, Joined
<1>12. Books'
  BY <1>1, <1>2, <1>10, <1>11 DEF Books, TypeOK, Read
<1>13. r # 0 => "SUCCESS" \in Along(Place(0))
  BY <1>7 DEF Walks, Together, Lockstep, Along, Before, Creating
<1>14. r = 0 => \A q \in Rank \ {0} : Place(q) \in Along("SUCCESS")
  BY <1>7 DEF Walks, Together, Lockstep, Along, Before, Creating
<1>. QED  BY <1>7, <1>12, <1>13, <1>14, WalkKeeps DEF Read, Before

\* Freeing a segment moves nobody.
LEMMA FreeKeeps ==
    ASSUME Together, NEW r \in Rank, NEW j \in Allocation, Free(r, j)
    PROVE  /\ Together'
           /\ \A q \in Rank, k \in Allocation :
                  held'[q][k] = IF q = r /\ k = j THEN 0 ELSE held[q][k]
<1>1. Books /\ held \in [Rank -> [Allocation -> 0 .. Len(mem)]] /\ Len(mem) \in Nat
  BY Facts DEF Together
<1>2. /\ held' \in [Rank -> [Allocation -> 0 .. Len(mem)]]
      /\ \A q \in Rank, k \in Allocation :
             held'[q][k] = IF q = r /\ k = j THEN 0 ELSE held[q][k]
  BY <1>1 DEF Free
<1>3. ASSUME NEW q \in Rank PROVE Entered(q)' /\ Placed(q)' /\ Holds(q)'
  <2>1. Entered(q) /\ Placed(q) /\ Holds(q) /\ (pc[q] # "app" => call[q] \in Allocation)
    BY <1>1, Facts DEF Entered
  <2>2. Entered(q)' /\ Placed(q)'
    BY <2>1 DEF Free, Entered, Placed, Joined
  <2>3. pc[r] = "app" /\ pc' = pc /\ call' = call /\ answer' = answer
    BY DEF Free
  <2>4. pc[q] \in Mapping \cup Using => q # r /\ call[q] \in Allocation
    BY <2>1, <2>3 DEF Mapping, Using
  <2>5. Holds(q)'
    BY <1>2, <2>1, <2>3, <2>4 DEF Holds, Allocated
  <2>. QED  BY <2>2, <2>5
<1>4. AskedOf'
  BY <1>1 DEF Free, Books, AskedOf, Joined
<1>5. Books'
  BY <1>1, <1>2, <1>3, <1>4 DEF Books, TypeOK, Free
<1>. QED  BY <1>2, <1>5, StayKeeps DEF Free

(***************************************************************************)
(* The barrier: a rank that waits, and the last one, which moves everybody *)
(* to the place beyond.                                                    *)
(***************************************************************************)
\* A rank that is not the last to arrive moves nobody.
LEMMA ArriveKeeps ==
    ASSUME Together, NEW r \in Rank, Arrive(r), waiting \cup {r} # Rank
    PROVE  Together'
<1>. USE RankIs
<1>1. /\ Books /\ waiting' = waiting \cup {r} /\ pc' = pc /\ pc[r] \in DOMAIN Beyond
      /\ UNCHANGED <<call, asked, told, file, mem, held, answer>>
  BY DEF Together, Arrive
<1>2. waiting' \in (SUBSET Rank) \ {Rank}
  BY <1>1 DEF Books, TypeOK
<1>3. \A q \in Rank : Entered(q)' /\ Placed(q)' /\ Holds(q)'
  BY <1>1, Facts DEF Entered, Placed, Holds, Joined, Allocated
<1>4. AskedOf'
  BY <1>1 DEF Books, AskedOf, Joined
<1>5. Books'
  BY <1>1, <1>2, <1>3, <1>4 DEF Books, TypeOK
<1>. QED  BY <1>1, <1>5, StayKeeps

\* All the ranks wait for the same barrier.
LEMMA ReleaseIs ==
    ASSUME Together, NEW r \in Rank, Arrive(r), waiting \cup {r} = Rank
    PROVE  /\ pc[0] \in {"published", "collect", "sync"}
           /\ \A q \in Rank : /\ Place(q) = pc[q] /\ Turn(q) = call[q] /\ call[q] = call[0]
                              /\ pc'[q] = Beyond[pc[q]] /\ Joined(call[q]) = Rank
                              /\ Len(answer[q]) = IF pc[q] = "sync" THEN call[q] ELSE call[q] - 1
           /\ \A q \in Rank \ {0} : pc[q] = CASE pc[0] = "published" -> "sized"
                                              [] pc[0] = "collect" -> "mapped"
                                              [] OTHER -> "sync"
           /\ pc' = [q \in Rank |-> Beyond[pc[q]]] /\ waiting' = {}
           /\ UNCHANGED <<call, asked, told, file, mem, held, answer>>
<1>. USE RankIs
<1>1. /\ pc' = [q \in Rank |-> Beyond[pc[q]]] /\ waiting' = {} /\ Books
      /\ UNCHANGED <<call, asked, told, file, mem, held, answer>>
  BY DEF Together, Arrive
<1>2. \A q \in Rank : pc[q] \in DOMAIN Beyond
  <2>1. \A q \in Rank : q \in waiting \/ q = r
    OBVIOUS
  <2>. QED  BY <1>1, <2>1, Facts DEF Placed, Arrive
<1>3. ASSUME NEW q \in Rank
      PROVE  /\ Place(q) = pc[q] /\ Turn(q) = call[q] /\ Joined(call[q]) = Rank
             /\ Len(answer[q]) = IF pc[q] = "sync" THEN call[q] ELSE call[q] - 1
  BY <1>1, <1>2, BeyondIs, PlaceIs DEF Inside, Using
<1>4. pc[0] \in {"published", "collect", "sync"}
  BY <1>1, <1>2, Facts, BeyondIs DEF Placed, OtherPlaces
<1>5. ASSUME NEW q \in Rank \ {0}
      PROVE  /\ call[q] = call[0]
             /\ pc[q] = CASE pc[0] = "published" -> "sized"
                          [] pc[0] = "collect" -> "mapped"
                          [] OTHER -> "sync"
  <2>1. Turn(q) = Turn(0) /\ Place(q) \in Along(Place(0)) /\ Place(q) = pc[q] /\ Place(0) = pc[0]
        /\ Turn(q) = call[q] /\ Turn(0) = call[0]
    BY <1>3 DEF Together, Lockstep
  <2>2. pc[q] \in {"published", "collect", "sized", "mapped", "sync"} /\ pc[q] \in Along(pc[0])
    BY <1>2, <2>1, BeyondIs
  <2>3. CASE pc[0] = "published"
    BY <2>1, <2>2, <2>3 DEF Along, Before, Creating
  <2>4. CASE pc[0] = "collect"
    BY <2>1, <2>2, <2>4 DEF Along, Before, Creating
  <2>5. CASE pc[0] = "sync"
    BY <2>1, <2>2, <2>5 DEF Along, Before, Creating
  <2>. QED  BY <1>4, <2>3, <2>4, <2>5
<1>. QED  BY <1>1, <1>3, <1>4, <1>5

\* The last rank to arrive at a barrier releases all of them, each to the place
\* that goes with the custodian's.
LEMMA ReleaseKeeps ==
    ASSUME Together, NEW r \in Rank, Arrive(r), waiting \cup {r} = Rank
    PROVE  /\ Together'
           /\ Place(0)' = Beyond[pc[0]] /\ \A q \in Rank : Turn(q)' = Turn(q) /\ Turn(q) = call[q]
<1>. USE RankIs
<1>1. /\ pc[0] \in {"published", "collect", "sync"}
      /\ \A q \in Rank : /\ Place(q) = pc[q] /\ Turn(q) = call[q] /\ call[q] = call[0]
                         /\ pc'[q] = Beyond[pc[q]] /\ Joined(call[q]) = Rank
                         /\ Len(answer[q]) = IF pc[q] = "sync" THEN call[q] ELSE call[q] - 1
      /\ \A q \in Rank \ {0} : pc[q] = CASE pc[0] = "published" -> "sized"
                                         [] pc[0] = "collect" -> "mapped"
                                         [] OTHER -> "sync"
      /\ pc' = [q \in Rank |-> Beyond[pc[q]]] /\ waiting' = {}
      /\ UNCHANGED <<call, asked, told, file, mem, held, answer>>
  BY ReleaseIs
<1>2. Books
  BY DEF Together
<1>3. ASSUME NEW q \in Rank
      PROVE  /\ pc'[q] \in Label /\ Place(q)' = pc'[q] /\ Turn(q)' = Turn(q)
             /\ Entered(q)' /\ Placed(q)' /\ Holds(q)'
             /\ q # 0 => pc'[q] \in Along(pc'[0])
  <2>1. Entered(q) /\ Placed(q) /\ Holds(q) /\ call[q] \in Nat
    BY <1>2, Facts
  <2>2. pc[q] \in {"published", "collect", "sized", "mapped", "sync"}
    BY <1>1
  <2>3. /\ pc[q] = "published" => pc'[q] = "collect"
        /\ pc[q] = "collect" => pc'[q] = "unlink"
        /\ pc[q] = "sized" => pc'[q] = "attach"
        /\ pc[q] = "mapped" => pc'[q] = "done"
        /\ pc[q] = "sync" => pc'[q] = "read"
    BY <1>1, BeyondIs
  <2>4. pc'[q] \in Label
    BY <2>2, <2>3, LabelIs
  <2>5. pc'[q] \notin {"app", "gather"}
    BY <2>2, <2>3
  <2>6. Place(q)' = pc'[q] /\ Turn(q)' = Turn(q)
    BY <1>1, <2>5 DEF Place, Turn, Returned
  <2>7. Entered(q)' /\ Placed(q)'
    BY <1>1, <2>1, <2>2, <2>3 DEF Entered, Placed, Joined, Inside, Using, OtherPlaces, RootPlaces
  <2>8. Holds(q)'
    BY <1>1, <2>1, <2>2, <2>3 DEF Holds, Mapping, Using, Allocated
  <2>9. ASSUME q # 0 PROVE pc'[q] \in Along(pc'[0])
    <3>1. CASE pc[0] = "published"
      <4>1. pc'[0] = "collect" /\ pc'[q] = "attach"
        BY <1>1, <2>3, <2>9, <3>1, BeyondIs
      <4>. QED  BY <4>1 DEF Along, Before, Creating
    <3>2. CASE pc[0] = "collect"
      <4>1. pc'[0] = "unlink" /\ pc'[q] = "done"
        BY <1>1, <2>3, <2>9, <3>2, BeyondIs
      <4>. QED  BY <4>1 DEF Along, Before, Creating
    <3>3. CASE pc[0] = "sync"
      <4>1. pc'[0] = "read" /\ pc'[q] = "read"
        BY <1>1, <2>3, <2>9, <3>3, BeyondIs
      <4>. QED  BY <4>1 DEF Along, Before, Creating
    <3>. QED  BY <1>1, <3>1, <3>2, <3>3
  <2>. QED  BY <2>4, <2>6, <2>7, <2>8, <2>9
<1>4. AskedOf'
  <2>1. call' = call /\ asked' = asked
    BY <1>1
  <2>. QED  BY <1>2, <2>1 DEF Books, AskedOf, Joined
<1>5. {} \in (SUBSET Rank) \ {Rank}
  OBVIOUS
<1>6. pc' \in [Rank -> Label]
  BY <1>1, <1>3
<1>7. Books'
  BY <1>1, <1>2, <1>3, <1>4, <1>5, <1>6 DEF Books, TypeOK
<1>8. Lockstep'
  <2>1. \A q \in Rank \ {0} : Turn(q)' = Turn(0)' /\ Place(q)' \in Along(pc'[0])
    BY <1>3 DEF Together, Lockstep
  <2>2. Place(0)' = pc'[0]
    BY <1>3
  <2>. QED  BY <2>1, <2>2 DEF Lockstep, Along
<1>9. pc'[0] = Beyond[pc[0]] /\ pc'[0] \in {"collect", "unlink", "read"}
  BY <1>1, BeyondIs
<1>10. Telling'
  <2>1. Turn(0)' = Turn(0) /\ Place(0)' = pc'[0] /\ Place(0) = pc[0] /\ told' = told
    BY <1>1, <1>3
  <2>. QED  BY <1>1, <1>9, <2>1 DEF Together, Telling, Before
<1>11. Agreed'
  <2>1. Turn(0)' = Turn(0) /\ answer' = answer
    BY <1>1, <1>3
  <2>. QED  BY <2>1 DEF Together, Agreed
<1>12. Together'
  BY <1>7, <1>8, <1>10, <1>11 DEF Together
<1>. QED  BY <1>1, <1>3, <1>9, <1>12

(***************************************************************************)
(* The next allocation: the last rank to join it moves everybody into the  *)
(* next turn.                                                              *)
(***************************************************************************)
\* A rank that has returned is at the place of a result.
Results == {"SUCCESS", "NO_PATH", "open", "ftruncate", "mmap", "unattached"}

\* The place of a rank that has returned, and the result it stands for.
LEMMA ReturnedIs ==
    ASSUME Books, NEW r \in Rank, Returned(r)
    PROVE  /\ Place(r) \in Results /\ Turn(r) = Len(answer[r])
           /\ Len(answer[r]) > 0 => answer[r][Len(answer[r])] =
                  IF Place(r) = "unattached" THEN "attach" ELSE Place(r)
<1>1. Place(r) = (IF Outcome(r) = "attach" THEN "unattached" ELSE Outcome(r)) /\ Turn(r) = Len(answer[r])
  BY DEF Place, Turn
<1>2. answer[r] \in Seq(Result) /\ Len(answer[r]) \in Nat
  BY Facts
<1>3. CASE answer[r] = <<>>
  <2>1. Len(answer[r]) = 0
    BY <1>3, EmptySeq
  <2>. QED  BY <1>1, <1>3, <2>1 DEF Outcome, Results
<1>4. CASE answer[r] # <<>>
  <2>1. Len(answer[r]) \in 1 .. Len(answer[r])
    BY <1>2, <1>4, EmptySeq
  <2>2. answer[r][Len(answer[r])] \in Result
    BY <1>2, <2>1, ElementOfSeq
  <2>. QED  BY <1>1, <1>4, <2>2 DEF Outcome, Results, Result
<1>. QED  BY <1>3, <1>4

\* Ranks that have all returned from a turn have the same answer.
LEMMA ReturnedAgree ==
    ASSUME Together, \A q \in Rank : Returned(q), NEW r \in Rank, Turn(0) > 0
    PROVE  answer[r][Turn(0)] = answer[0][Turn(0)]
<1>. USE RankIs
<1>1. Books
  BY DEF Together
<1>2. CASE r = 0
  BY <1>2
<1>3. CASE r # 0
  <2>1. Turn(r) = Turn(0) /\ Place(r) \in Along(Place(0))
    BY <1>3 DEF Together, Lockstep
  <2>2. /\ Place(r) \in Results /\ Turn(r) = Len(answer[r])
        /\ Len(answer[r]) > 0 => answer[r][Len(answer[r])] =
               IF Place(r) = "unattached" THEN "attach" ELSE Place(r)
    BY <1>1, ReturnedIs
  <2>3. /\ Place(0) \in Results /\ Turn(0) = Len(answer[0])
        /\ Len(answer[0]) > 0 => answer[0][Len(answer[0])] =
               IF Place(0) = "unattached" THEN "attach" ELSE Place(0)
    BY <1>1, ReturnedIs
  <2>4. Place(r) = Place(0)
    BY <2>1, <2>2, <2>3 DEF Along, Before, Creating, Results
  <2>. QED  BY <2>1, <2>2, <2>3, <2>4
<1>. QED  BY <1>2, <1>3

\* What a rank that begins the next allocation changes of the books.
LEMMA AllocateBooks ==
    ASSUME Together, NEW r \in Rank, call[r] < Len(Sizes), NEW size \in Sizes[call[r] + 1],
           Allocate(r, size)
    PROVE  /\ Books' /\ Books /\ Returned(r) /\ Turn(r) = call[r] /\ call[r] + 1 \in Allocation
           /\ call'[r] = call[r] + 1 /\ pc'[r] = "gather" /\ pc[r] = "app"
           /\ \A q \in Rank \ {r} : call'[q] = call[q] /\ pc'[q] = pc[q]
           /\ \A k \in Nat : Joined(k)' = IF k = call[r] + 1 THEN Joined(k) \cup {r} ELSE Joined(k)
           /\ r \notin Joined(call[r] + 1)
           /\ \A k \in Allocation : k # call[r] + 1 => asked'[k] = asked[k]
           /\ UNCHANGED <<told, file, mem, held, waiting, answer>>
<1>. USE RankIs
<1>1. /\ Books /\ pc[r] = "app" /\ pc \in [Rank -> Label] /\ Len(Sizes) \in Nat
      /\ call \in [Rank -> 0 .. Len(Sizes)] /\ call[r] \in Nat /\ Allocation = 1 .. Len(Sizes)
      /\ Entered(r) /\ Placed(r) /\ Holds(r) /\ UNCHANGED <<told, file, mem, held, waiting, answer>>
  BY Facts DEF Together, Allocate
<1>. DEFINE k == call[r] + 1
<1>2. k \in Allocation /\ k \in Nat
  BY <1>1
<1>3. /\ pc' \in [Rank -> Label] /\ pc'[r] = "gather"
      /\ call' \in [Rank -> 0 .. Len(Sizes)] /\ call'[r] = k
      /\ \A q \in Rank \ {r} : call'[q] = call[q] /\ pc'[q] = pc[q]
  BY <1>1, <1>2, LabelIs DEF Allocate, Goto
<1>4. r \notin Joined(k)
  BY <1>1 DEF Joined
<1>. HIDE DEF k
<1>5. \A j \in Nat : Joined(j)' = IF j = k THEN Joined(j) \cup {r} ELSE Joined(j)
  <2>. SUFFICES ASSUME NEW j \in Nat, NEW q \in Rank
                PROVE  j <= call'[q] <=> IF j = k THEN j <= call[q] \/ q = r ELSE j <= call[q]
    BY DEF Joined
  <2>1. CASE q = r
    BY <1>1, <1>3, <2>1 DEF k
  <2>2. CASE q # r
    BY <1>3, <2>2
  <2>. QED  BY <2>1, <2>2
<1>6. asked' = [asked EXCEPT ![k] = With(asked[k], r, size)]
  BY DEF Allocate, k
<1>7. DOMAIN asked = Allocation /\ \A j \in Allocation : asked[j] \in [Joined(j) -> Sizes[j]]
  BY <1>1 DEF Books, AskedOf
<1>8. With(asked[k], r, size) \in [Joined(k) \cup {r} -> Sizes[k]]
  <2>1. asked[k] \in [Joined(k) -> Sizes[k]] /\ size \in Sizes[k]
    BY <1>2, <1>7 DEF k
  <2>. QED  BY <2>1 DEF With
<1>9. DOMAIN asked' = Allocation /\ \A j \in Allocation : asked'[j] =
          IF j = k THEN With(asked[k], r, size) ELSE asked[j]
  BY <1>2, <1>6, <1>7
<1>10. AskedOf'
  <2>1. \A j \in Allocation : j \in Nat
    BY <1>1
  <2>2. ASSUME NEW j \in Allocation PROVE asked'[j] \in [Joined(j)' -> Sizes[j]]
    <3>1. CASE j = k
      <4>1. Joined(j)' = Joined(k) \cup {r} /\ asked'[j] = With(asked[k], r, size)
        BY <1>5, <1>9, <2>1, <3>1
      <4>. QED  BY <1>8, <3>1, <4>1
    <3>2. CASE j # k
      <4>1. Joined(j)' = Joined(j) /\ asked'[j] = asked[j]
        BY <1>5, <1>9, <2>1, <3>2
      <4>. QED  BY <1>7, <4>1
    <3>. QED  BY <3>1, <3>2
  <2>. QED  BY <1>9, <2>2 DEF AskedOf
<1>11. ASSUME NEW q \in Rank PROVE Entered(q)' /\ Placed(q)' /\ Holds(q)'
  <2>1. CASE q = r
    <3>1. Entered(r)'
      BY <1>1, <1>3 DEF Entered, Inside, Using, k
    <3>2. Placed(r)'
      BY <1>1, <1>3, BeyondIs DEF Placed, OtherPlaces, RootPlaces
    <3>3. Holds(r)'
      BY <1>1, <1>3 DEF Holds, Allocated, Mapping, Using
    <3>. QED  BY <2>1, <3>1, <3>2, <3>3
  <2>2. CASE q # r
    <3>1. Entered(q) /\ Placed(q) /\ Holds(q) /\ call[q] \in Nat
      BY <1>1, Facts
    <3>2. Joined(call[q]) = Rank => Joined(call[q])' = Rank
      <4>1. Joined(call[q])' = IF call[q] = k THEN Joined(call[q]) \cup {r} ELSE Joined(call[q])
        BY <1>5, <3>1, <1>3, <2>2 DEF Joined
      <4>. QED  BY <4>1
    <3>3. pc'[q] = pc[q] /\ call'[q] = call[q]
      BY <1>3, <2>2
    <3>4. Entered(q)' /\ Placed(q)' /\ Holds(q)'
      BY <1>1, <3>1, <3>2, <3>3 DEF Entered, Placed, Holds, Allocated, Joined
    <3>. QED  BY <3>4
  <2>. QED  BY <2>1, <2>2
<1>12. \A j \in Allocation : DOMAIN asked'[j] \subseteq Rank /\ Range(asked'[j]) \subseteq Sizes[j]
  <2>. SUFFICES ASSUME NEW j \in Allocation
                PROVE  DOMAIN asked'[j] \subseteq Rank /\ Range(asked'[j]) \subseteq Sizes[j]
    OBVIOUS
  <2>1. asked'[j] \in [Joined(j)' -> Sizes[j]] /\ Joined(j)' \subseteq Rank
    BY <1>10 DEF AskedOf, Joined
  <2>. QED  BY <2>1 DEF Range
<1>13. TypeOK'
  BY <1>1, <1>3, <1>12 DEF Books, TypeOK
<1>14. Books'
  BY <1>10, <1>11, <1>13 DEF Books
<1>15. Returned(r) /\ Turn(r) = call[r]
  BY <1>1 DEF Returned, Turn, Entered, Inside
<1>. QED  BY <1>1, <1>2, <1>3, <1>4, <1>5, <1>9, <1>14, <1>15 DEF k

\* A rank that is not the last to begin an allocation stays in the turn it has
\* returned from; the last one takes everybody into the next turn.
LEMMA AllocateKeeps ==
    ASSUME Together, NEW r \in Rank, call[r] < Len(Sizes), NEW size \in Sizes[call[r] + 1],
           Allocate(r, size)
    PROVE  /\ Together'
           /\ \/ \A q \in Rank : Place(q)' = Place(q) /\ Turn(q)' = Turn(q)
              \/ \A q \in Rank : /\ Place(q)' = "gather" /\ Turn(q)' = Turn(q) + 1
                                 /\ Returned(q) /\ pc'[q] = "gather"
<1>. USE RankIs
<1>0. PICK k : k = call[r] + 1
  OBVIOUS
<1>1. /\ Books' /\ Books /\ Returned(r) /\ Turn(r) = call[r] /\ k \in Allocation
      /\ call'[r] = k /\ pc'[r] = "gather" /\ pc[r] = "app"
      /\ \A q \in Rank \ {r} : call'[q] = call[q] /\ pc'[q] = pc[q]
      /\ \A j \in Nat : Joined(j)' = IF j = k THEN Joined(j) \cup {r} ELSE Joined(j)
      /\ r \notin Joined(k)
      /\ UNCHANGED <<told, file, mem, held, waiting, answer>>
  BY <1>0, AllocateBooks
<1>2. call[r] \in Nat /\ k = call[r] + 1 /\ k \in Nat /\ \A q \in Rank : call[q] \in Nat
  BY <1>0, <1>1, Facts
<1>3. \A q \in Rank : Turn(q) = call[r]
  BY <1>1 DEF Together, Lockstep
<1>4. CASE Joined(k)' # Rank
  <2>1. ASSUME NEW q \in Rank PROVE Place(q)' = Place(q) /\ Turn(q)' = Turn(q)
    <3>1. CASE q = r
      <4>1. Returned(r)'
        BY <1>1, <1>4 DEF Returned, Joined
      <4>. QED  BY <1>1, <3>1, <4>1 DEF Place, Turn, Outcome
    <3>2. CASE q # r
      <4>1. call[q] \in Nat /\ call'[q] = call[q] /\ pc'[q] = pc[q]
        BY <1>1, <1>2, <3>2
      <4>2. Joined(call[q])' = Rank <=> Joined(call[q]) = Rank
        <5>1. CASE call[q] = k
          BY <1>1, <1>4, <5>1, <4>1 DEF Joined
        <5>2. CASE call[q] # k
          BY <1>1, <4>1, <5>2 DEF Joined
        <5>. QED  BY <5>1, <5>2
      <4>3. Returned(q)' = Returned(q)
        BY <4>1, <4>2 DEF Returned, Joined
      <4>. QED  BY <1>1, <4>1, <4>3 DEF Place, Turn, Outcome
    <3>. QED  BY <3>1, <3>2
  <2>2. told' = told /\ answer' = answer
    BY <1>1
  <2>3. Lockstep' /\ Telling' /\ Agreed'
    BY <2>1, <2>2 DEF Together, Lockstep, Telling, Agreed, Along
  <2>. QED  BY <1>1, <2>1, <2>3 DEF Together
<1>5. CASE Joined(k)' = Rank
  <2>1. ASSUME NEW q \in Rank
        PROVE  Returned(q) /\ pc'[q] = "gather" /\ call'[q] = k
    <3>1. CASE q = r
      BY <1>1, <3>1
    <3>2. CASE q # r
      <4>1. k <= call[q]
        BY <1>1, <1>5, <3>2 DEF Joined
      <4>2. Entered(q) /\ call[q] \in Nat /\ Turn(q) = call[r]
        BY <1>1, <1>3, Facts
      <4>3. Joined(call[q]) # Rank
        <5>1. r \notin Joined(call[q])
          BY <1>2, <4>1 DEF Joined
        <5>. QED  BY <5>1
      <4>4. pc[q] # "app"
        <5>. SUFFICES ASSUME pc[q] = "app" PROVE FALSE
          OBVIOUS
        <5>1. Turn(q) = call[q]
          BY <4>2 DEF Turn, Returned, Entered, Inside
        <5>. QED  BY <1>2, <4>1, <4>2, <5>1
      <4>5. pc[q] \in Label
        BY <1>1, Facts
      <4>6. pc[q] = "gather"
        BY <4>2, <4>3, <4>4, <4>5, LabelIs DEF Entered, Inside, Using
      <4>7. Returned(q) /\ Turn(q) = call[q] - 1
        BY <4>2, <4>3, <4>6 DEF Turn, Returned, Entered
      <4>8. call[q] = k
        BY <1>2, <4>2, <4>7
      <4>. QED  BY <1>1, <3>2, <4>6, <4>7, <4>8
    <3>. QED  BY <3>1, <3>2
  <2>2. ASSUME NEW q \in Rank
        PROVE  Place(q)' = "gather" /\ Turn(q)' = k /\ Turn(q) = k - 1
    <3>1. pc'[q] = "gather" /\ call'[q] = k /\ Joined(call[q])' = Rank
      <4>1. Joined(call[q])' = Joined(k)'
        BY <2>1 DEF Joined
      <4>. QED  BY <1>5, <2>1, <4>1
    <3>2. ~Returned(q)'
      BY <3>1 DEF Returned
    <3>. QED  BY <1>2, <1>3, <3>1, <3>2 DEF Place, Turn
  <2>3. Lockstep'
    BY <2>2 DEF Lockstep, Along, Before
  <2>4. told' = told /\ answer' = answer /\ \A j \in Allocation : j \in Nat
    BY <1>1, Facts, SMTT(30)
  <2>5. Telling'
    <3>1. \A j \in Allocation : j > Turn(0) => told[j] = Untold
      BY DEF Together, Telling
    <3>2. Turn(0)' = k /\ Turn(0) = k - 1 /\ Place(0)' = "gather"
      BY <2>2
    <3>3. told[k] = Untold
      BY <1>1, <1>2, <3>1, <3>2
    <3>4. \A j \in Allocation : j > Turn(0)' => told'[j] = Untold
      BY <1>2, <2>4, <3>1, <3>2
    <3>. QED  BY <2>4, <3>2, <3>3, <3>4 DEF Telling, Before
  <2>6. Agreed'
    <3>. SUFFICES ASSUME NEW q \in Rank, NEW j \in Allocation, j < k
                  PROVE  answer[q][j] = answer[0][j]
      BY <2>2, <2>4 DEF Agreed
    <3>1. Turn(0) = k - 1 /\ j \in Nat /\ j > 0
      BY <1>1, <2>2, Facts, SMTT(30)
    <3>2. CASE j = k - 1
      BY <1>2, <2>1, <3>1, <3>2, ReturnedAgree
    <3>3. CASE j # k - 1
      BY <1>2, <3>1, <3>3 DEF Together, Agreed
    <3>. QED  BY <3>2, <3>3
  <2>7. Together'
    BY <1>1, <2>3, <2>5, <2>6 DEF Together
  <2>8. \A q \in Rank : Place(q)' = "gather" /\ Turn(q)' = Turn(q) + 1 /\ Returned(q) /\ pc'[q] = "gather"
    BY <1>2, <2>1, <2>2
  <2>. QED  BY <2>7, <2>8
<1>. QED  BY <1>4, <1>5

(***************************************************************************)
(* All of it, at every step.                                               *)
(***************************************************************************)
\* At first everybody is in turn 0.
LEMMA TogetherInit == Init => Together
<1>. SUFFICES ASSUME Init PROVE Together
  OBVIOUS
<1>. USE RankIs
<1>1. Len(Sizes) \in Nat /\ Allocation = 1 .. Len(Sizes)
  BY XpmAssumption, LenProperties DEF Allocation
<1>2. mem = <<>> /\ Len(mem) = 0 /\ DOMAIN mem = {} /\ mem \in Seq(Seq(Byte))
  BY EmptySeq DEF Init
<1>3. \A r \in Rank : answer[r] = <<>> /\ Len(answer[r]) = 0 /\ answer[r] \in Seq(Result)
  BY EmptySeq DEF Init
<1>4. answer \in [Rank -> Seq(Result)]
  BY <1>3 DEF Init
<1>5. "app" \in Label
  BY LabelIs
<1>6. \A k \in Nat : k > 0 => Joined(k) = {}
  BY DEF Joined, Init
<1>7. \A k \in Allocation : asked[k] \in [{} -> Sizes[k]] /\ DOMAIN asked[k] = {} /\ Range(asked[k]) = {}
  BY DEF Init, Unasked, Range
<1>8. TypeOK
  BY <1>1, <1>2, <1>4, <1>5, <1>7 DEF Init, TypeOK
<1>9. AskedOf
  <2>1. DOMAIN asked = Allocation /\ \A k \in Allocation : Joined(k) = {}
    BY <1>1, <1>6 DEF Init
  <2>. QED  BY <1>7, <2>1 DEF AskedOf
<1>10. \A r \in Rank : Entered(r) /\ Placed(r) /\ Holds(r)
  BY <1>3 DEF Init, Entered, Placed, Holds, Inside, Using, Mapping, OtherPlaces, RootPlaces
<1>11. \A r \in Rank : Turn(r) = 0 /\ Place(r) = "SUCCESS"
  BY <1>3 DEF Init, Turn, Place, Returned, Outcome
<1>12. Lockstep
  BY <1>11 DEF Lockstep, Along, Before, Creating
<1>13. Telling /\ Agreed
  BY <1>1, <1>11 DEF Telling, Agreed, Init
<1>. QED  BY <1>8, <1>9, <1>10, <1>12, <1>13 DEF Together, Books

\* Every step keeps the ranks together.
LEMMA TogetherStep == Together /\ [Next]_vars => Together'
<1>. SUFFICES ASSUME Together, [Next]_vars PROVE Together'
  OBVIOUS
<1>1. CASE UNCHANGED vars
  <2>1. UNCHANGED <<pc, call, asked, told, file, mem, held, waiting, answer>> /\ Books
    BY <1>1 DEF vars, Together
  <2>2. TypeOK'
    BY <2>1 DEF Books, TypeOK
  <2>3. AskedOf'
    BY <2>1 DEF Books, AskedOf, Joined
  <2>4. \A r \in Rank : Entered(r)' /\ Placed(r)' /\ Holds(r)'
    BY <2>1 DEF Books, Entered, Placed, Holds, Allocated, Joined
  <2>. QED  BY <2>1, <2>2, <2>3, <2>4, StayKeeps DEF Books
<1>2. ASSUME NEW r \in Rank, LibraryStep(r) PROVE Together'
  <2>1. CASE Gather(r)
    BY <2>1, GatherKeeps
  <2>2. CASE HearPath(r)
    BY <2>2, HearPathKeeps
  <2>3. CASE Arrive(r)
    BY <2>3, ArriveKeeps, ReleaseKeeps
  <2>4. CASE Attach(r)
    BY <2>4, AttachKeeps
  <2>5. CASE AttachFailure(r)
    BY <2>5, AttachFailureKeeps
  <2>6. CASE Finish(r)
    BY <2>6, FinishKeeps
  <2>7. CASE CustodianStep
    <3>1. ASSUME NEW p \in Names, TellPath(p) PROVE Together'
      BY <3>1, TellPathKeeps
    <3>. QED
      BY <2>7, <3>1, TellNoPathKeeps, CreateKeeps, OpenFailureKeeps, SizeFailureKeeps,
         MapFailureKeeps, UnlinkKeeps DEF CustodianStep
  <2>. QED  BY <1>2, <2>1, <2>2, <2>3, <2>4, <2>5, <2>6, <2>7 DEF LibraryStep
<1>3. ASSUME NEW r \in Rank, ApplicationStep(r) PROVE Together'
  BY <1>3, AllocateKeeps, WriteKeeps, OverstepKeeps, ReadKeeps DEF ApplicationStep, Allocates
<1>4. ASSUME NEW r \in Rank, NEW k \in Allocation, Free(r, k) PROVE Together'
  BY <1>4, FreeKeeps
<1>. QED  BY <1>1, <1>2, <1>3, <1>4 DEF Next

\* The ranks of the node are in one allocation at a time, at places that go
\* together, whoever fails: the custodian's place says where the others can be.
THEOREM InOneTurn == Spec => []Together
<1>1. Init => Together
  BY TogetherInit
<1>2. Together /\ [Next]_vars => Together'
  BY TogetherStep
<1>. QED  BY <1>1, <1>2, PTL DEF Spec

\* Every variable keeps its type, and no segment is larger than an off_t says.
THEOREM Types == Spec => []TypeOK
<1>1. Together => TypeOK
  BY DEF Together, Books
<1>. QED  BY <1>1, InOneTurn, PTL

(***************************************************************************)
(* The files: what is linked, and what the ranks have mapped of it.        *)
(***************************************************************************)
\* Where the custodian is while its segment is linked.
Linked == {"published", "collect", "unlink"}

\* Two paths never lead to one segment; the custodian has mapped what is linked
\* at its path; and a linked segment is mapped for the current allocation only.
Links ==
    /\ \A p, q \in Names : file[p] # 0 /\ file[p] = file[q] => p = q
    /\ pc[0] \in Linked => file[told[call[0]]] = held[0][call[0]]
    /\ \A p \in Names, r \in Rank, k \in Allocation :
           file[p] # 0 /\ held[r][k] = file[p] => k = call[0] /\ told[k] = p /\ pc[0] \in Linked
    /\ Apart
    /\ LinkedOnlyInside

\* A history only grows.
LEMMA Histories ==
    ASSUME Books, answer' = answer \/ \E r \in Rank, result \in Result : Answer(r, result)
    PROVE  /\ \A r \in Rank, k \in Allocation : Allocated(r, k) => Allocated(r, k)'
           /\ \A k \in Allocation : LeftFile(k) => LeftFile(k)'
<1>. USE RankIs
<1>1. CASE answer' = answer
  BY <1>1 DEF Allocated, LeftFile
<1>2. ASSUME NEW r \in Rank, NEW result \in Result, Answer(r, result)
      PROVE  \A q \in Rank : \A k \in DOMAIN answer[q] : k \in DOMAIN answer'[q] /\ answer'[q][k] = answer[q][k]
  <2>1. /\ \A q \in Rank \ {r} : answer'[q] = answer[q]
        /\ DOMAIN answer'[r] = 1 .. Len(answer[r]) + 1
        /\ \A k \in 1 .. Len(answer[r]) : answer'[r][k] = answer[r][k]
        /\ DOMAIN answer[r] = 1 .. Len(answer[r]) /\ Len(answer[r]) \in Nat
    BY <1>2, Answered, Facts
  <2>. QED  BY <2>1
<1>3. CASE \E r \in Rank, result \in Result : Answer(r, result)
  <2>1. \A q \in Rank : \A k \in DOMAIN answer[q] : k \in DOMAIN answer'[q] /\ answer'[q][k] = answer[q][k]
    BY <1>2, <1>3
  <2>. QED  BY <2>1 DEF Allocated, LeftFile, Custodian
<1>. QED  BY <1>1, <1>3

\* A step that links and maps nothing, and does not take the custodian to or
\* from where its segment is linked.
LEMMA QuietKeeps ==
    ASSUME Links, file' = file,
           \A r \in Rank, k \in Allocation : held'[r][k] \in {0, held[r][k]},
           pc'[0] \in Linked <=> pc[0] \in Linked,
           pc[0] \in Linked => call'[0] = call[0] /\ held'[0] = held[0] /\ told' = told,
           \A k \in Allocation : LeftFile(k) => LeftFile(k)' /\ told'[k] = told[k]
    PROVE  Links'
<1>. USE RankIs
<1>1. \A p, q \in Names : file'[p] # 0 /\ file'[p] = file'[q] => p = q
  BY DEF Links
<1>2. pc'[0] \in Linked => file'[told'[call'[0]]] = held'[0][call'[0]]
  BY DEF Links
<1>3. ASSUME NEW p \in Names, NEW r \in Rank, NEW k \in Allocation, file'[p] # 0, held'[r][k] = file'[p]
      PROVE  k = call'[0] /\ told'[k] = p /\ pc'[0] \in Linked
  <2>1. held[r][k] = file[p] /\ file[p] # 0
    BY <1>3
  <2>2. k = call[0] /\ told[k] = p /\ pc[0] \in Linked
    BY <2>1 DEF Links
  <2>. QED  BY <2>2
<1>4. Apart'
  <2>. SUFFICES ASSUME NEW q \in Rank, NEW r \in Rank, NEW j \in Allocation, NEW k \in Allocation,
                       held'[q][j] # 0, held'[r][k] # 0
                PROVE  held'[q][j] = held'[r][k] <=> j = k
    BY DEF Apart
  <2>1. held'[q][j] = held[q][j] /\ held'[r][k] = held[r][k]
    OBVIOUS
  <2>. QED  BY <2>1 DEF Links, Apart
<1>5. LinkedOnlyInside'
  <2>. SUFFICES ASSUME NEW p \in Names, file[p] # 0
                PROVE  \E k \in Allocation :
                           /\ told'[k] = p
                           /\ \/ k = call'[0] /\ held'[0][k] = file'[p] /\ pc'[0] \in Linked
                              \/ LeftFile(k)'
    BY DEF LinkedOnlyInside, Linked, Custodian
  <2>1. PICK k \in Allocation :
            /\ told[k] = p
            /\ \/ k = call[0] /\ held[0][k] = file[p] /\ pc[0] \in Linked
               \/ LeftFile(k)
    BY DEF Links, LinkedOnlyInside, Linked, Custodian
  <2>. QED  BY <2>1
<1>. QED  BY <1>1, <1>2, <1>3, <1>4, <1>5 DEF Links

\* A rank that goes to another place, without the custodian's going to or from
\* where its segment is linked.
LEMMA MoveIsQuiet ==
    ASSUME Together, Links, NEW r \in Rank, NEW l, Goto(r, l),
           UNCHANGED <<call, told, file, held>>, r = 0 => pc[0] \notin Linked /\ l \notin Linked,
           answer' = answer \/ \E result \in Result : Answer(r, result)
    PROVE  Links'
<1>. USE RankIs
<1>1. Books /\ pc \in [Rank -> Label]
  BY Facts DEF Together
<1>2. pc'[0] = IF r = 0 THEN l ELSE pc[0]
  BY <1>1 DEF Goto
<1>3. \A k \in Allocation : LeftFile(k) => LeftFile(k)'
  BY <1>1, Histories
<1>. QED  BY <1>2, <1>3, QuietKeeps

\* What is told, is told of an allocation that has left no file yet.
LEMMA TellingIsQuiet ==
    ASSUME Together, Links, pc[0] = "path", NEW x, told' = [told EXCEPT ![call[0]] = x],
           file' = file, held' = held, call' = call, pc'[0] \notin Linked,
           answer' = answer \/ \E result \in Result : Answer(0, result)
    PROVE  Links'
<1>. USE RankIs
<1>1. /\ Books /\ Len(answer[0]) = call[0] - 1 /\ DOMAIN answer[0] = 1 .. Len(answer[0])
      /\ call[0] \in Nat
  BY PlaceIs, Facts DEF Together, Inside
<1>2. \A k \in Allocation : LeftFile(k) => LeftFile(k)'
  BY <1>1, Histories
<1>3. \A k \in Allocation : LeftFile(k) => k # call[0]
  BY <1>1 DEF LeftFile, Custodian
<1>4. \A k \in Allocation : k # call[0] => told'[k] = told[k]
  BY <1>1 DEF Books, TypeOK
<1>5. pc[0] \notin Linked
  BY DEF Linked
<1>. QED  BY <1>2, <1>3, <1>4, <1>5, QuietKeeps

\* Before a segment is created nobody has mapped what may be linked at its path,
\* and the new segment is nobody's.
LEMMA NewIsApart ==
    ASSUME Together, Links, pc[0] = "create", NEW size \in 0 .. OFF_MAX, OpenFile(size)
    PROVE  /\ file'[told[call[0]]] # 0
           /\ \A r \in Rank, k \in Allocation : held[r][k] # file'[told[call[0]]]
           /\ \A p, q \in Names : file'[p] # 0 /\ file'[p] = file'[q] => p = q
           /\ \A p \in Names \ {told[call[0]]} : file'[p] = file[p]
           /\ \A p \in Names, r \in Rank, k \in Allocation : file[p] # 0 => held[r][k] # file[p]
<1>. USE RankIs
<1>1. Books /\ told[call[0]] \in Names /\ call[0] \in Allocation
  BY CreatingIs
<1>2. PICK p \in Names : p = told[call[0]]
  BY <1>1
<1>3. /\ file'[p] # 0 /\ (file'[p] = file[p] \/ (file[p] = 0 /\ file'[p] = Len(mem) + 1))
      /\ \A n \in Names \ {p} : file'[n] = file[n]
  BY <1>1, <1>2, Opened
<1>4. /\ held \in [Rank -> [Allocation -> 0 .. Len(mem)]] /\ Len(mem) \in Nat
      /\ file \in [Names -> 0 .. Len(mem)]
  BY <1>1, Facts DEF Books, TypeOK
<1>5. \A q \in Names, r \in Rank, k \in Allocation : file[q] # 0 => held[r][k] # file[q]
  BY DEF Links, Linked
<1>6. \A r \in Rank, k \in Allocation : held[r][k] \in Nat /\ held[r][k] <= Len(mem)
  BY <1>4
<1>7. \A r \in Rank, k \in Allocation : held[r][k] # file'[p]
  BY <1>3, <1>4, <1>5, <1>6
<1>8. \A n \in Names : file[n] \in Nat /\ file[n] <= Len(mem)
  BY <1>4
<1>9. \A m, n \in Names : file[m] # 0 /\ file[m] = file[n] => m = n
  BY DEF Links
<1>10. ASSUME NEW m \in Names, NEW n \in Names, file'[m] # 0, file'[m] = file'[n] PROVE m = n
  <2>1. CASE file'[p] = file[p]
    <3>1. file'[m] = file[m] /\ file'[n] = file[n]
      BY <1>3, <2>1
    <3>. QED  BY <1>9, <1>10, <3>1
  <2>2. CASE file'[p] = Len(mem) + 1
    <3>1. \A i \in Names \ {p} : file'[i] # file'[p]
      BY <1>3, <1>4, <1>8, <2>2
    <3>2. CASE m = p \/ n = p
      BY <1>10, <3>1, <3>2
    <3>3. CASE m # p /\ n # p
      BY <1>3, <1>9, <1>10, <3>3
    <3>. QED  BY <3>2, <3>3
  <2>. QED  BY <1>3, <2>1, <2>2
<1>. QED  BY <1>2, <1>3, <1>5, <1>7, <1>10

\* Creating links one segment, which only the custodian has mapped.
LEMMA CreateLinks ==
    ASSUME Together, Links, Create
    PROVE  Links'
<1>. USE RankIs
<1>1. /\ pc[0] = "create" /\ CreatedSize \in 0 .. OFF_MAX /\ OpenFile(CreatedSize)
      /\ held' = [held EXCEPT ![0][call[0]] = file'[told[call[0]]]]
      /\ Goto(0, "published") /\ UNCHANGED <<call, told, answer>>
  BY DEF Create, Custodian, Hold
<1>2. Books /\ told[call[0]] \in Names /\ call[0] \in Allocation /\ \A r \in Rank : held[r][call[0]] = 0
  BY <1>1, CreatingIs
<1>3. PICK p \in Names : p = told[call[0]]
  BY <1>2
<1>4. /\ file'[p] # 0 /\ \A r \in Rank, k \in Allocation : held[r][k] # file'[p]
      /\ \A m, n \in Names : file'[m] # 0 /\ file'[m] = file'[n] => m = n
      /\ \A m \in Names \ {p} : file'[m] = file[m]
      /\ \A m \in Names, r \in Rank, k \in Allocation : file[m] # 0 => held[r][k] # file[m]
  BY <1>1, <1>3, NewIsApart
<1>5. held \in [Rank -> [Allocation -> 0 .. Len(mem)]] /\ pc \in [Rank -> Label]
  BY <1>2, Facts
<1>6. pc'[0] = "published"
  BY <1>1, <1>5 DEF Goto
<1>7. \A r \in Rank, k \in Allocation :
          held'[r][k] = IF r = 0 /\ k = call[0] THEN file'[p] ELSE held[r][k]
  BY <1>1, <1>2, <1>3, <1>5
<1>8. pc'[0] \in Linked /\ file'[told'[call'[0]]] = held'[0][call'[0]]
  BY <1>1, <1>2, <1>3, <1>6, <1>7 DEF Linked
<1>9. ASSUME NEW m \in Names, NEW r \in Rank, NEW k \in Allocation, file'[m] # 0, held'[r][k] = file'[m]
      PROVE  k = call'[0] /\ told'[k] = m /\ pc'[0] \in Linked
  <2>1. CASE r = 0 /\ k = call[0]
    <3>1. m = p
      BY <1>4, <1>7, <1>9, <2>1
    <3>. QED  BY <1>1, <1>3, <1>8, <2>1, <3>1
  <2>2. CASE ~(r = 0 /\ k = call[0])
    <3>1. held'[r][k] = held[r][k]
      BY <1>7, <2>2
    <3>2. m # p
      <4>1. held[r][k] # file'[p]
        BY <1>4
      <4>. QED  BY <1>9, <3>1, <4>1
    <3>3. file'[m] = file[m]
      BY <1>4, <3>2
    <3>4. held[r][k] # file[m]
      BY <1>4, <1>9, <3>3
    <3>. QED  BY <1>9, <3>1, <3>3, <3>4
  <2>. QED  BY <2>1, <2>2
<1>10. Apart'
  <2>. SUFFICES ASSUME NEW q \in Rank, NEW r \in Rank, NEW j \in Allocation, NEW k \in Allocation,
                       held'[q][j] # 0, held'[r][k] # 0
                PROVE  held'[q][j] = held'[r][k] <=> j = k
    BY DEF Apart
  <2>1. CASE j = call[0] /\ k = call[0]
    BY <1>2, <1>7, <2>1
  <2>2. CASE j = call[0] /\ k # call[0]
    BY <1>2, <1>4, <1>7, <2>2
  <2>3. CASE j # call[0] /\ k = call[0]
    BY <1>2, <1>4, <1>7, <2>3
  <2>4. CASE j # call[0] /\ k # call[0]
    BY <1>7, <2>4 DEF Links, Apart
  <2>. QED  BY <2>1, <2>2, <2>3, <2>4
<1>11. LinkedOnlyInside'
  <2>. SUFFICES ASSUME NEW m \in Names, file'[m] # 0
                PROVE  \E k \in Allocation :
                           /\ told'[k] = m
                           /\ \/ k = call'[0] /\ held'[0][k] = file'[m] /\ pc'[0] \in Linked
                              \/ LeftFile(k)'
    BY DEF LinkedOnlyInside, Linked, Custodian
  <2>1. CASE m = p
    BY <1>1, <1>2, <1>3, <1>7, <1>8, <2>1
  <2>2. CASE m # p
    <3>1. PICK k \in Allocation : told[k] = m /\ LeftFile(k)
      BY <1>1, <1>4, <2>2 DEF Links, LinkedOnlyInside, Custodian
    <3>. QED  BY <1>1, <3>1 DEF LeftFile
  <2>. QED  BY <2>1, <2>2
<1>. QED  BY <1>4, <1>8, <1>9, <1>10, <1>11 DEF Links

\* A creation that fails after open() leaves a file that nobody has mapped.
LEMMA FailureLinks ==
    ASSUME Together, Links, pc[0] = "create", NEW result \in {"ftruncate", "mmap"}, Fail(0, result),
           NEW size \in 0 .. OFF_MAX, OpenFile(size) \/ UNCHANGED <<file, mem>>,
           UNCHANGED <<call, told>>, held' = held
    PROVE  Links'
<1>. USE RankIs
<1>1. /\ Books /\ told[call[0]] \in Names /\ call[0] \in Allocation /\ pc \in [Rank -> Label]
      /\ Len(answer[0]) = call[0] - 1 /\ call[0] \in Nat
  BY CreatingIs, PlaceIs, Facts DEF Inside
<1>2. result \in Result /\ Answer(0, result) /\ Goto(0, "app")
  BY DEF Fail, Result
<1>3. pc'[0] = "app" /\ pc'[0] \notin Linked /\ pc[0] \notin Linked
  BY <1>1, <1>2 DEF Goto, Linked
<1>4. \A k \in Allocation : LeftFile(k) => LeftFile(k)'
  BY <1>1, <1>2, Histories
<1>5. CASE UNCHANGED <<file, mem>>
  BY <1>3, <1>4, <1>5, QuietKeeps
<1>6. CASE OpenFile(size)
  <2>1. PICK p \in Names : p = told[call[0]]
    BY <1>1
  <2>2. /\ file'[p] # 0 /\ \A r \in Rank, k \in Allocation : held[r][k] # file'[p]
        /\ \A m, n \in Names : file'[m] # 0 /\ file'[m] = file'[n] => m = n
        /\ \A m \in Names \ {p} : file'[m] = file[m]
        /\ \A m \in Names, r \in Rank, k \in Allocation : file[m] # 0 => held[r][k] # file[m]
    BY <1>6, <2>1, NewIsApart
  <2>3. \A m \in Names, r \in Rank, k \in Allocation : file'[m] # 0 => held'[r][k] # file'[m]
    BY <2>2
  <2>4. Apart'
    BY DEF Links, Apart
  <2>5. LeftFile(call[0])'
    <3>1. DOMAIN answer'[0] = 1 .. Len(answer[0]) + 1 /\ answer'[0][Len(answer[0]) + 1] = result
      BY <1>1, <1>2, Answered
    <3>. QED  BY <1>1, <3>1 DEF LeftFile, Custodian
  <2>6. LinkedOnlyInside'
    <3>. SUFFICES ASSUME NEW m \in Names, file'[m] # 0
                  PROVE  \E k \in Allocation : told'[k] = m /\ LeftFile(k)'
      BY DEF LinkedOnlyInside
    <3>1. CASE m = p
      BY <1>1, <2>1, <2>5, <3>1
    <3>2. CASE m # p
      <4>1. PICK k \in Allocation : told[k] = m /\ LeftFile(k)
        BY <1>3, <2>2, <3>2 DEF Links, LinkedOnlyInside, Custodian, Linked
      <4>. QED  BY <1>4, <4>1
    <3>. QED  BY <3>1, <3>2
  <2>. QED  BY <1>3, <2>2, <2>3, <2>4, <2>6 DEF Links
<1>. QED  BY <1>5, <1>6

\* The custodian is at the place that goes with "collect".
LEMMA CollectingIs ==
    ASSUME Books, Place(0) = "collect"
    PROVE  pc[0] = "collect" /\ Turn(0) = call[0]
<1>1. ~Returned(0)
  BY ReturnedIs, RankIs DEF Results
<1>. QED  BY <1>1 DEF Place, Turn

\* What a rank attaches to is the segment that the custodian has mapped.
LEMMA AttachLinks ==
    ASSUME Together, Links, NEW r \in Rank, Attach(r)
    PROVE  /\ Links' /\ call[r] = call[0] /\ r # 0 /\ pc[0] = "collect"
           /\ file[told[call[r]]] = held[0][call[0]] /\ held[0][call[0]] # 0
<1>. USE RankIs
<1>1. /\ Books /\ r # 0 /\ Place(0) = "collect" /\ told[call[r]] \in Names
      /\ call[r] \in Allocation /\ call[r] = Turn(0) /\ pc[r] = "attach"
  BY AttachingIs DEF Attach
<1>2. pc[0] = "collect" /\ call[r] = call[0]
  BY <1>1, CollectingIs
<1>3. PICK f : f = file[told[call[r]]]
  OBVIOUS
<1>4. f # 0 /\ f = held[0][call[0]]
  BY <1>2, <1>3 DEF Links, Linked, Attach
<1>5. \A q \in Rank, k \in Allocation :
          held'[q][k] = IF q = r /\ k = call[0] THEN f ELSE held[q][k]
  BY <1>2, <1>3, AttachKeeps
<1>6. UNCHANGED <<call, told, file, answer>> /\ pc'[0] = pc[0]
  BY <1>1, Facts DEF Attach, Goto
<1>7. \A p \in Names : file[p] = f => p = told[call[0]]
  BY <1>1, <1>2, <1>3, <1>4 DEF Links
<1>8. Apart'
  <2>. SUFFICES ASSUME NEW q \in Rank, NEW s \in Rank, NEW j \in Allocation, NEW k \in Allocation,
                       held'[q][j] # 0, held'[s][k] # 0
                PROVE  held'[q][j] = held'[s][k] <=> j = k
    BY DEF Apart
  <2>1. \E n \in Rank : held'[q][j] = held[n][j]
    BY <1>4, <1>5
  <2>2. \E n \in Rank : held'[s][k] = held[n][k]
    BY <1>4, <1>5
  <2>. QED  BY <2>1, <2>2 DEF Links, Apart
<1>9. ASSUME NEW p \in Names, NEW q \in Rank, NEW k \in Allocation, file[p] # 0, held'[q][k] = file[p]
      PROVE  k = call[0] /\ told[k] = p /\ pc[0] \in Linked
  <2>1. \E n \in Rank : held'[q][k] = held[n][k]
    BY <1>4, <1>5
  <2>. QED  BY <1>9, <2>1 DEF Links
<1>10. \A k \in Allocation : held'[0][k] = held[0][k]
  BY <1>1, <1>5
<1>11. LinkedOnlyInside'
  BY <1>6, <1>10 DEF Links, LinkedOnlyInside, LeftFile, Custodian
<1>12. Links'
  BY <1>1, <1>2, <1>6, <1>8, <1>9, <1>10, <1>11 DEF Links
<1>. QED  BY <1>1, <1>2, <1>3, <1>4, <1>12

\* Unlinking takes the path of the current allocation and no other.
LEMMA UnlinkLinks ==
    ASSUME Together, Links, Unlink
    PROVE  Links'
<1>. USE RankIs
<1>1. /\ held' = held /\ told[call[0]] \in Names
      /\ \A p \in Names : file'[p] = IF p = told[call[0]] THEN 0 ELSE file[p]
  BY UnlinkKeeps
<1>2. Books /\ UNCHANGED <<call, told>> /\ Goto(0, "use") /\ Answer(0, "SUCCESS") /\ "SUCCESS" \in Result
  BY DEF Together, Unlink, Succeed, Custodian, Result
<1>3. pc'[0] = "use" /\ pc'[0] \notin Linked
  BY <1>2, Facts DEF Goto, Linked
<1>4. \A k \in Allocation : LeftFile(k) => LeftFile(k)'
  BY <1>2, Histories
<1>5. \A p, q \in Names : file'[p] # 0 /\ file'[p] = file'[q] => p = q
  BY <1>1 DEF Links
<1>6. \A p \in Names, r \in Rank, k \in Allocation : file'[p] # 0 => held'[r][k] # file'[p]
  BY <1>1 DEF Links
<1>7. Apart'
  BY <1>1 DEF Links, Apart
<1>8. LinkedOnlyInside'
  <2>. SUFFICES ASSUME NEW p \in Names, file'[p] # 0
                PROVE  \E k \in Allocation : told'[k] = p /\ LeftFile(k)'
    BY DEF LinkedOnlyInside
  <2>1. p # told[call[0]] /\ file[p] # 0
    BY <1>1
  <2>2. PICK k \in Allocation : told[k] = p /\ LeftFile(k)
    BY <2>1 DEF Links, LinkedOnlyInside, Custodian
  <2>. QED  BY <1>2, <1>4, <2>2
<1>. QED  BY <1>3, <1>5, <1>6, <1>7, <1>8 DEF Links

\* The barriers take the custodian through where its segment is linked.
LEMMA ArriveLinks ==
    ASSUME Together, Links, NEW r \in Rank, Arrive(r)
    PROVE  Links'
<1>. USE RankIs
<1>1. UNCHANGED <<call, told, file, held, answer>>
  BY DEF Arrive
<1>2. \A k \in Allocation : LeftFile(k) => LeftFile(k)'
  BY <1>1 DEF LeftFile
<1>3. pc'[0] \in Linked <=> pc[0] \in Linked
  <2>1. CASE waiting \cup {r} # Rank
    BY <2>1 DEF Arrive
  <2>2. CASE waiting \cup {r} = Rank
    <3>1. pc[0] \in {"published", "collect", "sync"} /\ pc'[0] = Beyond[pc[0]]
      BY <2>2, ReleaseIs
    <3>. QED  BY <3>1, BeyondIs DEF Linked
  <2>. QED  BY <2>1, <2>2
<1>. QED  BY <1>1, <1>2, <1>3, QuietKeeps

\* A custodian that begins an allocation has nothing linked for the last one.
LEMMA AllocateLinks ==
    ASSUME Together, Links, NEW r \in Rank, call[r] < Len(Sizes), NEW size \in Sizes[call[r] + 1],
           Allocate(r, size)
    PROVE  Links'
<1>. USE RankIs
<1>1. /\ call'[r] = call[r] + 1 /\ pc'[r] = "gather" /\ pc[r] = "app"
      /\ \A q \in Rank \ {r} : call'[q] = call[q] /\ pc'[q] = pc[q]
      /\ UNCHANGED <<told, file, held, answer>>
  BY AllocateBooks
<1>2. \A k \in Allocation : LeftFile(k) => LeftFile(k)'
  BY <1>1 DEF LeftFile
<1>3. (pc'[0] \in Linked <=> pc[0] \in Linked) /\ (pc[0] \in Linked => call'[0] = call[0])
  BY <1>1 DEF Linked
<1>. QED  BY <1>1, <1>2, <1>3, QuietKeeps

\* A custodian frees nothing while its segment is linked.
LEMMA FreeLinks ==
    ASSUME Together, Links, NEW r \in Rank, NEW j \in Allocation, Free(r, j)
    PROVE  Links'
<1>. USE RankIs
<1>1. \A q \in Rank, k \in Allocation : held'[q][k] = IF q = r /\ k = j THEN 0 ELSE held[q][k]
  BY FreeKeeps
<1>2. UNCHANGED <<pc, call, told, file, answer>> /\ pc[r] = "app"
  BY DEF Free
<1>3. \A k \in Allocation : LeftFile(k) => LeftFile(k)'
  BY <1>2 DEF LeftFile
<1>4. pc[0] \in Linked => r # 0
  BY <1>2 DEF Linked
<1>5. r # 0 => held'[0] = held[0]
  BY Facts DEF Free, Together
<1>. QED  BY <1>1, <1>2, <1>3, <1>4, <1>5, QuietKeeps

\* At first nothing is linked.
LEMMA LinksInit == Init => Links
<1>. SUFFICES ASSUME Init PROVE Links
  OBVIOUS
<1>. QED  BY RankIs DEF Init, Links, Linked, Apart, LinkedOnlyInside

\* Every step keeps the files in order.
LEMMA LinksStep == Together /\ Links /\ [Next]_vars => Links'
<1>. SUFFICES ASSUME Together, Links, [Next]_vars PROVE Links'
  OBVIOUS
<1>. USE RankIs
<1>1. CASE UNCHANGED vars
  BY <1>1, QuietKeeps DEF vars, LeftFile
<1>2. ASSUME NEW r \in Rank, LibraryStep(r) PROVE Links'
  <2>1. CASE Gather(r)
    BY <2>1, MoveIsQuiet DEF Gather, Linked
  <2>2. CASE HearPath(r)
    <3>1. r # 0 /\ held' = held
      BY <2>2, HearPathKeeps
    <3>2. CASE told[call[r]] = NoPath
      <4>1. Goto(r, "app") /\ Answer(r, "NO_PATH") /\ "NO_PATH" \in Result
            /\ UNCHANGED <<call, told, file>>
        BY <2>2, <3>2 DEF HearPath, Fail, Result
      <4>. QED  BY <3>1, <4>1, MoveIsQuiet
    <3>3. CASE told[call[r]] # NoPath
      BY <2>2, <3>1, <3>3, MoveIsQuiet DEF HearPath
    <3>. QED  BY <3>2, <3>3
  <2>3. CASE Arrive(r)
    BY <2>3, ArriveLinks
  <2>4. CASE Attach(r)
    BY <2>4, AttachLinks
  <2>5. CASE AttachFailure(r)
    <3>1. r # 0 /\ held' = held
      BY <2>5, AttachFailureKeeps, AttachingIs DEF AttachFailure
    <3>2. Goto(r, "app") /\ Answer(r, "attach") /\ "attach" \in Result /\ UNCHANGED <<call, told, file>>
      BY <2>5 DEF AttachFailure, Fail, Result
    <3>. QED  BY <3>1, <3>2, MoveIsQuiet
  <2>6. CASE Finish(r)
    <3>1. Goto(r, "use") /\ Answer(r, "SUCCESS") /\ "SUCCESS" \in Result /\ pc[r] = "done"
          /\ UNCHANGED <<call, told, file, held>>
      BY <2>6 DEF Finish, Succeed, Result
    <3>. QED  BY <3>1, MoveIsQuiet DEF Linked
  <2>7. CASE CustodianStep
    <3>1. ASSUME NEW p \in Names, TellPath(p) PROVE Links'
      <4>1. /\ pc[0] = "path" /\ told' = [told EXCEPT ![call[0]] = p]
            /\ file' = file /\ held' = held /\ call' = call /\ answer' = answer
            /\ Goto(0, "create")
        BY <3>1 DEF TellPath, Custodian
      <4>2. pc'[0] \notin Linked
        BY <4>1, Facts DEF Together, Goto, Linked
      <4>. QED  BY <4>1, <4>2, TellingIsQuiet
    <3>2. CASE TellNoPath
      <4>1. /\ pc[0] = "path" /\ told' = [told EXCEPT ![call[0]] = NoPath] /\ file' = file
            /\ call' = call /\ Goto(0, "app") /\ Answer(0, "NO_PATH") /\ "NO_PATH" \in Result
        BY <3>2 DEF TellNoPath, Fail, Custodian, Result
      <4>2. pc'[0] \notin Linked /\ held' = held
        BY <3>2, <4>1, Facts, TellNoPathKeeps DEF Together, Goto, Linked
      <4>. QED  BY <4>1, <4>2, TellingIsQuiet
    <3>3. CASE Create
      BY <3>3, CreateLinks
    <3>4. CASE OpenFailure
      <4>1. held' = held /\ pc[0] = "create"
        BY <3>4, OpenFailureKeeps DEF OpenFailure, Custodian
      <4>2. Goto(0, "app") /\ Answer(0, "open") /\ "open" \in Result /\ UNCHANGED <<call, told, file>>
        BY <3>4 DEF OpenFailure, Fail, Custodian, Result
      <4>. QED  BY <4>1, <4>2, MoveIsQuiet DEF Linked
    <3>5. CASE SizeFailure
      <4>1. /\ pc[0] = "create" /\ Fail(0, "ftruncate") /\ UNCHANGED <<call, told>> /\ held' = held
            /\ OpenFile(0) \/ UNCHANGED <<file, mem>>
        BY <3>5, SizeFailureKeeps DEF SizeFailure, Custodian
      <4>2. 0 \in 0 .. OFF_MAX
        BY OffMaxIs
      <4>. QED  BY <4>1, <4>2, FailureLinks
    <3>6. CASE MapFailure
      <4>1. /\ pc[0] = "create" /\ Fail(0, "mmap") /\ UNCHANGED <<call, told>> /\ held' = held
            /\ OpenFile(CreatedSize) /\ CreatedSize \in 0 .. OFF_MAX
        BY <3>6, MapFailureKeeps DEF MapFailure, Custodian
      <4>. QED  BY <4>1, FailureLinks
    <3>7. CASE Unlink
      BY <3>7, UnlinkLinks
    <3>. QED  BY <2>7, <3>1, <3>2, <3>3, <3>4, <3>5, <3>6, <3>7 DEF CustodianStep
  <2>. QED  BY <1>2, <2>1, <2>2, <2>3, <2>4, <2>5, <2>6, <2>7 DEF LibraryStep
<1>3. ASSUME NEW r \in Rank, ApplicationStep(r) PROVE Links'
  <2>1. CASE Allocates(r)
    BY <2>1, AllocateLinks DEF Allocates
  <2>2. CASE Write(r)
    BY <2>2, MoveIsQuiet DEF Write, Linked
  <2>3. CASE Overstep(r)
    BY <2>3, MoveIsQuiet DEF Overstep, Linked
  <2>4. CASE Read(r)
    BY <2>4, MoveIsQuiet DEF Read, Linked
  <2>. QED  BY <1>3, <2>1, <2>2, <2>3, <2>4 DEF ApplicationStep
<1>4. ASSUME NEW r \in Rank, NEW k \in Allocation, Free(r, k) PROVE Links'
  BY <1>4, FreeLinks
<1>. QED  BY <1>1, <1>2, <1>3, <1>4 DEF Next

\* The files are in order, always.
LEMMA LinksAlways == Spec => []Links
<1>1. Together /\ Links /\ [Next]_vars => Links'
  BY LinksStep
<1>. QED  BY <1>1, InOneTurn, LinksInit, PTL DEF Spec

\* Whatever the paths, and whether or not they are told twice, no two
\* allocations share memory and all the ranks of one share a segment.
THEOREM NeverShared == Spec => []Apart
<1>1. Links => Apart
  BY DEF Links
<1>. QED  BY <1>1, LinksAlways, PTL

\* A file is linked while its allocation is under way, or because the custodian
\* failed once it had opened it, and never otherwise.
THEOREM LinkedWhileInside == Spec => []LinkedOnlyInside
<1>1. Links => LinkedOnlyInside
  BY DEF Links
<1>. QED  BY <1>1, LinksAlways, PTL

(***************************************************************************)
(* The refinement of Publish                                               *)
(***************************************************************************)
Others == Rank \ {0}

\* The others that have, or have had, the segment.
HasMapped(r, k) == held[r][k] # 0 \/ Allocated(r, k)

SameStage(k) == Stage(k)' = Stage(k)
SameMapped(k) == \A r \in Others : HasMapped(r, k)' <=> HasMapped(r, k)

\* A step changes nothing that Publish tells of, or one segment's stage, or
\* has one more reader map a complete segment.
LEMMA PublishKinds ==
    /\ (\A k \in Allocation : SameStage(k) /\ SameMapped(k)) => UNCHANGED Publication!vars
    /\ \A s \in Allocation :
        /\ \A k \in Allocation : SameMapped(k)
        /\ \A k \in Allocation \ {s} : SameStage(k)
        => /\ Stage(s) = "none" /\ Stage(s)' = "made" => Publication!Next
           /\ Stage(s) = "none" /\ Stage(s)' = "complete" => Publication!Next
           /\ /\ Stage(s) = "complete" /\ Stage(s)' = "withdrawn"
              /\ \A r \in Others : HasMapped(r, s)
              => Publication!Next
    /\ \A s \in Allocation, r \in Others :
        /\ \A k \in Allocation : SameStage(k)
        /\ \A k \in Allocation \ {s} : SameMapped(k)
        /\ \A q \in Others \ {r} : HasMapped(q, s)' <=> HasMapped(q, s)
        /\ Stage(s) = "complete" /\ HasMapped(r, s)'
        => Publication!Next
<1>. DEFINE St == [k \in Allocation |-> Stage(k)]
            Ma == [k \in Allocation |-> {r \in Rank \ {Custodian} : held[r][k] # 0 \/ Allocated(r, k)}]
            Re == [k \in Allocation |-> Rank \ {Custodian}]
<1>0. /\ Ma = [k \in Allocation |-> {r \in Others : HasMapped(r, k)}]
      /\ Ma' = [k \in Allocation |-> {r \in Others : HasMapped(r, k)'}]
      /\ Re = [k \in Allocation |-> Others]
  BY DEF HasMapped, Others, Custodian
<1>1. ASSUME \A k \in Allocation : SameStage(k) PROVE St' = St
  BY <1>1 DEF SameStage
<1>2. ASSUME \A k \in Allocation : SameMapped(k) PROVE Ma' = Ma
  <2>. HIDE DEF Ma
  <2>. QED  BY <1>0, <1>2 DEF SameMapped
<1>3. Re' = Re
  OBVIOUS
<1>4. (\A k \in Allocation : SameStage(k) /\ SameMapped(k)) => UNCHANGED Publication!vars
  BY <1>1, <1>2, <1>3 DEF Publication!vars
<1>5. ASSUME NEW s \in Allocation,
             \A k \in Allocation : SameMapped(k),
             \A k \in Allocation \ {s} : SameStage(k)
      PROVE  /\ Stage(s) = "none" /\ Stage(s)' = "made" => Publication!Next
             /\ Stage(s) = "none" /\ Stage(s)' = "complete" => Publication!Next
             /\ /\ Stage(s) = "complete" /\ Stage(s)' = "withdrawn"
                /\ \A r \in Others : HasMapped(r, s)
                => Publication!Next
  <2>1. ASSUME NEW to, Stage(s)' = to PROVE St' = [St EXCEPT ![s] = to]
    BY <1>5, <2>1 DEF SameStage
  <2>2. Ma' = Ma /\ Re' = Re
    BY <1>2, <1>3, <1>5
  <2>3. \A from, to : Stage(s) \in from /\ Stage(s)' = to => Publication!Move(s, from, to)
    BY <2>1, <2>2 DEF Publication!Move
  <2>4. Stage(s) = "none" /\ Stage(s)' = "made" => Publication!Next
    BY <2>3 DEF Publication!Next, Publication!Make
  <2>5. Stage(s) = "none" /\ Stage(s)' = "complete" => Publication!Next
    BY <2>3 DEF Publication!Next, Publication!Complete
  <2>6. /\ Stage(s) = "complete" /\ Stage(s)' = "withdrawn"
        /\ \A r \in Others : HasMapped(r, s)
        => Publication!Next
    <3>1. (\A r \in Others : HasMapped(r, s)) => Ma[s] = Re[s]
      BY DEF HasMapped, Others, Custodian
    <3>. QED  BY <2>3, <3>1 DEF Publication!Next, Publication!Withdraw
  <2>. QED  BY <2>4, <2>5, <2>6
<1>6. ASSUME NEW s \in Allocation, NEW r \in Others,
             \A k \in Allocation : SameStage(k),
             \A k \in Allocation \ {s} : SameMapped(k),
             \A q \in Others \ {r} : HasMapped(q, s)' <=> HasMapped(q, s),
             Stage(s) = "complete", HasMapped(r, s)'
      PROVE  Publication!Next
  <2>1. St' = St /\ Re' = Re
    BY <1>1, <1>3, <1>6
  <2>2. Ma' = [Ma EXCEPT ![s] = @ \cup {r}]
    <3>. HIDE DEF Ma
    <3>1. \A k \in Allocation \ {s} : Ma'[k] = Ma[k]
      BY <1>0, <1>6 DEF SameMapped
    <3>2. Ma'[s] = Ma[s] \cup {r}
      BY <1>0, <1>6
    <3>. QED  BY <1>0, <3>1, <3>2
  <2>3. r \in Re[s]
    BY <1>0
  <2>4. Publication!Map(s, r)
    BY <1>6, <2>1, <2>2 DEF Publication!Map
  <2>. QED  BY <2>3, <2>4 DEF Publication!Next
<1>. QED  BY <1>4, <1>5, <1>6

\* What an answer adds to the history.
LEMMA AnswerAdds ==
    ASSUME Books, NEW r \in Rank, NEW result \in Result, Answer(r, result),
           NEW c, c = Len(answer[r]) + 1
    PROVE  /\ \A q \in Rank, k \in Allocation :
                  Allocated(q, k)' <=> Allocated(q, k) \/ (q = r /\ k = c /\ result = "SUCCESS")
           /\ \A k \in Allocation :
                  LeftFile(k)' <=> LeftFile(k) \/ (r = 0 /\ k = c /\ result \in {"ftruncate", "mmap"})
           /\ ~Allocated(r, c) /\ (r = 0 => ~LeftFile(c))
<1>. USE RankIs
<1>1. /\ \A q \in Rank \ {r} : answer'[q] = answer[q]
      /\ DOMAIN answer'[r] = 1 .. Len(answer[r]) + 1 /\ answer'[r][c] = result
      /\ \A k \in 1 .. Len(answer[r]) : answer'[r][k] = answer[r][k]
      /\ DOMAIN answer[r] = 1 .. Len(answer[r]) /\ Len(answer[r]) \in Nat
  BY Answered, Facts
<1>2. c \notin DOMAIN answer[r] /\ DOMAIN answer'[r] = DOMAIN answer[r] \cup {c}
  BY <1>1
<1>3. ASSUME NEW k \in Allocation
      PROVE  /\ k = c => answer'[r][k] = result /\ k \in DOMAIN answer'[r] /\ k \notin DOMAIN answer[r]
             /\ k # c => (k \in DOMAIN answer'[r] <=> k \in DOMAIN answer[r])
                         /\ (k \in DOMAIN answer[r] => answer'[r][k] = answer[r][k])
  BY <1>1, <1>2
<1>4. ASSUME NEW q \in Rank, NEW k \in Allocation
      PROVE  Allocated(q, k)' <=> Allocated(q, k) \/ (q = r /\ k = c /\ result = "SUCCESS")
  <2>1. CASE q = r
    BY <1>3, <2>1 DEF Allocated
  <2>2. CASE q # r
    BY <1>1, <2>2 DEF Allocated
  <2>. QED  BY <2>1, <2>2
<1>5. ASSUME NEW k \in Allocation
      PROVE  LeftFile(k)' <=> LeftFile(k) \/ (r = 0 /\ k = c /\ result \in {"ftruncate", "mmap"})
  <2>1. CASE r = 0
    BY <1>3, <2>1 DEF LeftFile, Custodian
  <2>2. CASE r # 0
    BY <1>1, <2>2 DEF LeftFile, Custodian
  <2>. QED  BY <2>1, <2>2
<1>. QED  BY <1>2, <1>4, <1>5 DEF Allocated, LeftFile, Custodian

\* What is mapped and what is answered is all that Publish tells of.
LEMMA Silent ==
    ASSUME held' = held, \A r \in Rank, k \in Allocation : Allocated(r, k)' <=> Allocated(r, k),
           \A k \in Allocation : LeftFile(k)' <=> LeftFile(k)
    PROVE  UNCHANGED Publication!vars
<1>. USE RankIs
<1>1. ASSUME NEW k \in Allocation PROVE SameStage(k)
  BY DEF SameStage, Stage, Custodian
<1>2. ASSUME NEW k \in Allocation PROVE SameMapped(k)
  BY DEF SameMapped, HasMapped, Others
<1>. QED  BY <1>1, <1>2, PublishKinds

\* Each step of an allocation is a step of the abstract publication, or leaves
\* it unchanged.
LEMMA PublishStep ==
    ASSUME Together, Links, [Next]_vars
    PROVE  Publication!Next \/ UNCHANGED Publication!vars
<1>. USE RankIs
<1>0. Books /\ Others \subseteq Rank
  BY DEF Together, Others
<1>1. ASSUME held' = held, answer' = answer PROVE UNCHANGED Publication!vars
  BY <1>1, Silent DEF Allocated, LeftFile
<1>2. ASSUME held' = held, NEW r \in Rank, NEW result \in {"NO_PATH", "open", "attach"}, Answer(r, result)
      PROVE  UNCHANGED Publication!vars
  <2>1. result \in Result /\ result \notin {"SUCCESS", "ftruncate", "mmap"}
    BY DEF Result
  <2>2. PICK c : c = Len(answer[r]) + 1
    OBVIOUS
  <2>. QED  BY <1>0, <1>2, <2>1, <2>2, AnswerAdds, Silent
<1>3. CASE UNCHANGED vars
  BY <1>1, <1>3 DEF vars
<1>4. ASSUME NEW r \in Rank, Gather(r) \/ Arrive(r) PROVE UNCHANGED Publication!vars
  BY <1>1, <1>4 DEF Gather, Arrive
<1>5. ASSUME NEW r \in Rank, HearPath(r) PROVE UNCHANGED Publication!vars
  <2>1. CASE told[call[r]] = NoPath
    <3>1. held' = held /\ Answer(r, "NO_PATH")
      BY <1>5, <2>1, HearPathKeeps DEF HearPath, Fail
    <3>. QED  BY <1>2, <3>1
  <2>2. CASE told[call[r]] # NoPath
    BY <1>1, <1>5, <2>2 DEF HearPath
  <2>. QED  BY <2>1, <2>2
<1>6. ASSUME NEW r \in Rank, AttachFailure(r) PROVE UNCHANGED Publication!vars
  <2>1. held' = held /\ Answer(r, "attach")
    BY <1>6, AttachFailureKeeps DEF AttachFailure, Fail
  <2>. QED  BY <1>2, <2>1
<1>7. ASSUME NEW r \in Rank, Finish(r) PROVE UNCHANGED Publication!vars
  <2>1. /\ pc[r] = "done" /\ Answer(r, "SUCCESS") /\ "SUCCESS" \in Result /\ held' = held /\ r # 0
    BY <1>0, <1>7, Facts DEF Finish, Succeed, Result, Placed, OtherPlaces
  <2>2. PICK c : c = Len(answer[r]) + 1
    OBVIOUS
  <2>3. c = call[r] /\ held[r][c] # 0
    <3>1. Len(answer[r]) = call[r] - 1 /\ call[r] \in Nat
      BY <1>0, <2>1, PlaceIs, Facts DEF Inside
    <3>2. Holds(r)
      BY <1>0, Facts
    <3>. QED  BY <2>1, <2>2, <3>1, <3>2 DEF Holds, Mapping
  <2>4. /\ \A q \in Rank, k \in Allocation :
               Allocated(q, k)' <=> Allocated(q, k) \/ (q = r /\ k = c)
        /\ \A k \in Allocation : LeftFile(k)' <=> LeftFile(k)
    BY <1>0, <2>1, <2>2, AnswerAdds
  <2>5. ASSUME NEW k \in Allocation PROVE SameStage(k)
    BY <2>1, <2>4 DEF SameStage, Stage, Custodian
  <2>6. ASSUME NEW k \in Allocation PROVE SameMapped(k)
    BY <1>0, <2>1, <2>3, <2>4 DEF SameMapped, HasMapped
  <2>. QED  BY <2>5, <2>6, PublishKinds
<1>8. ASSUME NEW p \in Names, TellPath(p) PROVE UNCHANGED Publication!vars
  BY <1>1, <1>8 DEF TellPath
<1>9. ASSUME TellNoPath PROVE UNCHANGED Publication!vars
  <2>1. held' = held /\ Answer(0, "NO_PATH")
    BY <1>9, TellNoPathKeeps DEF TellNoPath, Fail, Custodian
  <2>. QED  BY <1>2, <2>1
<1>10. ASSUME OpenFailure PROVE UNCHANGED Publication!vars
  <2>1. held' = held /\ Answer(0, "open")
    BY <1>10, OpenFailureKeeps DEF OpenFailure, Fail, Custodian
  <2>. QED  BY <1>2, <2>1
<1>11. ASSUME pc[0] \in Inside
       PROVE  /\ call[0] \in Allocation /\ call[0] = Len(answer[0]) + 1
              /\ ~Allocated(0, call[0]) /\ ~LeftFile(call[0])
  <2>1. call[0] \in Allocation /\ Len(answer[0]) = call[0] - 1 /\ DOMAIN answer[0] = 1 .. Len(answer[0])
        /\ call[0] \in Nat
    BY <1>0, <1>11, PlaceIs, Facts
  <2>. QED  BY <2>1 DEF Allocated, LeftFile, Custodian
<1>12. ASSUME Create PROVE Publication!Next
  <2>1. /\ pc[0] = "create" /\ CreatedSize \in 0 .. OFF_MAX /\ OpenFile(CreatedSize) /\ answer' = answer
        /\ held' = [held EXCEPT ![0][call[0]] = file'[told[call[0]]]]
    BY <1>12 DEF Create, Custodian, Hold
  <2>2. /\ held[0][call[0]] = 0 /\ file'[told[call[0]]] # 0
        /\ held \in [Rank -> [Allocation -> 0 .. Len(mem)]]
    BY <1>0, <2>1, CreatingIs, NewIsApart, Facts
  <2>3. PICK s \in Allocation : s = call[0] /\ ~Allocated(0, s) /\ ~LeftFile(s)
    BY <1>11, <2>1 DEF Inside
  <2>4. /\ held'[0][s] # 0 /\ held[0][s] = 0
        /\ \A q \in Rank, k \in Allocation : q # 0 \/ k # s => held'[q][k] = held[q][k]
    BY <2>1, <2>2, <2>3
  <2>5. /\ \A q \in Rank, k \in Allocation : Allocated(q, k)' <=> Allocated(q, k)
        /\ \A k \in Allocation : LeftFile(k)' <=> LeftFile(k)
    BY <2>1 DEF Allocated, LeftFile
  <2>6. \A k \in Allocation \ {s} : SameStage(k)
    BY <2>4, <2>5 DEF SameStage, Stage, Custodian
  <2>7. \A k \in Allocation : SameMapped(k)
    BY <2>4, <2>5 DEF SameMapped, HasMapped, Others
  <2>8. Stage(s) = "none" /\ Stage(s)' = "complete"
    BY <2>3, <2>4, <2>5 DEF Stage, Custodian
  <2>. QED  BY <2>6, <2>7, <2>8, PublishKinds
<1>13. ASSUME NEW result \in {"ftruncate", "mmap"}, Answer(0, result), held' = held, pc[0] = "create"
       PROVE  Publication!Next
  <2>1. result \in Result /\ result # "SUCCESS"
    BY DEF Result
  <2>2. PICK s \in Allocation : s = call[0] /\ s = Len(answer[0]) + 1 /\ ~Allocated(0, s) /\ ~LeftFile(s)
    BY <1>11, <1>13 DEF Inside
  <2>3. held[0][s] = 0
    BY <1>13, <2>2, CreatingIs
  <2>4. /\ \A q \in Rank, k \in Allocation : Allocated(q, k)' <=> Allocated(q, k)
        /\ \A k \in Allocation : LeftFile(k)' <=> LeftFile(k) \/ k = s
    BY <1>0, <1>13, <2>1, <2>2, AnswerAdds
  <2>5. \A k \in Allocation \ {s} : SameStage(k)
    BY <1>13, <2>4 DEF SameStage, Stage, Custodian
  <2>6. \A k \in Allocation : SameMapped(k)
    BY <1>13, <2>4 DEF SameMapped, HasMapped, Others
  <2>7. Stage(s) = "none" /\ Stage(s)' = "made"
    BY <1>13, <2>2, <2>3, <2>4 DEF Stage, Custodian
  <2>. QED  BY <2>5, <2>6, <2>7, PublishKinds
<1>14. ASSUME SizeFailure PROVE Publication!Next
  BY <1>13, <1>14, SizeFailureKeeps DEF SizeFailure, Fail, Custodian
<1>15. ASSUME MapFailure PROVE Publication!Next
  BY <1>13, <1>15, MapFailureKeeps DEF MapFailure, Fail, Custodian
<1>16. ASSUME Unlink PROVE Publication!Next
  <2>1. pc[0] = "unlink" /\ Answer(0, "SUCCESS") /\ "SUCCESS" \in Result /\ held' = held
    BY <1>16 DEF Unlink, Succeed, Custodian, Result
  <2>2. PICK s \in Allocation : s = call[0] /\ s = Len(answer[0]) + 1 /\ ~Allocated(0, s) /\ ~LeftFile(s)
    BY <1>11, <2>1 DEF Inside
  <2>3. held[0][s] # 0
    BY <1>0, <2>1, <2>2, Facts DEF Holds, Mapping
  <2>4. /\ \A q \in Rank, k \in Allocation : Allocated(q, k)' <=> Allocated(q, k) \/ (q = 0 /\ k = s)
        /\ \A k \in Allocation : LeftFile(k)' <=> LeftFile(k)
    BY <1>0, <2>1, <2>2, AnswerAdds
  <2>5. ASSUME NEW r \in Others PROVE HasMapped(r, s)
    <3>1. Turn(r) = Turn(0) /\ Place(r) \in {"done", "use", "sync", "gone"} /\ Turn(0) = s
      <4>1. Place(0) = "unlink" /\ Turn(0) = s
        BY <1>0, <2>1, <2>2, PlaceIs DEF Inside
      <4>. QED  BY <4>1 DEF Together, Lockstep, Along, Before, Creating, Others
    <3>2. ~Returned(r)
      BY <1>0, <3>1, ReturnedIs DEF Results
    <3>3. pc[r] \in {"done", "use", "sync", "gone"} /\ call[r] = s
      BY <3>1, <3>2 DEF Place, Turn
    <3>4. Holds(r)
      BY <1>0, Facts
    <3>. QED  BY <3>3, <3>4 DEF Holds, Mapping, Using, HasMapped
  <2>6. \A k \in Allocation \ {s} : SameStage(k)
    BY <2>1, <2>4 DEF SameStage, Stage, Custodian
  <2>7. \A k \in Allocation : SameMapped(k)
    BY <2>1, <2>4 DEF SameMapped, HasMapped, Others
  <2>8. Stage(s) = "complete" /\ Stage(s)' = "withdrawn"
    BY <2>2, <2>3, <2>4 DEF Stage, Custodian
  <2>. QED  BY <2>5, <2>6, <2>7, <2>8, PublishKinds
<1>17. ASSUME NEW r \in Rank, Attach(r) PROVE Publication!Next
  <2>1. /\ call[r] = call[0] /\ r # 0 /\ pc[0] = "collect" /\ answer' = answer
        /\ file[told[call[r]]] = held[0][call[0]] /\ held[0][call[0]] # 0
    BY <1>17, AttachLinks DEF Attach
  <2>2. PICK s \in Allocation : s = call[0] /\ ~Allocated(0, s) /\ ~LeftFile(s)
    BY <1>11, <2>1 DEF Inside
  <2>3. /\ held'[r][s] # 0 /\ held[0][s] # 0
        /\ \A q \in Rank, k \in Allocation : q # r \/ k # s => held'[q][k] = held[q][k]
    BY <1>17, <2>1, <2>2, AttachKeeps
  <2>4. /\ \A q \in Rank, k \in Allocation : Allocated(q, k)' <=> Allocated(q, k)
        /\ \A k \in Allocation : LeftFile(k)' <=> LeftFile(k)
    BY <2>1 DEF Allocated, LeftFile
  <2>5. \A k \in Allocation : SameStage(k)
    BY <2>1, <2>3, <2>4 DEF SameStage, Stage, Custodian
  <2>6. Stage(s) = "complete"
    BY <2>2, <2>3 DEF Stage, Custodian
  <2>7. /\ \A k \in Allocation \ {s} : SameMapped(k)
        /\ \A q \in Others \ {r} : HasMapped(q, s)' <=> HasMapped(q, s)
        /\ HasMapped(r, s)' /\ r \in Others
    BY <2>1, <2>3, <2>4 DEF SameMapped, HasMapped, Others
  <2>. QED  BY <2>5, <2>6, <2>7, PublishKinds
<1>18. ASSUME NEW r \in Rank, ApplicationStep(r) PROVE UNCHANGED Publication!vars
  BY <1>1, <1>18 DEF ApplicationStep, Allocates, Allocate, Write, Overstep, Read
<1>19. ASSUME NEW r \in Rank, NEW j \in Allocation, Free(r, j) PROVE UNCHANGED Publication!vars
  <2>1. \A q \in Rank, k \in Allocation : held'[q][k] = IF q = r /\ k = j THEN 0 ELSE held[q][k]
    BY <1>19, FreeKeeps
  <2>2. answer' = answer /\ Allocated(r, j)
    BY <1>0, <1>19, Facts DEF Free, Holds, Mapping
  <2>3. /\ \A q \in Rank, k \in Allocation : Allocated(q, k)' <=> Allocated(q, k)
        /\ \A k \in Allocation : LeftFile(k)' <=> LeftFile(k)
    BY <2>2 DEF Allocated, LeftFile
  <2>4. ASSUME NEW k \in Allocation PROVE SameMapped(k)
    BY <2>1, <2>2, <2>3 DEF SameMapped, HasMapped, Others
  <2>5. ASSUME NEW k \in Allocation PROVE SameStage(k)
    <3>1. CASE r = 0 /\ k = j
      BY <2>2, <2>3, <3>1 DEF SameStage, Stage, Custodian
    <3>2. CASE ~(r = 0 /\ k = j)
      BY <2>1, <2>3, <3>2 DEF SameStage, Stage, Custodian
    <3>. QED  BY <3>1, <3>2
  <2>. QED  BY <2>4, <2>5, PublishKinds
<1>20. ASSUME NEW r \in Rank, LibraryStep(r) PROVE Publication!Next \/ UNCHANGED Publication!vars
  BY <1>4, <1>5, <1>6, <1>7, <1>8, <1>9, <1>10, <1>12, <1>14, <1>15, <1>16, <1>17, <1>20
     DEF LibraryStep, CustodianStep
<1>. QED  BY <1>3, <1>18, <1>19, <1>20 DEF Next

\* Every allocation hands out its segment as Publish promises, whoever fails:
\* sized in full before anybody else maps it, and unlinked when all have.
THEOREM PublishesAllocations == Spec => Publishes
<1>1. Init => Publication!Init
  <2>. SUFFICES ASSUME Init PROVE Publication!Init
    OBVIOUS
  <2>. USE RankIs
  <2>1. \A r \in Rank, k \in Allocation : ~Allocated(r, k) /\ held[r][k] = 0 /\ ~LeftFile(k)
    <3>1. \A r \in Rank : DOMAIN answer[r] = {}
      BY DEF Init
    <3>. QED  BY <3>1 DEF Init, Allocated, LeftFile, Custodian
  <2>2. \A k \in Allocation : Stage(k) = "none"
    BY <2>1 DEF Stage, Custodian
  <2>. QED  BY <2>1, <2>2 DEF Publication!Init, Custodian
<1>2. Together /\ Links /\ [Next]_vars => [Publication!Next]_(Publication!vars)
  BY PublishStep
<1>. QED  BY <1>1, <1>2, InOneTurn, LinksAlways, PTL DEF Spec, Publishes, Publication!Spec

(***************************************************************************)
(* What is in the memory.                                                  *)
(***************************************************************************)
\* A rank that was given its part of a segment and has written it.
Wrote(r, k) == Allocated(r, k) /\ (k = call[r] => pc[r] \notin {"use", "gone"})

Part(k, q) == Bytes(ViewOf(asked[k], q))

\* A mapped segment has the size that was asked for altogether, and holds what
\* each rank wrote, when the sizes fit; and no rank has written outside of it.
Memory ==
    /\ \A r \in Rank, k \in Allocation : held[r][k] # 0 =>
           /\ Joined(k) = Rank
           /\ Len(mem[held[r][k]]) = GlobalSize(asked[k])
           /\ \A q \in Rank : Wrote(q, k) /\ Sum(k) < SIZE_MOD =>
                  \A i \in Part(k, q) : mem[held[r][k]][i] = [alloc |-> k, rank |-> q]
    /\ \A q \in Rank, k \in Allocation : Wrote(q, k) =>
           Joined(k) = Rank /\ Part(k, q) \subseteq 1 .. GlobalSize(asked[k])

\* A step after which nobody maps anything new, or has written more, and the
\* mapped segments are what they were.
LEMMA MemoryKeeps ==
    ASSUME Memory,
           \A r \in Rank, k \in Allocation :
               held'[r][k] # 0 => \E q \in Rank : held'[r][k] = held[q][k],
           \A r \in Rank, k \in Allocation : held[r][k] # 0 => mem'[held[r][k]] = mem[held[r][k]],
           \A q \in Rank, k \in Allocation : Wrote(q, k)' => Wrote(q, k),
           \A k \in Allocation : Joined(k) = Rank => Joined(k)' = Rank /\ asked'[k] = asked[k]
    PROVE  Memory'
<1>1. ASSUME NEW r \in Rank, NEW k \in Allocation, held'[r][k] # 0
      PROVE  /\ Joined(k)' = Rank
             /\ Len(mem'[held'[r][k]]) = GlobalSize(asked'[k])
             /\ \A q \in Rank : Wrote(q, k)' /\ Sum(k)' < SIZE_MOD =>
                    \A i \in Part(k, q)' : mem'[held'[r][k]][i] = [alloc |-> k, rank |-> q]
  <2>1. PICK p \in Rank : held'[r][k] = held[p][k]
    BY <1>1
  <2>2. /\ Joined(k) = Rank /\ Len(mem[held[p][k]]) = GlobalSize(asked[k])
        /\ \A q \in Rank : Wrote(q, k) /\ Sum(k) < SIZE_MOD =>
               \A i \in Part(k, q) : mem[held[p][k]][i] = [alloc |-> k, rank |-> q]
    BY <1>1, <2>1 DEF Memory
  <2>3. Joined(k)' = Rank /\ asked'[k] = asked[k] /\ mem'[held[p][k]] = mem[held[p][k]]
    BY <1>1, <2>1, <2>2
  <2>4. Sum(k)' = Sum(k) /\ \A q \in Rank : Part(k, q)' = Part(k, q)
    BY <2>3 DEF Sum, Part
  <2>. QED  BY <2>1, <2>2, <2>3, <2>4
<1>2. ASSUME NEW q \in Rank, NEW k \in Allocation, Wrote(q, k)'
      PROVE  Joined(k)' = Rank /\ Part(k, q)' \subseteq 1 .. GlobalSize(asked'[k])
  <2>1. Joined(k) = Rank /\ Part(k, q) \subseteq 1 .. GlobalSize(asked[k])
    BY <1>2 DEF Memory
  <2>2. Joined(k)' = Rank /\ asked'[k] = asked[k]
    BY <2>1
  <2>. QED  BY <2>1, <2>2 DEF Part
<1>. QED  BY <1>1, <1>2 DEF Memory

\* A rank that goes elsewhere has not written by that, unless it comes from "use".
LEMMA WroteKept ==
    ASSUME Books, NEW r \in Rank, NEW l, Goto(r, l), call' = call,
           \/ answer' = answer /\ (pc[r] \in {"use", "gone"} => l \in {"use", "gone"})
           \/ /\ pc[r] \in Inside
              /\ \E result \in Result : Answer(r, result) /\ (result = "SUCCESS" => l = "use")
    PROVE  \A q \in Rank, k \in Allocation : Wrote(q, k)' => Wrote(q, k)
<1>1. pc'[r] = l /\ \A q \in Rank \ {r} : pc'[q] = pc[q]
  BY Facts DEF Goto
<1>2. CASE answer' = answer /\ (pc[r] \in {"use", "gone"} => l \in {"use", "gone"})
  BY <1>1, <1>2 DEF Wrote, Allocated
<1>3. ASSUME pc[r] \in Inside, NEW result \in Result, Answer(r, result), result = "SUCCESS" => l = "use"
      PROVE  \A q \in Rank, k \in Allocation : Wrote(q, k)' => Wrote(q, k)
  <2>1. PICK c : c = Len(answer[r]) + 1
    OBVIOUS
  <2>2. c = call[r]
    <3>1. Len(answer[r]) = call[r] - 1 /\ call[r] \in Nat
      BY <1>3, PlaceIs, Facts
    <3>. QED  BY <2>1, <3>1
  <2>3. \A q \in Rank, k \in Allocation :
            Allocated(q, k)' <=> Allocated(q, k) \/ (q = r /\ k = c /\ result = "SUCCESS")
    BY <1>3, <2>1, AnswerAdds
  <2>4. pc[r] \notin {"use", "gone"}
    BY <1>3 DEF Inside
  <2>. QED  BY <1>1, <1>3, <2>2, <2>3, <2>4 DEF Wrote
<1>. QED  BY <1>2, <1>3

\* Nobody's memory or segment changes at a step to another place.
LEMMA MoveKeepsMemory ==
    ASSUME Books, Memory, NEW r \in Rank, NEW l, Goto(r, l), UNCHANGED <<call, asked, mem, held>>,
           \/ answer' = answer /\ (pc[r] \in {"use", "gone"} => l \in {"use", "gone"})
           \/ /\ pc[r] \in Inside
              /\ \E result \in Result : Answer(r, result) /\ (result = "SUCCESS" => l = "use")
    PROVE  Memory'
<1>1. \A q \in Rank, k \in Allocation : Wrote(q, k)' => Wrote(q, k)
  BY WroteKept
<1>2. \A k \in Allocation : Joined(k)' = Joined(k)
  BY DEF Joined
<1>. QED  BY <1>1, <1>2, MemoryKeeps

\* The segment that is created has the size asked for, and nobody has written
\* to it; those that are mapped do not change.
LEMMA CreateMemory ==
    ASSUME Together, Links, Memory, Create
    PROVE  Memory'
<1>. USE RankIs
<1>1. /\ pc[0] = "create" /\ CreatedSize \in 0 .. OFF_MAX /\ OpenFile(CreatedSize)
      /\ held' = [held EXCEPT ![0][call[0]] = file'[told[call[0]]]]
      /\ Goto(0, "published") /\ UNCHANGED <<call, asked, answer>>
  BY DEF Create, Custodian, Hold
<1>2. /\ Books /\ told[call[0]] \in Names /\ call[0] \in Allocation /\ Joined(call[0]) = Rank
      /\ \A r \in Rank : held[r][call[0]] = 0 /\ ~Allocated(r, call[0])
      /\ CreatedSize = GlobalSize(asked[call[0]])
  BY <1>1, CreatingIs
<1>3. PICK f : f = file'[told[call[0]]]
  OBVIOUS
<1>4. f # 0 /\ \A r \in Rank, k \in Allocation : held[r][k] # f
  BY <1>1, <1>3, NewIsApart
<1>5. Len(mem'[f]) = CreatedSize /\ \A id \in 1 .. Len(mem) : id # f => mem'[id] = mem[id]
  BY <1>1, <1>2, <1>3, Opened
<1>6. held \in [Rank -> [Allocation -> 0 .. Len(mem)]] /\ Len(mem) \in Nat
  BY <1>2, Facts
<1>7. \A r \in Rank, k \in Allocation :
          held'[r][k] = IF r = 0 /\ k = call[0] THEN f ELSE held[r][k]
  BY <1>1, <1>2, <1>3, <1>6
<1>8. \A r \in Rank, k \in Allocation : held[r][k] # 0 => mem'[held[r][k]] = mem[held[r][k]]
  <2>1. \A r \in Rank, k \in Allocation : held[r][k] # 0 => held[r][k] \in 1 .. Len(mem)
    BY <1>6
  <2>. QED  BY <1>4, <1>5, <2>1
<1>9. \A q \in Rank, k \in Allocation : Wrote(q, k)' => Wrote(q, k)
  BY <1>1, <1>2, WroteKept
<1>10. \A k \in Allocation : Joined(k)' = Joined(k) /\ Sum(k)' = Sum(k) /\ asked'[k] = asked[k]
       /\ \A q \in Rank : Part(k, q)' = Part(k, q)
  BY <1>1 DEF Joined, Sum, Part
<1>11. ASSUME NEW r \in Rank, NEW k \in Allocation, held'[r][k] # 0
       PROVE  /\ Joined(k)' = Rank
              /\ Len(mem'[held'[r][k]]) = GlobalSize(asked'[k])
              /\ \A q \in Rank : Wrote(q, k)' /\ Sum(k)' < SIZE_MOD =>
                     \A i \in Part(k, q)' : mem'[held'[r][k]][i] = [alloc |-> k, rank |-> q]
  <2>1. CASE r = 0 /\ k = call[0]
    <3>1. \A q \in Rank : ~Wrote(q, k)'
      BY <1>2, <1>9, <2>1 DEF Wrote
    <3>. QED  BY <1>2, <1>5, <1>7, <1>10, <2>1, <3>1
  <2>2. CASE ~(r = 0 /\ k = call[0])
    <3>1. held'[r][k] = held[r][k] /\ held[r][k] # 0
      BY <1>7, <1>11, <2>2
    <3>2. mem'[held'[r][k]] = mem[held[r][k]]
      BY <1>8, <3>1
    <3>3. /\ Joined(k) = Rank /\ Len(mem[held[r][k]]) = GlobalSize(asked[k])
          /\ \A q \in Rank : Wrote(q, k) /\ Sum(k) < SIZE_MOD =>
                 \A i \in Part(k, q) : mem[held[r][k]][i] = [alloc |-> k, rank |-> q]
      BY <3>1 DEF Memory
    <3>. QED  BY <1>9, <1>10, <3>2, <3>3
  <2>. QED  BY <2>1, <2>2
<1>12. ASSUME NEW q \in Rank, NEW k \in Allocation, Wrote(q, k)'
       PROVE  Joined(k)' = Rank /\ Part(k, q)' \subseteq 1 .. GlobalSize(asked'[k])
  BY <1>9, <1>10, <1>12 DEF Memory
<1>. QED  BY <1>11, <1>12 DEF Memory

\* A creation that fails changes no segment that is mapped.
LEMMA FailureMemory ==
    ASSUME Together, Links, Memory, pc[0] = "create", NEW result \in {"ftruncate", "mmap"},
           Fail(0, result), NEW size \in 0 .. OFF_MAX, OpenFile(size) \/ UNCHANGED <<file, mem>>,
           UNCHANGED <<call, asked>>, held' = held
    PROVE  Memory'
<1>. USE RankIs
<1>1. Books /\ told[call[0]] \in Names /\ result \in Result /\ result # "SUCCESS"
      /\ Answer(0, result) /\ Goto(0, "app")
  BY CreatingIs DEF Fail, Result
<1>2. \A q \in Rank, k \in Allocation : Wrote(q, k)' => Wrote(q, k)
  <2>1. pc[0] \in Inside
    BY DEF Inside
  <2>. QED  BY <1>1, <2>1, WroteKept
<1>3. \A r \in Rank, k \in Allocation : held[r][k] # 0 => mem'[held[r][k]] = mem[held[r][k]]
  <2>1. CASE UNCHANGED <<file, mem>>
    BY <2>1
  <2>2. CASE OpenFile(size)
    <3>1. \A r \in Rank, k \in Allocation : held[r][k] # file'[told[call[0]]]
      BY <2>2, NewIsApart
    <3>2. \A id \in 1 .. Len(mem) : id # file'[told[call[0]]] => mem'[id] = mem[id]
      BY <1>1, <2>2, Opened
    <3>3. \A r \in Rank, k \in Allocation : held[r][k] # 0 => held[r][k] \in 1 .. Len(mem)
      <4>1. held \in [Rank -> [Allocation -> 0 .. Len(mem)]] /\ Len(mem) \in Nat
        BY <1>1, Facts
      <4>. QED  BY <4>1
    <3>. QED  BY <3>1, <3>2, <3>3
  <2>. QED  BY <2>1, <2>2
<1>4. \A k \in Allocation : Joined(k)' = Joined(k)
  BY DEF Joined
<1>. QED  BY <1>2, <1>3, <1>4, MemoryKeeps

\* A rank that has an allocation maps what was sized for it.
LEMMA HeldSizes ==
    ASSUME Books, Memory, NEW r \in Rank, NEW k \in Allocation, held[r][k] # 0
    PROVE  /\ asked[k] \in Asked /\ Sum(k) = Offset(asked[k], N)
           /\ held[r][k] \in 1 .. Len(mem)
           /\ DOMAIN mem[held[r][k]] = 1 .. GlobalSize(asked[k])
           /\ Len(mem[held[r][k]]) = GlobalSize(asked[k])
<1>1. Joined(k) = Rank /\ Len(mem[held[r][k]]) = GlobalSize(asked[k])
  BY DEF Memory
<1>2. asked[k] \in Asked
  BY <1>1, SizesAre
<1>3. held \in [Rank -> [Allocation -> 0 .. Len(mem)]] /\ Len(mem) \in Nat /\ mem \in Seq(Seq(Byte))
  BY Facts DEF Books, TypeOK
<1>4. held[r][k] \in 1 .. Len(mem)
  BY <1>3
<1>5. mem[held[r][k]] \in Seq(Byte)
  BY <1>3, <1>4, ElementOfSeq
<1>. QED  BY <1>1, <1>2, <1>4, <1>5, LenProperties DEF Sum, Offset

\* A rank writes its own part and nobody else's.
LEMMA WriteMemory ==
    ASSUME Together, Links, Memory, NEW r \in Rank, Write(r)
    PROVE  Memory'
<1>. USE RankIs
<1>1. /\ Books /\ pc[r] = "use" /\ Goto(r, "sync") /\ UNCHANGED <<call, asked, held, answer>>
      /\ pc'[r] = "sync" /\ \A q \in Rank \ {r} : pc'[q] = pc[q]
  BY Facts DEF Together, Write, Goto
<1>2. PICK c \in Allocation : c = call[r]
  BY <1>1, PlaceIs DEF Using
<1>3. PICK g : g = Segment(r)
  OBVIOUS
<1>4. /\ g \in 1 .. Len(mem) /\ g = held[r][c] /\ g # 0
      /\ \A id \in 1 .. Len(mem) : Len(mem'[id]) = Len(mem[id])
      /\ \A id \in 1 .. Len(mem) : id # g => mem'[id] = mem[id]
      /\ \A i \in 1 .. Len(mem[g]) :
             mem'[g][i] = IF i \in Part(c, r) THEN [alloc |-> c, rank |-> r] ELSE mem[g][i]
      /\ Part(c, r) \subseteq 1 .. Len(mem[g])
  <2>1. OwnBytes(r) = Part(c, r)
    BY <1>2 DEF OwnBytes, Part, Local
  <2>2. g = held[r][c]
    BY <1>2, <1>3 DEF Segment
  <2>3. g \in 1 .. Len(mem) /\ Len(mem) \in Nat
    BY <1>1, <1>3, Written, Facts
  <2>4. /\ \A id \in 1 .. Len(mem) : Len(mem'[id]) = Len(mem[id])
        /\ \A id \in 1 .. Len(mem) : id # g => mem'[id] = mem[id]
        /\ OwnBytes(r) \subseteq 1 .. Len(mem[g])
    BY <1>1, <1>3, Written
  <2>5. \A i \in 1 .. Len(mem[g]) :
            mem'[g][i] = IF i \in OwnBytes(r) THEN [alloc |-> c, rank |-> r] ELSE mem[g][i]
    BY <1>1, <1>2, <1>3, Written
  <2>. QED  BY <2>1, <2>2, <2>3, <2>4, <2>5
<1>5. \A q \in Rank, k \in Allocation : Wrote(q, k)' => Wrote(q, k) \/ (q = r /\ k = c)
  BY <1>1, <1>2 DEF Wrote, Allocated
<1>6. \A k \in Allocation : Joined(k)' = Joined(k) /\ Sum(k)' = Sum(k) /\ asked'[k] = asked[k]
      /\ \A q \in Rank : Part(k, q)' = Part(k, q)
  BY <1>1 DEF Joined, Sum, Part
<1>7. asked[c] \in Asked /\ Sum(c) = Offset(asked[c], N) /\ Len(mem[g]) = GlobalSize(asked[c])
      /\ Joined(c) = Rank
  BY <1>1, <1>4, HeldSizes DEF Memory
<1>8. ASSUME Sum(c) < SIZE_MOD, NEW q \in Rank, q # r, NEW i \in Part(c, q) PROVE i \notin Part(c, r)
  <2>1. PICK s \in Asked : s = asked[c]
    BY <1>7
  <2>2. /\ Part(c, q) = Offset(s, q) + 1 .. Offset(s, q + 1)
        /\ Part(c, r) = Offset(s, r) + 1 .. Offset(s, r + 1)
    BY <1>7, <1>8, <2>1, ViewsWithin DEF Part
  <2>3. q \in 0 .. N /\ r \in 0 .. N /\ q + 1 \in 0 .. N /\ r + 1 \in 0 .. N
        /\ q \in Int /\ r \in Int
    BY DEF Rank
  <2>4. /\ Offset(s, q) \in Nat /\ Offset(s, r) \in Nat
        /\ Offset(s, q + 1) \in Nat /\ Offset(s, r + 1) \in Nat
        /\ (q + 1 <= r => Offset(s, q + 1) <= Offset(s, r))
        /\ (r + 1 <= q => Offset(s, r + 1) <= Offset(s, q))
    BY <2>3, OffsetIs
  <2>5. q + 1 <= r \/ r + 1 <= q
    BY <1>8, <2>3
  <2>. QED  BY <1>8, <2>2, <2>4, <2>5
<1>9. ASSUME NEW p \in Rank, NEW k \in Allocation, held[p][k] # 0
      PROVE  /\ Joined(k) = Rank
             /\ Len(mem'[held[p][k]]) = GlobalSize(asked[k])
             /\ \A q \in Rank : Wrote(q, k)' /\ Sum(k) < SIZE_MOD =>
                    \A i \in Part(k, q) : mem'[held[p][k]][i] = [alloc |-> k, rank |-> q]
  <2>1. /\ Joined(k) = Rank /\ Len(mem[held[p][k]]) = GlobalSize(asked[k])
        /\ \A q \in Rank : Wrote(q, k) /\ Sum(k) < SIZE_MOD =>
               \A i \in Part(k, q) : mem[held[p][k]][i] = [alloc |-> k, rank |-> q]
    BY <1>9 DEF Memory
  <2>2. held[p][k] \in 1 .. Len(mem)
    BY <1>1, <1>9, HeldSizes
  <2>3. held[p][k] = g <=> k = c
    BY <1>4, <1>9 DEF Links, Apart
  <2>4. CASE k # c
    <3>1. mem'[held[p][k]] = mem[held[p][k]]
      BY <1>4, <2>2, <2>3, <2>4
    <3>. QED  BY <1>5, <2>1, <2>4, <3>1
  <2>5. CASE k = c
    <3>1. held[p][k] = g /\ Len(mem'[g]) = Len(mem[g])
      BY <1>4, <2>3, <2>5
    <3>2. ASSUME NEW q \in Rank, Wrote(q, k)', Sum(k) < SIZE_MOD, NEW i \in Part(k, q)
          PROVE  mem'[g][i] = [alloc |-> k, rank |-> q]
      <4>1. CASE q = r
        BY <1>4, <2>5, <3>2, <4>1
      <4>2. CASE q # r
        <5>1. Wrote(q, c) /\ i \notin Part(c, r)
          BY <1>5, <1>8, <2>5, <3>2, <4>2
        <5>2. i \in 1 .. Len(mem[g])
          BY <1>7, <2>5, <3>2, <5>1 DEF Memory
        <5>. QED  BY <1>4, <2>1, <2>5, <3>1, <3>2, <5>1, <5>2
      <4>. QED  BY <4>1, <4>2
    <3>. QED  BY <2>1, <3>1, <3>2
  <2>. QED  BY <2>4, <2>5
<1>10. ASSUME NEW q \in Rank, NEW k \in Allocation, Wrote(q, k)'
       PROVE  Joined(k) = Rank /\ Part(k, q) \subseteq 1 .. GlobalSize(asked[k])
  <2>1. CASE Wrote(q, k)
    BY <2>1 DEF Memory
  <2>2. CASE q = r /\ k = c
    BY <1>4, <1>7, <2>2
  <2>. QED  BY <1>5, <1>10, <2>1, <2>2
<1>. QED  BY <1>1, <1>6, <1>9, <1>10 DEF Memory

\* A rank that begins an allocation has written the one before, and adds a size
\* to an allocation that nobody has mapped yet.
LEMMA AllocateMemory ==
    ASSUME Together, Memory, NEW r \in Rank, call[r] < Len(Sizes), NEW size \in Sizes[call[r] + 1],
           Allocate(r, size)
    PROVE  Memory'
<1>. USE RankIs
<1>1. /\ call'[r] = call[r] + 1 /\ pc'[r] = "gather" /\ pc[r] = "app" /\ Books
      /\ \A q \in Rank \ {r} : call'[q] = call[q] /\ pc'[q] = pc[q]
      /\ UNCHANGED <<mem, held, answer>>
      /\ \A k \in Nat : Joined(k)' = IF k = call[r] + 1 THEN Joined(k) \cup {r} ELSE Joined(k)
      /\ r \notin Joined(call[r] + 1)
      /\ \A k \in Allocation : k # call[r] + 1 => asked'[k] = asked[k]
  BY AllocateBooks
<1>2. \A k \in Allocation : k \in Nat
  BY <1>1, Facts
<1>3. \A q \in Rank, k \in Allocation : Wrote(q, k)' => Wrote(q, k)
  BY <1>1 DEF Wrote, Allocated
<1>4. \A k \in Allocation : Joined(k) = Rank => Joined(k)' = Rank /\ asked'[k] = asked[k]
  BY <1>1, <1>2
<1>. QED  BY <1>1, <1>3, <1>4, MemoryKeeps

\* At first nothing is mapped.
LEMMA MemoryInit == Init => Memory
<1>. SUFFICES ASSUME Init PROVE Memory
  OBVIOUS
<1>1. \A r \in Rank, k \in Allocation : held[r][k] = 0 /\ ~Wrote(r, k)
  <2>1. \A r \in Rank : DOMAIN answer[r] = {}
    BY DEF Init
  <2>. QED  BY <2>1 DEF Init, Wrote, Allocated
<1>. QED  BY <1>1 DEF Memory

\* Every step keeps the memory in order.
LEMMA MemoryStep == Together /\ Links /\ Memory /\ [Next]_vars => Memory'
<1>. SUFFICES ASSUME Together, Links, Memory, [Next]_vars PROVE Memory'
  OBVIOUS
<1>. USE RankIs
<1>0. Books
  BY DEF Together
<1>1. CASE UNCHANGED vars
  BY <1>1, MemoryKeeps DEF vars, Wrote, Allocated, Joined
<1>2. ASSUME NEW r \in Rank, LibraryStep(r) PROVE Memory'
  <2>1. CASE Gather(r)
    BY <1>0, <2>1, MoveKeepsMemory DEF Gather
  <2>2. CASE HearPath(r)
    <3>1. held' = held /\ pc[r] = "path" /\ UNCHANGED <<call, asked, mem>>
      BY <2>2, HearPathKeeps DEF HearPath
    <3>2. CASE told[call[r]] = NoPath
      <4>1. Goto(r, "app") /\ Answer(r, "NO_PATH") /\ "NO_PATH" \in Result \ {"SUCCESS"} /\ pc[r] \in Inside
        BY <2>2, <3>2 DEF HearPath, Fail, Result, Inside
      <4>. QED  BY <1>0, <3>1, <4>1, MoveKeepsMemory
    <3>3. CASE told[call[r]] # NoPath
      BY <1>0, <2>2, <3>1, <3>3, MoveKeepsMemory DEF HearPath
    <3>. QED  BY <3>2, <3>3
  <2>3. CASE Arrive(r)
    <3>1. UNCHANGED <<call, asked, mem, held, answer>>
      BY <2>3 DEF Arrive
    <3>2. \A q \in Rank : pc[q] \in {"use", "gone"} => pc'[q] = pc[q]
      <4>1. CASE waiting \cup {r} # Rank
        BY <2>3, <4>1 DEF Arrive
      <4>2. CASE waiting \cup {r} = Rank
        <5>1. \A q \in Rank : pc[q] \in {"published", "collect", "sized", "mapped", "sync"}
          BY <2>3, <4>2, <1>0, BeyondIs, Facts DEF Arrive, Placed
        <5>. QED  BY <5>1
      <4>. QED  BY <4>1, <4>2
    <3>3. \A q \in Rank, k \in Allocation : Wrote(q, k)' => Wrote(q, k)
      BY <3>1, <3>2 DEF Wrote, Allocated
    <3>. QED  BY <3>1, <3>3, MemoryKeeps DEF Joined
  <2>4. CASE Attach(r)
    <3>1. /\ UNCHANGED <<call, asked, mem, answer>> /\ Goto(r, "mapped") /\ pc[r] = "attach"
          /\ call[r] = call[0] /\ file[told[call[r]]] = held[0][call[0]]
      BY <2>4, AttachLinks DEF Attach
    <3>2. \A q \in Rank, k \in Allocation :
              held'[q][k] = IF q = r /\ k = call[r] THEN file[told[call[r]]] ELSE held[q][k]
      BY <2>4, AttachKeeps
    <3>3. \A q \in Rank, k \in Allocation : \E p \in Rank : held'[q][k] = held[p][k]
      BY <3>1, <3>2
    <3>4. \A q \in Rank, k \in Allocation : Wrote(q, k)' => Wrote(q, k)
      BY <1>0, <3>1, WroteKept
    <3>. QED  BY <3>1, <3>3, <3>4, MemoryKeeps DEF Joined
  <2>5. CASE AttachFailure(r)
    <3>1. held' = held /\ Goto(r, "app") /\ Answer(r, "attach") /\ "attach" \in Result \ {"SUCCESS"}
          /\ pc[r] \in Inside /\ UNCHANGED <<call, asked, mem>>
      BY <2>5, AttachFailureKeeps DEF AttachFailure, Fail, Result, Inside
    <3>. QED  BY <1>0, <3>1, MoveKeepsMemory
  <2>6. CASE Finish(r)
    <3>1. Goto(r, "use") /\ Answer(r, "SUCCESS") /\ "SUCCESS" \in Result
          /\ pc[r] \in Inside /\ UNCHANGED <<call, asked, mem, held>>
      BY <2>6 DEF Finish, Succeed, Result, Inside
    <3>. QED  BY <1>0, <3>1, MoveKeepsMemory
  <2>7. CASE CustodianStep
    <3>1. ASSUME NEW p \in Names, TellPath(p) PROVE Memory'
      BY <1>0, <3>1, MoveKeepsMemory DEF TellPath, Custodian
    <3>2. CASE TellNoPath
      <4>1. held' = held /\ Goto(0, "app") /\ Answer(0, "NO_PATH") /\ "NO_PATH" \in Result \ {"SUCCESS"}
            /\ pc[0] \in Inside /\ UNCHANGED <<call, asked, mem>>
        BY <3>2, TellNoPathKeeps DEF TellNoPath, Fail, Result, Inside, Custodian
      <4>. QED  BY <1>0, <4>1, MoveKeepsMemory
    <3>3. CASE Create
      BY <3>3, CreateMemory
    <3>4. CASE OpenFailure
      <4>1. held' = held /\ Goto(0, "app") /\ Answer(0, "open") /\ "open" \in Result \ {"SUCCESS"}
            /\ pc[0] \in Inside /\ UNCHANGED <<call, asked, mem>>
        BY <3>4, OpenFailureKeeps DEF OpenFailure, Fail, Result, Inside, Custodian
      <4>. QED  BY <1>0, <4>1, MoveKeepsMemory
    <3>5. CASE SizeFailure
      <4>1. /\ pc[0] = "create" /\ Fail(0, "ftruncate") /\ UNCHANGED <<call, asked>> /\ held' = held
            /\ OpenFile(0) \/ UNCHANGED <<file, mem>>
        BY <3>5, SizeFailureKeeps DEF SizeFailure, Custodian
      <4>2. 0 \in 0 .. OFF_MAX
        BY OffMaxIs
      <4>. QED  BY <4>1, <4>2, FailureMemory
    <3>6. CASE MapFailure
      <4>1. /\ pc[0] = "create" /\ Fail(0, "mmap") /\ UNCHANGED <<call, asked>> /\ held' = held
            /\ OpenFile(CreatedSize) /\ CreatedSize \in 0 .. OFF_MAX
        BY <3>6, MapFailureKeeps DEF MapFailure, Custodian
      <4>. QED  BY <4>1, FailureMemory
    <3>7. CASE Unlink
      <4>1. Goto(0, "use") /\ Answer(0, "SUCCESS") /\ "SUCCESS" \in Result
            /\ pc[0] \in Inside /\ UNCHANGED <<call, asked, mem, held>>
        BY <3>7 DEF Unlink, Succeed, Result, Inside, Custodian
      <4>. QED  BY <1>0, <4>1, MoveKeepsMemory
    <3>. QED  BY <2>7, <3>1, <3>2, <3>3, <3>4, <3>5, <3>6, <3>7 DEF CustodianStep
  <2>. QED  BY <1>2, <2>1, <2>2, <2>3, <2>4, <2>5, <2>6, <2>7 DEF LibraryStep
<1>3. ASSUME NEW r \in Rank, ApplicationStep(r) PROVE Memory'
  <2>1. CASE Allocates(r)
    BY <2>1, AllocateMemory DEF Allocates
  <2>2. CASE Write(r)
    BY <2>2, WriteMemory
  <2>3. CASE Overstep(r)
    BY <1>0, <2>3, MoveKeepsMemory DEF Overstep
  <2>4. CASE Read(r)
    BY <1>0, <2>4, MoveKeepsMemory DEF Read
  <2>. QED  BY <1>3, <2>1, <2>2, <2>3, <2>4 DEF ApplicationStep
<1>4. ASSUME NEW r \in Rank, NEW j \in Allocation, Free(r, j) PROVE Memory'
  <2>1. \A q \in Rank, k \in Allocation : held'[q][k] = IF q = r /\ k = j THEN 0 ELSE held[q][k]
    BY <1>4, FreeKeeps
  <2>2. UNCHANGED <<pc, call, asked, mem, answer>>
    BY <1>4 DEF Free
  <2>. QED  BY <2>1, <2>2, MemoryKeeps DEF Wrote, Allocated, Joined
<1>. QED  BY <1>1, <1>2, <1>3, <1>4 DEF Next

\* The memory is in order, always.
LEMMA MemoryAlways == Spec => []Memory
<1>1. Together /\ Links /\ Memory /\ [Next]_vars => Memory'
  BY MemoryStep
<1>. QED  BY <1>1, InOneTurn, LinksAlways, MemoryInit, PTL DEF Spec

\* The views tile the segment exactly when the sizes fit a size_t; when they do
\* not, some view reaches beyond it, though the allocation has succeeded.
THEOREM ViewsTile == Spec => []TilesUnlessWrapped
<1>1. ASSUME Together, Memory PROVE TilesUnlessWrapped
  <2>. USE RankIs
  <2>. SUFFICES ASSUME NEW r \in Rank, NEW k \in Allocation, held[r][k] # 0,
                       NEW view, view = [q \in Rank |-> Bytes(ViewOf(asked[k], q))],
                       NEW segment, segment = DOMAIN mem[held[r][k]]
                PROVE  IF Sum(k) < SIZE_MOD
                       THEN /\ UNION Range(view) = segment
                            /\ \A a, b \in Rank :
                                   /\ a < b => \A i \in view[a], j \in view[b] : i < j
                                   /\ a <= b => Bytes(View(asked[k], a, b))
                                                   = UNION {view[q] : q \in a .. b}
                       ELSE \E q \in Rank : ~(view[q] \subseteq segment)
    BY DEF TilesUnlessWrapped
  <2>1. /\ asked[k] \in Asked /\ Sum(k) = Offset(asked[k], N) /\ segment = 1 .. GlobalSize(asked[k])
    BY <1>1, HeldSizes DEF Together
  <2>2. PICK s \in Asked : s = asked[k]
    BY <2>1
  <2>3. CASE Sum(k) < SIZE_MOD
    <3>1. /\ GlobalSize(s) = Offset(s, N)
          /\ \A q \in Rank : view[q] = Offset(s, q) + 1 .. Offset(s, q + 1)
          /\ \A a, b \in Rank : a <= b =>
                 Bytes(View(s, a, b)) = Offset(s, a) + 1 .. Offset(s, b + 1)
      BY <2>1, <2>2, <2>3, ViewsWithin
    <3>2. /\ \A q \in 0 .. N : Offset(s, q) \in Nat
          /\ \A p, q \in 0 .. N : p <= q => Offset(s, p) <= Offset(s, q)
      BY OffsetIs
    <3>3. \A q \in Rank : q \in 0 .. N /\ q + 1 \in 0 .. N /\ q \in Int
      BY DEF Rank
    <3>4. ASSUME NEW a \in Rank, NEW b \in Rank, a <= b
          PROVE  Offset(s, a) + 1 .. Offset(s, b + 1) = UNION {view[q] : q \in a .. b}
      <4>1. ASSUME NEW i \in Offset(s, a) + 1 .. Offset(s, b + 1) PROVE \E q \in a .. b : i \in view[q]
        <5>1. PICK q \in a .. b : i \in Offset(s, q) + 1 .. Offset(s, q + 1)
          BY <3>4, <4>1, PartsCover
        <5>2. q \in Rank
          BY <3>3 DEF Rank
        <5>. QED  BY <3>1, <5>1, <5>2
      <4>2. ASSUME NEW q \in a .. b, NEW i \in view[q] PROVE i \in Offset(s, a) + 1 .. Offset(s, b + 1)
        <5>1. q \in Rank /\ q \in Int /\ a <= q /\ q + 1 <= b + 1
          BY <3>3 DEF Rank
        <5>2. a \in 0 .. N /\ q \in 0 .. N /\ q + 1 \in 0 .. N /\ b + 1 \in 0 .. N
          BY <3>3, <5>1
        <5>3. Offset(s, a) <= Offset(s, q) /\ Offset(s, q + 1) <= Offset(s, b + 1)
          BY <3>2, <5>1, <5>2
        <5>4. Offset(s, a) \in Nat /\ Offset(s, q) \in Nat /\ Offset(s, q + 1) \in Nat /\ Offset(s, b + 1) \in Nat
          BY <3>2, <5>2
        <5>5. i \in Offset(s, q) + 1 .. Offset(s, q + 1)
          BY <3>1, <5>1
        <5>. QED  BY <5>3, <5>4, <5>5
      <4>. QED  BY <4>1, <4>2
    <3>5. UNION Range(view) = segment
      <4>1. 0 \in Rank /\ N - 1 \in Rank /\ 0 <= N - 1 /\ N - 1 + 1 = N /\ 0 .. N - 1 = Rank
        BY DEF Rank
      <4>2. 1 .. Offset(s, N) = UNION {view[q] : q \in Rank}
        <5>1. Offset(s, 0) + 1 .. Offset(s, N - 1 + 1) = UNION {view[q] : q \in 0 .. N - 1}
          BY <3>4, <4>1
        <5>2. Offset(s, 0) = 0
          BY OffsetIs
        <5>. QED  BY <4>1, <5>1, <5>2
      <4>3. Range(view) = {view[q] : q \in Rank}
        BY DEF Range
      <4>. QED  BY <2>1, <2>2, <3>1, <4>2, <4>3
    <3>6. ASSUME NEW a \in Rank, NEW b \in Rank, a < b, NEW i \in view[a], NEW j \in view[b] PROVE i < j
      <4>1. a + 1 <= b /\ a + 1 \in 0 .. N /\ b \in 0 .. N /\ a \in 0 .. N /\ b + 1 \in 0 .. N
        BY <3>3, <3>6
      <4>2. Offset(s, a + 1) <= Offset(s, b)
        BY <3>2, <4>1
      <4>3. Offset(s, a) \in Nat /\ Offset(s, a + 1) \in Nat /\ Offset(s, b) \in Nat /\ Offset(s, b + 1) \in Nat
        BY <3>2, <4>1
      <4>. QED  BY <3>1, <3>6, <4>2, <4>3
    <3>7. ASSUME NEW a \in Rank, NEW b \in Rank, a <= b
          PROVE  Bytes(View(asked[k], a, b)) = UNION {view[q] : q \in a .. b}
      <4>1. Bytes(View(s, a, b)) = Offset(s, a) + 1 .. Offset(s, b + 1)
        BY <3>1, <3>7
      <4>. QED  BY <2>2, <3>4, <3>7, <4>1
    <3>. QED  BY <2>3, <3>5, <3>6, <3>7
  <2>4. CASE ~(Sum(k) < SIZE_MOD)
    BY <2>1, <2>2, <2>4, WrapsBeyond
  <2>. QED  BY <2>3, <2>4
<1>. QED  BY <1>1, InOneTurn, MemoryAlways, PTL

\* When one rank reads, every rank has written to what the reader has mapped.
LEMMA AllWrote ==
    ASSUME Together, NEW r \in Rank, pc[r] = "read", NEW k \in Allocation, held[r][k] # 0,
           NEW q \in Rank
    PROVE  Wrote(q, k)
<1>. USE RankIs
<1>1. /\ Books /\ Holds(r) /\ k \in Nat /\ k > 0
      /\ DOMAIN answer[r] = 1 .. Len(answer[r]) /\ DOMAIN answer[q] = 1 .. Len(answer[q])
      /\ Len(answer[q]) \in Nat /\ call[q] \in Nat /\ call[r] \in Nat /\ Entered(q)
  BY Facts DEF Together
<1>2. Allocated(r, k)
  BY <1>1 DEF Holds, Mapping
<1>3. Place(r) = "read" /\ Turn(r) = call[r] /\ Len(answer[r]) = call[r]
  BY <1>1, PlaceIs DEF Using, Inside
<1>4. Turn(0) = call[r] /\ Turn(q) = call[r] /\ Place(0) \in {"read", "SUCCESS"}
  <2>1. \A p \in Rank : Turn(p) = Turn(0)
    BY DEF Together, Lockstep
  <2>2. r # 0 => "read" \in Along(Place(0))
    BY <1>3 DEF Together, Lockstep
  <2>3. Place(0) \in {"read", "SUCCESS"}
    BY <1>3, <2>2 DEF Along, Before, Creating
  <2>. QED  BY <1>3, <2>1, <2>3
<1>5. Place(q) \in {"read", "SUCCESS"}
  BY <1>4 DEF Together, Lockstep, Along, Before, Creating
<1>6. k <= call[r] /\ answer[r][k] = "SUCCESS"
  BY <1>1, <1>2, <1>3 DEF Allocated
<1>7. pc[q] \notin {"use", "gone"}
  BY <1>5 DEF Place, Returned
<1>8. CASE k = call[r]
  <2>1. CASE Returned(q)
    <3>1. Place(q) = "SUCCESS" /\ Len(answer[q]) = k /\ answer[q][k] = "SUCCESS"
      BY <1>1, <1>4, <1>5, <1>8, <2>1, ReturnedIs DEF Results
    <3>. QED  BY <1>1, <1>7, <3>1 DEF Wrote, Allocated
  <2>2. CASE ~Returned(q)
    <3>1. pc[q] \in {"read", "SUCCESS"} /\ call[q] = k
      BY <1>4, <1>5, <1>8, <2>2 DEF Place, Turn
    <3>2. pc[q] = "read"
      BY <1>1, <3>1, Facts, LabelIs
    <3>3. Len(answer[q]) = k /\ answer[q][k] = "SUCCESS"
      BY <1>1, <3>1, <3>2 DEF Entered, Inside, Using
    <3>. QED  BY <1>1, <1>7, <3>3 DEF Wrote, Allocated
  <2>. QED  BY <2>1, <2>2
<1>9. CASE k # call[r]
  <2>1. k < Turn(0) /\ k < Turn(q)
    BY <1>1, <1>4, <1>6, <1>9
  <2>2. answer[q][k] = answer[0][k] /\ answer[r][k] = answer[0][k]
    BY <2>1 DEF Together, Agreed
  <2>3. k <= Len(answer[q])
    BY <1>1, <2>1 DEF Turn, Entered
  <2>. QED  BY <1>1, <1>6, <1>7, <2>2, <2>3 DEF Wrote, Allocated
<1>. QED  BY <1>8, <1>9

\* What a rank reads in the part of any other is what that one wrote there.
THEOREM ReadsWhatWasWritten == Spec => []ReadsBack
<1>1. ASSUME Together, Memory PROVE ReadsBack
  <2>. SUFFICES ASSUME NEW r \in Rank, pc[r] = "read", NEW k \in Allocation, held[r][k] # 0
                PROVE  \A q \in Rank : \A i \in Part(k, q) :
                           mem[held[r][k]][i] = [alloc |-> k, rank |-> q]
    BY DEF ReadsBack, Part
  <2>1. \A q \in Rank : Wrote(q, k)
    BY <1>1, AllWrote
  <2>2. \A q \in Rank : Part(k, q) \subseteq 1 .. GlobalSize(asked[k])
    BY <1>1, <2>1 DEF Memory
  <2>3. asked[k] \in Asked /\ Sum(k) = Offset(asked[k], N)
    BY <1>1, HeldSizes DEF Together
  <2>4. Sum(k) < SIZE_MOD
    BY <2>2, <2>3, WrapsBeyond DEF Part
  <2>. QED  BY <1>1, <2>1, <2>4 DEF Memory
<1>. QED  BY <1>1, InOneTurn, MemoryAlways, PTL
===============================================================================
