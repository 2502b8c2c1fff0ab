------------------------------ MODULE BitmapProofs ------------------------------
(***************************************************************************)
(* Proofs about Bitmap, for words of any width and bitmaps of any length:  *)
(* a bitmap is a set of indices, under every call that changes or combines *)
(* bitmaps, aliased or not, and every question is answered for that set,   *)
(* the one case of ComparesTails excepted.                                 *)
(***************************************************************************)
EXTENDS Bitmap, DataLemmas

(***************************************************************************)
(* An index is the number of a word and of a bit in it.                    *)
(***************************************************************************)
At(i, bit) == i * BITS_PER_LONG + bit

\* The bits of a word are numbered from 0.
LEMMA WidthIs == BITS_PER_LONG \in Nat \ {0} /\ 0 \in Bit /\ BITS_PER_LONG - 1 \in Bit /\ Bit \subseteq Nat
BY BitmapAssumption DEF Bit

\* A later word begins after all of an earlier one.
LEMMA WordsInOrder ==
    ASSUME NEW i \in Nat, NEW j \in Nat, i < j, NEW bit \in Bit
    PROVE  At(i, bit) < j * BITS_PER_LONG
<1>1. (i + 1) * BITS_PER_LONG <= j * BITS_PER_LONG
  <2>1. (j - (i + 1)) * BITS_PER_LONG >= 0
    BY WidthIs
  <2>. QED  BY <2>1, WidthIs
<1>2. (i + 1) * BITS_PER_LONG = i * BITS_PER_LONG + BITS_PER_LONG
  BY WidthIs
<1>. QED  BY <1>1, <1>2, WidthIs DEF At, Bit

\* Every index is at one place.
LEMMA PlaceIs ==
    ASSUME NEW cpu \in Nat
    PROVE  INDEX(cpu) \in Nat /\ CPU_ULBIT(cpu) \in Bit /\ cpu = At(INDEX(cpu), CPU_ULBIT(cpu))
<1>1. /\ INDEX(cpu) \in Nat /\ CPU_ULBIT(cpu) \in Bit
      /\ cpu = BITS_PER_LONG * INDEX(cpu) + CPU_ULBIT(cpu)
  BY WidthIs, Division DEF INDEX, CPU_ULBIT, Bit
<1>. QED  BY <1>1, WidthIs DEF At

\* Every place has one index.
LEMMA AtIs ==
    ASSUME NEW i \in Nat, NEW bit \in Bit
    PROVE  At(i, bit) \in Nat /\ INDEX(At(i, bit)) = i /\ CPU_ULBIT(At(i, bit)) = bit
<1>1. At(i, bit) \in Nat
  BY WidthIs DEF At, Bit
<1>. DEFINE x == At(i, bit)
            q == INDEX(x)
            r == CPU_ULBIT(x)
<1>2. q \in Nat /\ r \in Bit /\ x = At(q, r)
  BY <1>1, PlaceIs
<1>. HIDE DEF q, r
<1>3. ~(q < i)
  <2>. SUFFICES ASSUME q < i PROVE FALSE
    OBVIOUS
  <2>1. At(q, r) < i * BITS_PER_LONG
    BY <1>2, WordsInOrder
  <2>. QED  BY <1>2, <2>1, WidthIs DEF At, Bit
<1>4. ~(i < q)
  <2>. SUFFICES ASSUME i < q PROVE FALSE
    OBVIOUS
  <2>1. At(i, bit) < q * BITS_PER_LONG
    BY <1>2, WordsInOrder
  <2>. QED  BY <1>2, <2>1, WidthIs DEF At, Bit
<1>5. q = i
  BY <1>2, <1>3, <1>4
<1>6. r = bit
  BY <1>2, <1>5, WidthIs DEF At, Bit
<1>. QED  BY <1>1, <1>5, <1>6 DEF q, r

\* Indices are ordered by word, and then by bit.
LEMMA OrderIs ==
    ASSUME NEW x \in Nat, NEW y \in Nat
    PROVE  x < y <=> \/ INDEX(x) < INDEX(y)
                     \/ INDEX(x) = INDEX(y) /\ CPU_ULBIT(x) < CPU_ULBIT(y)
<1>1. /\ INDEX(x) \in Nat /\ CPU_ULBIT(x) \in Bit /\ x = At(INDEX(x), CPU_ULBIT(x))
      /\ INDEX(y) \in Nat /\ CPU_ULBIT(y) \in Bit /\ y = At(INDEX(y), CPU_ULBIT(y))
  BY PlaceIs
<1>2. ASSUME INDEX(x) < INDEX(y) PROVE x < y
  <2>1. At(INDEX(x), CPU_ULBIT(x)) < INDEX(y) * BITS_PER_LONG
    BY <1>1, <1>2, WordsInOrder
  <2>. QED  BY <1>1, <2>1, WidthIs DEF At, Bit
<1>3. ASSUME INDEX(y) < INDEX(x) PROVE y < x
  <2>1. At(INDEX(y), CPU_ULBIT(y)) < INDEX(x) * BITS_PER_LONG
    BY <1>1, <1>3, WordsInOrder
  <2>. QED  BY <1>1, <2>1, WidthIs DEF At, Bit
<1>4. ASSUME INDEX(x) = INDEX(y) PROVE x < y <=> CPU_ULBIT(x) < CPU_ULBIT(y)
  BY <1>1, <1>4, WidthIs DEF At, Bit
<1>. QED  BY <1>1, <1>2, <1>3, <1>4, WidthIs DEF Bit

\* Where the words of a bitmap end.
LEMMA EndIs ==
    ASSUME NEW count \in Nat
    PROVE  /\ count * BITS_PER_LONG \in Nat
           /\ INDEX(count * BITS_PER_LONG) = count /\ CPU_ULBIT(count * BITS_PER_LONG) = 0
           /\ \A x \in Nat : x >= count * BITS_PER_LONG <=> INDEX(x) >= count
           /\ count > 0 => /\ count * BITS_PER_LONG - 1 \in Nat
                           /\ INDEX(count * BITS_PER_LONG - 1) = count - 1
                           /\ CPU_ULBIT(count * BITS_PER_LONG - 1) = BITS_PER_LONG - 1
<1>1. count * BITS_PER_LONG = At(count, 0)
  BY WidthIs DEF At
<1>2. /\ count * BITS_PER_LONG \in Nat
      /\ INDEX(count * BITS_PER_LONG) = count /\ CPU_ULBIT(count * BITS_PER_LONG) = 0
  BY <1>1, AtIs, WidthIs
<1>3. ASSUME NEW x \in Nat PROVE x >= count * BITS_PER_LONG <=> INDEX(x) >= count
  <2>1. x < count * BITS_PER_LONG <=>
            INDEX(x) < count \/ (INDEX(x) = count /\ CPU_ULBIT(x) < 0)
    BY <1>2, OrderIs
  <2>2. INDEX(x) \in Nat /\ CPU_ULBIT(x) \in Nat
    BY PlaceIs, WidthIs
  <2>. QED  BY <1>2, <2>1, <2>2
<1>4. ASSUME count > 0
      PROVE  /\ count * BITS_PER_LONG - 1 \in Nat
             /\ INDEX(count * BITS_PER_LONG - 1) = count - 1
             /\ CPU_ULBIT(count * BITS_PER_LONG - 1) = BITS_PER_LONG - 1
  <2>1. count * BITS_PER_LONG - 1 = At(count - 1, BITS_PER_LONG - 1)
    BY WidthIs DEF At
  <2>2. count - 1 \in Nat
    BY <1>4
  <2>. QED  BY <2>1, <2>2, AtIs, WidthIs
<1>. QED  BY <1>2, <1>3, <1>4

(***************************************************************************)
(* Bitmaps, and the sets that they are.                                    *)
(***************************************************************************)
Record(count, ulongs, infinite) == [count |-> count, ulongs |-> ulongs, infinite |-> infinite]

Bitmaps ==
    UNION {{Record(count, ulongs, infinite) : ulongs \in [Words(count) -> SUBSET Bit], infinite \in BOOLEAN} :
              count \in 1 .. MAX_ULONGS}

\* The fields of a bitmap.
LEMMA BitmapIs ==
    ASSUME NEW b \in Bitmaps
    PROVE  /\ b = Record(b.count, b.ulongs, b.infinite)
           /\ b.count \in 1 .. MAX_ULONGS /\ b.count \in Nat \ {0} /\ MAX_ULONGS \in Nat \ {0}
           /\ b.ulongs \in [Words(b.count) -> SUBSET Bit]
           /\ b.infinite \in BOOLEAN
           /\ \A i \in Nat : READULONG(b, i) \in SUBSET Bit
<1>1. PICK count \in 1 .. MAX_ULONGS :
           \E ulongs \in [Words(count) -> SUBSET Bit], infinite \in BOOLEAN :
               b = Record(count, ulongs, infinite)
  BY DEF Bitmaps
<1>2. PICK ulongs \in [Words(count) -> SUBSET Bit], infinite \in BOOLEAN :
           b = Record(count, ulongs, infinite)
  BY <1>1
<1>3. b.count = count /\ b.ulongs = ulongs /\ b.infinite = infinite
  BY <1>2 DEF Record
<1>4. MAX_ULONGS \in Nat \ {0} /\ count \in Nat \ {0}
  BY BitmapAssumption
<1>5. \A i \in Nat : READULONG(b, i) \in SUBSET Bit
  BY <1>3, <1>4 DEF READULONG, Beyond, FULL, ZERO, Words
<1>. QED  BY <1>2, <1>3, <1>4, <1>5

\* What is a bitmap.
LEMMA RecordIs ==
    ASSUME NEW count \in 1 .. MAX_ULONGS, NEW ulongs \in [Words(count) -> SUBSET Bit],
           NEW infinite \in BOOLEAN
    PROVE  Record(count, ulongs, infinite) \in Bitmaps
BY DEF Bitmaps

\* The fields of a record.
LEMMA FieldsAre ==
    ASSUME NEW c, NEW u, NEW f
    PROVE  Record(c, u, f).count = c /\ Record(c, u, f).ulongs = u /\ Record(c, u, f).infinite = f
BY DEF Record

\* A record with other words.
WithWords(b, u2) == [b EXCEPT !.ulongs = u2]

\* ... is the record with these words.
LEMMA NewWords ==
    ASSUME NEW c, NEW u, NEW f, NEW u2
    PROVE  WithWords(Record(c, u, f), u2) = Record(c, u2, f)
BY DEF WithWords, Record

\* A record with another tail.
WithTail(b, f2) == [b EXCEPT !.infinite = f2]

\* ... is the record with this tail.
LEMMA NewTail ==
    ASSUME NEW c, NEW u, NEW f, NEW f2
    PROVE  WithTail(Record(c, u, f), f2) = Record(c, u, f2)
BY DEF WithTail, Record

\* A record with another number of words.
WithCountWords(b, c2, u2) == [b EXCEPT !.count = c2, !.ulongs = u2]

\* ... is the record with these words, and as many.
LEMMA NewCountWords ==
    ASSUME NEW c, NEW u, NEW f, NEW c2, NEW u2
    PROVE  WithCountWords(Record(c, u, f), c2, u2) = Record(c2, u2, f)
<1>1. [Record(c, u, f) EXCEPT !.count = c2] = Record(c2, u, f)
  BY DEF Record
<1>2. [Record(c2, u, f) EXCEPT !.ulongs = u2] = Record(c2, u2, f)
  BY DEF Record
<1>. QED  BY <1>1, <1>2 DEF WithCountWords

\* A record with another tail and other words, assigned in either order.
WithTailWords(b, f2, u2) == [b EXCEPT !.infinite = f2, !.ulongs = u2]

\* ... is the record with both.
LEMMA NewTailWords ==
    ASSUME NEW c, NEW u, NEW f, NEW u2, NEW f2
    PROVE  WithTailWords(Record(c, u, f), f2, u2) = Record(c, u2, f2)
<1>1. [Record(c, u, f) EXCEPT !.infinite = f2] = Record(c, u, f2)
  BY DEF Record
<1>2. [Record(c, u, f2) EXCEPT !.ulongs = u2] = Record(c, u2, f2)
  BY DEF Record
<1>. QED  BY <1>1, <1>2 DEF WithTailWords

WithWordsTail(b, u2, f2) == [b EXCEPT !.ulongs = u2, !.infinite = f2]

\* The same in the other order.
LEMMA NewWordsTail ==
    ASSUME NEW c, NEW u, NEW f, NEW u2, NEW f2
    PROVE  WithWordsTail(Record(c, u, f), u2, f2) = Record(c, u2, f2)
<1>1. [Record(c, u, f) EXCEPT !.ulongs = u2] = Record(c, u2, f)
  BY DEF Record
<1>2. [Record(c, u2, f) EXCEPT !.infinite = f2] = Record(c, u2, f2)
  BY DEF Record
<1>. QED  BY <1>1, <1>2 DEF WithWordsTail

\* The indices that a call can name, or the first of all others.
LEMMA HorizonIs ==
    /\ MAX_ULONGS \in Nat \ {0}
    /\ MAX_ULONGS * BITS_PER_LONG = At(MAX_ULONGS, 0)
    /\ At(MAX_ULONGS, 0) \in Horizon /\ Horizon \subseteq Nat /\ Cpus \subseteq Horizon
    /\ \A x \in Nat : x \in Cpus <=> INDEX(x) < MAX_ULONGS
    /\ \A x \in Horizon : x \in Cpus \/ x = At(MAX_ULONGS, 0)
    /\ INDEX(At(MAX_ULONGS, 0)) = MAX_ULONGS /\ CPU_ULBIT(At(MAX_ULONGS, 0)) = 0
    /\ \A i \in Words(MAX_ULONGS), bit \in Bit : At(i, bit) \in Cpus
<1>1. MAX_ULONGS \in Nat \ {0}
  BY BitmapAssumption
<1>2. /\ MAX_ULONGS * BITS_PER_LONG \in Nat
      /\ \A x \in Nat : x >= MAX_ULONGS * BITS_PER_LONG <=> INDEX(x) >= MAX_ULONGS
      /\ INDEX(MAX_ULONGS * BITS_PER_LONG) = MAX_ULONGS
      /\ CPU_ULBIT(MAX_ULONGS * BITS_PER_LONG) = 0
  BY <1>1, EndIs
<1>3. MAX_ULONGS * BITS_PER_LONG = At(MAX_ULONGS, 0)
  BY <1>1, WidthIs DEF At
<1>4. \A x \in Nat : INDEX(x) \in Nat
  BY PlaceIs
<1>5. \A x \in Nat : x \in Cpus <=> INDEX(x) < MAX_ULONGS
  BY <1>1, <1>2, <1>4 DEF Cpus
<1>6. Horizon \subseteq Nat /\ Cpus \subseteq Horizon /\ At(MAX_ULONGS, 0) \in Horizon
  BY <1>2, <1>3 DEF Horizon, Cpus
<1>7. \A x \in Horizon : x \in Cpus \/ x = At(MAX_ULONGS, 0)
  BY <1>2, <1>3 DEF Horizon, Cpus
<1>8. \A i \in Words(MAX_ULONGS), bit \in Bit : At(i, bit) \in Cpus
  BY <1>1, <1>5, AtIs DEF Words
<1>. QED  BY <1>1, <1>2, <1>3, <1>5, <1>6, <1>7, <1>8

\* The members of a bitmap are the indices of which the bit is set.
LEMMA MembersAre ==
    ASSUME NEW b \in Bitmaps
    PROVE  Members(b) = {x \in Horizon : IsSet(b, x)}
<1>. USE BitmapIs, HorizonIs
<1>. DEFINE c == b.count
<1>1. ASSUME NEW x \in Members(b) PROVE x \in Horizon /\ IsSet(b, x)
  <2>1. CASE \E i \in DOMAIN b.ulongs : x \in Indices(i, b.ulongs[i])
    <3>0. PICK i \in Words(c) : x \in Indices(i, b.ulongs[i])
      BY <2>1
    <3>1. PICK bit \in b.ulongs[i] : x = At(i, bit)
      BY <3>0 DEF Indices, At
    <3>2. i \in Words(MAX_ULONGS) /\ i \in Nat /\ bit \in Bit /\ i < c
      BY DEF Words
    <3>3. x \in Horizon /\ INDEX(x) = i /\ CPU_ULBIT(x) = bit
      BY <3>1, <3>2, AtIs
    <3>. QED  BY <3>1, <3>2, <3>3 DEF IsSet, READULONG
  <2>2. CASE b.infinite /\ x \in c * BITS_PER_LONG .. MAX_ULONGS * BITS_PER_LONG
    <3>1. c * BITS_PER_LONG \in Nat /\ MAX_ULONGS * BITS_PER_LONG \in Nat
      BY EndIs
    <3>2. x \in Nat /\ x \in Horizon /\ x >= c * BITS_PER_LONG
      BY <2>2, <3>1 DEF Horizon
    <3>3. INDEX(x) \in Nat /\ INDEX(x) >= c /\ CPU_ULBIT(x) \in Bit
      BY <3>2, EndIs, PlaceIs
    <3>4. ~(INDEX(x) < c)
      BY <3>3
    <3>. QED  BY <2>2, <3>2, <3>3, <3>4 DEF IsSet, READULONG, Beyond, FULL
  <2>. QED  BY <2>1, <2>2 DEF Members
<1>2. ASSUME NEW x \in Horizon, IsSet(b, x) PROVE x \in Members(b)
  <2>1. x \in Nat /\ INDEX(x) \in Nat /\ CPU_ULBIT(x) \in Bit /\ x = At(INDEX(x), CPU_ULBIT(x))
    BY PlaceIs
  <2>2. CASE INDEX(x) < c
    <3>1. INDEX(x) \in DOMAIN b.ulongs /\ CPU_ULBIT(x) \in b.ulongs[INDEX(x)]
      BY <1>2, <2>1, <2>2 DEF IsSet, READULONG, Words
    <3>2. x \in Indices(INDEX(x), b.ulongs[INDEX(x)])
      BY <2>1, <3>1 DEF Indices, At
    <3>. QED  BY <3>1, <3>2 DEF Members
  <2>3. CASE ~(INDEX(x) < c)
    <3>1. b.infinite
      BY <1>2, <2>3 DEF IsSet, READULONG, Beyond, ZERO
    <3>2. x >= c * BITS_PER_LONG
      BY <2>1, <2>3, EndIs
    <3>3. x \in c * BITS_PER_LONG .. MAX_ULONGS * BITS_PER_LONG
      BY <3>2, EndIs DEF Horizon
    <3>. QED  BY <3>1, <3>3 DEF Members
  <2>. QED  BY <2>2, <2>3
<1>. QED  BY <1>1, <1>2

\* A word and a bit name an index below the horizon.
LEMMA InHorizon ==
    ASSUME NEW x \in Horizon
    PROVE  x \in Nat /\ INDEX(x) \in Nat /\ CPU_ULBIT(x) \in Bit /\ x = At(INDEX(x), CPU_ULBIT(x))
BY HorizonIs, PlaceIs

\* A bitmap that is a given set.
Is(b, set) == b \in Bitmaps /\ Members(b) = set

\* Whether an index is a member.
LEMMA MemberIs ==
    ASSUME NEW b \in Bitmaps, NEW x \in Horizon
    PROVE  /\ x \in Members(b) <=> CPU_ULBIT(x) \in READULONG(b, INDEX(x))
           /\ x \in Members(b) <=> IF INDEX(x) < b.count THEN CPU_ULBIT(x) \in b.ulongs[INDEX(x)]
                                                         ELSE b.infinite = TRUE
<1>1. x \in Members(b) <=> CPU_ULBIT(x) \in READULONG(b, INDEX(x))
  BY MembersAre DEF IsSet
<1>. QED  BY <1>1, InHorizon, BitmapIs DEF READULONG, Beyond, FULL, ZERO

\* No member lies beyond the index that stands for all the rest.
LEMMA MembersInHorizon ==
    ASSUME NEW b \in Bitmaps
    PROVE  Members(b) \subseteq Horizon
BY MembersAre

\* A bitmap is the set that its words and its tail say.
LEMMA BuiltIs ==
    ASSUME NEW count \in 1 .. MAX_ULONGS, NEW ulongs \in [Words(count) -> SUBSET Bit],
           NEW infinite \in BOOLEAN, NEW set \in SUBSET Horizon,
           \A x \in Horizon : x \in set <=> IF INDEX(x) < count THEN CPU_ULBIT(x) \in ulongs[INDEX(x)]
                                                                ELSE infinite = TRUE
    PROVE  Is(Record(count, ulongs, infinite), set)
<1>. DEFINE b == Record(count, ulongs, infinite)
<1>1. b \in Bitmaps
  BY RecordIs
<1>2. b.count = count /\ b.ulongs = ulongs /\ b.infinite = infinite
  BY FieldsAre
<1>. HIDE DEF b
<1>3. \A x \in Horizon : x \in Members(b) <=> x \in set
  BY <1>1, <1>2, MemberIs
<1>4. Members(b) = set
  BY <1>1, <1>3, MembersInHorizon
<1>. QED  BY <1>1, <1>4 DEF b, Is

\* Growing a bitmap keeps its members.
LEMMA ReallocIs ==
    ASSUME NEW b \in Bitmaps, NEW needed \in 1 .. MAX_ULONGS, NEW new, new = Realloc(b, needed)
    PROVE  /\ new \in Bitmaps
           /\ new.count >= needed /\ new.count >= b.count /\ new.infinite = b.infinite
           /\ new.count = b.count \/ new.count = needed
           /\ \A i \in Nat : READULONG(new, i) = READULONG(b, i)
           /\ Members(new) = Members(b)
<1>. USE BitmapIs
<1>1. CASE needed <= b.count
  BY <1>1 DEF Realloc
<1>2. CASE ~(needed <= b.count)
  <2>. DEFINE u == [i \in Words(needed) |-> READULONG(b, i)]
  <2>1. new = Record(needed, u, b.infinite)
    <3>1. new = WithCountWords(b, needed, u)
      BY <1>2 DEF Realloc, WithCountWords
    <3>2. b = Record(b.count, b.ulongs, b.infinite)
      OBVIOUS
    <3>. HIDE DEF u
    <3>. QED  BY <3>1, <3>2, NewCountWords
  <2>2. u \in [Words(needed) -> SUBSET Bit] /\ DOMAIN u = Words(needed)
    BY DEF Words
  <2>3. new \in Bitmaps /\ new.count = needed /\ new.infinite = b.infinite
        /\ \A i \in Words(needed) : new.ulongs[i] = READULONG(b, i)
    <3>1. \A i \in Words(needed) : u[i] = READULONG(b, i)
      OBVIOUS
    <3>. HIDE DEF u
    <3>. QED  BY <2>1, <2>2, <3>1, RecordIs, FieldsAre
  <2>. HIDE DEF u
  <2>4. ASSUME NEW i \in Nat PROVE READULONG(new, i) = READULONG(b, i)
    <3>1. CASE i < needed
      <4>1. i \in Words(needed)
        BY <3>1 DEF Words
      <4>. QED  BY <2>3, <3>1, <4>1 DEF READULONG
    <3>2. CASE ~(i < needed)
      <4>1. ~(i < b.count)
        BY <1>2, <3>2
      <4>. QED  BY <2>3, <3>2, <4>1 DEF READULONG, Beyond
    <3>. QED  BY <3>1, <3>2
  <2>5. \A x \in Horizon : x \in Members(new) <=> x \in Members(b)
    BY <2>3, <2>4, MemberIs, InHorizon
  <2>6. Members(new) = Members(b)
    BY <2>3, <2>5, MembersInHorizon
  <2>. QED  BY <1>2, <2>3, <2>4, <2>6
<1>. QED  BY <1>1, <1>2

\* A bitmap that was reset has the words that the caller needs, and those that it
\* had before have kept their values.
LEMMA ResetIs ==
    ASSUME NEW b \in Bitmaps, NEW needed \in 1 .. MAX_ULONGS, NEW new, new = Reset(b, needed)
    PROVE  /\ new = Record(needed, new.ulongs, b.infinite)
           /\ new.count = needed /\ new.infinite = b.infinite
           /\ DOMAIN new.ulongs = Words(needed)
           /\ \A i \in Words(needed) : i < b.count => new.ulongs[i] = b.ulongs[i]
<1>. DEFINE u == [i \in Words(needed) |-> IF i < b.count THEN b.ulongs[i] ELSE Stale]
<1>1. new = Record(needed, u, b.infinite)
  <2>1. new = WithCountWords(b, needed, u)
    BY DEF Reset, WithCountWords
  <2>2. b = Record(b.count, b.ulongs, b.infinite)
    BY BitmapIs
  <2>. HIDE DEF u
  <2>. QED  BY <2>1, <2>2, NewCountWords
<1>2. new.count = needed /\ new.infinite = b.infinite /\ new.ulongs = u
  BY <1>1, FieldsAre
<1>. QED  BY <1>1, <1>2

(***************************************************************************)
(* The calls that change one bitmap, each with the set that it makes.      *)
(***************************************************************************)
LEMMA NewIs == Is(NewBitmap, {})
<1>. DEFINE u == [i \in Words(1) |-> ZERO]
<1>1. u \in [Words(1) -> SUBSET Bit] /\ \A i \in Words(1) : u[i] = ZERO
  BY DEF ZERO
<1>2. \A x \in Horizon : INDEX(x) < 1 => INDEX(x) \in Words(1)
  BY InHorizon DEF Words
<1>3. NewBitmap = Record(1, u, FALSE) /\ 1 \in 1 .. MAX_ULONGS
  BY HorizonIs DEF NewBitmap, Record
<1>. HIDE DEF u
<1>. QED  BY <1>1, <1>2, <1>3, BuiltIs DEF ZERO

\* A zeroed bitmap has no bit in its words and a finite tail, and a filled one full
\* words and an infinite tail, whatever they were before.
LEMMA ZeroIs ==
    ASSUME NEW b \in Bitmaps, NEW needed \in 1 .. MAX_ULONGS
    PROVE  /\ Zeroed(Reset(b, needed)) = Record(needed, [i \in Words(needed) |-> ZERO], FALSE)
           /\ Filled(Reset(b, needed)) = Record(needed, [i \in Words(needed) |-> FULL], TRUE)
<1>. DEFINE r == Reset(b, needed)
<1>1. r = Record(needed, r.ulongs, b.infinite) /\ DOMAIN r.ulongs = Words(needed)
  BY ResetIs
<1>. HIDE DEF r
<1>2. ASSUME NEW u, NEW f PROVE WithWordsTail(r, u, f) = Record(needed, u, f)
  BY <1>1, NewWordsTail
<1>3. Zeroed(r) = WithWordsTail(r, [i \in Words(needed) |-> ZERO], FALSE)
  BY <1>1 DEF Zeroed, WithWordsTail
<1>4. Filled(r) = WithWordsTail(r, [i \in Words(needed) |-> FULL], TRUE)
  BY <1>1 DEF Filled, WithWordsTail
<1>. QED  BY <1>2, <1>3, <1>4, Zenon DEF r

\* A record with one other word.
WithWord(b, i, word) == [b EXCEPT !.ulongs[i] = word]

\* ... is one with these words.
LEMMA NewWord ==
    ASSUME NEW c, NEW u, NEW f, NEW i, NEW word
    PROVE  WithWord(Record(c, u, f), i, word) = Record(c, [u EXCEPT ![i] = word], f)
BY DEF WithWord, Record

\* Two indices are the same when word and bit are.
LEMMA SameIndex ==
    ASSUME NEW x \in Horizon, NEW y \in Horizon
    PROVE  x = y <=> INDEX(x) = INDEX(y) /\ CPU_ULBIT(x) = CPU_ULBIT(y)
BY InHorizon

\* The word of an index that a call can name.
LEMMA NamedIs ==
    ASSUME NEW cpu \in Cpus
    PROVE  /\ cpu \in Horizon /\ cpu \in Nat /\ INDEX(cpu) \in Nat /\ INDEX(cpu) < MAX_ULONGS
           /\ INDEX(cpu) + 1 \in 1 .. MAX_ULONGS /\ INDEX(cpu) \in Words(INDEX(cpu) + 1)
           /\ CPU_ULBIT(cpu) \in Bit
<1>1. cpu \in Horizon /\ cpu \in Nat /\ INDEX(cpu) \in Nat /\ CPU_ULBIT(cpu) \in Bit
  BY HorizonIs, InHorizon
<1>2. INDEX(cpu) < MAX_ULONGS /\ MAX_ULONGS \in Nat
  BY <1>1, HorizonIs
<1>. QED  BY <1>1, <1>2 DEF Words

\* A record with one word changed is the set that differs in that word.
LEMMA WordChanged ==
    ASSUME NEW b \in Bitmaps, NEW i \in Nat, i < b.count, NEW word \in SUBSET Bit,
           NEW set \in SUBSET Horizon,
           \A x \in Horizon : x \in set <=> IF INDEX(x) = i THEN CPU_ULBIT(x) \in word
                                                           ELSE x \in Members(b)
    PROVE  Is(WithWord(b, i, word), set)
<1>. DEFINE u == [b.ulongs EXCEPT ![i] = word]
<1>. USE BitmapIs
<1>1. WithWord(b, i, word) = Record(b.count, u, b.infinite)
  <2>1. b = Record(b.count, b.ulongs, b.infinite)
    OBVIOUS
  <2>. QED  BY <2>1, NewWord
<1>2. i \in Words(b.count) /\ \A x \in Horizon : INDEX(x) < b.count => INDEX(x) \in Words(b.count)
  BY InHorizon DEF Words
<1>3. u \in [Words(b.count) -> SUBSET Bit]
      /\ \A j \in Words(b.count) : u[j] = IF j = i THEN word ELSE b.ulongs[j]
  BY <1>2
<1>. HIDE DEF u
<1>4. \A x \in Horizon : x \in set <=> IF INDEX(x) < b.count THEN CPU_ULBIT(x) \in u[INDEX(x)]
                                                              ELSE b.infinite = TRUE
  <2>. SUFFICES ASSUME NEW x \in Horizon
                PROVE  x \in set <=> IF INDEX(x) < b.count THEN CPU_ULBIT(x) \in u[INDEX(x)]
                                                            ELSE b.infinite = TRUE
    OBVIOUS
  <2>1. INDEX(x) \in Nat
    BY InHorizon
  <2>. QED  BY <1>2, <1>3, <2>1, MemberIs
<1>5. b.count \in 1 .. MAX_ULONGS /\ b.infinite \in BOOLEAN
  OBVIOUS
<1>6. Is(Record(b.count, u, b.infinite), set)
  BY ONLY <1>3, <1>4, <1>5, BuiltIs, set \in SUBSET Horizon
<1>. QED  BY ONLY <1>1, <1>6

\* hwloc_bitmap_zero and hwloc_bitmap_fill.
LEMMA ZeroCall ==
    ASSUME NEW b \in Bitmaps
    PROVE  Is(Zeroed(Reset(b, 1)), {}) /\ Is(Filled(Reset(b, 1)), Horizon)
<1>1. 1 \in 1 .. MAX_ULONGS
  BY HorizonIs
<1>2. \A x \in Horizon : INDEX(x) < 1 => INDEX(x) \in Words(1)
  BY InHorizon DEF Words
<1>3. \A u \in {[i \in Words(1) |-> ZERO], [i \in Words(1) |-> FULL]} : u \in [Words(1) -> SUBSET Bit]
  BY DEF ZERO, FULL
<1>4. Is(Record(1, [i \in Words(1) |-> ZERO], FALSE), {})
  BY <1>1, <1>2, <1>3, BuiltIs DEF ZERO
<1>5. Is(Record(1, [i \in Words(1) |-> FULL], TRUE), Horizon)
  BY <1>1, <1>2, <1>3, BuiltIs, InHorizon DEF FULL
<1>. QED  BY <1>1, <1>4, <1>5, ZeroIs

\* hwloc_bitmap_only and hwloc_bitmap_allbut: one member, and all but one.
LEMMA OnlyCall ==
    ASSUME NEW b \in Bitmaps, NEW cpu \in Cpus
    PROVE  /\ Is([Zeroed(ResetByCpu(b, cpu)) EXCEPT !.ulongs[INDEX(cpu)] = @ \cup {CPU_ULBIT(cpu)}],
                 {cpu})
           /\ Is([Filled(ResetByCpu(b, cpu)) EXCEPT !.ulongs[INDEX(cpu)] = @ \ {CPU_ULBIT(cpu)}],
                 Horizon \ {cpu})
<1>. DEFINE needed == INDEX(cpu) + 1
            z == Zeroed(ResetByCpu(b, cpu))
            f == Filled(ResetByCpu(b, cpu))
<1>. USE NamedIs
<1>1. z = Record(needed, [i \in Words(needed) |-> ZERO], FALSE)
      /\ f = Record(needed, [i \in Words(needed) |-> FULL], TRUE)
  BY ZeroIs DEF ResetByCpu
<1>. HIDE DEF z, f
<1>2. \A x \in Horizon : INDEX(x) < needed => INDEX(x) \in Words(needed)
  BY InHorizon DEF Words
<1>3. Is(z, {})
  <2>1. [i \in Words(needed) |-> ZERO] \in [Words(needed) -> SUBSET Bit]
    BY DEF ZERO
  <2>. QED  BY <1>1, <1>2, <2>1, BuiltIs DEF ZERO
<1>4. Is(f, Horizon)
  <2>1. [i \in Words(needed) |-> FULL] \in [Words(needed) -> SUBSET Bit]
    BY DEF FULL
  <2>. QED  BY <1>1, <1>2, <2>1, BuiltIs, InHorizon, ZenonT(30) DEF FULL
<1>5. z.count = needed /\ z.ulongs[INDEX(cpu)] = ZERO /\ f.count = needed /\ f.ulongs[INDEX(cpu)] = FULL
  <2>1. ASSUME NEW b2, NEW u, NEW t, b2 = Record(needed, u, t) PROVE b2.count = needed /\ b2.ulongs = u
    BY <2>1, FieldsAre
  <2>2. z.count = needed /\ z.ulongs = [i \in Words(needed) |-> ZERO]
    BY <1>1, <2>1, Zenon
  <2>3. f.count = needed /\ f.ulongs = [i \in Words(needed) |-> FULL]
    BY <1>1, <2>1, Zenon
  <2>. QED  BY <2>2, <2>3
<1>6. Is(WithWord(z, INDEX(cpu), {CPU_ULBIT(cpu)}), {cpu})
  <2>1. \A x \in Horizon : x \in {cpu} <=> IF INDEX(x) = INDEX(cpu) THEN CPU_ULBIT(x) \in {CPU_ULBIT(cpu)}
                                                                   ELSE x \in Members(z)
    BY <1>3, SameIndex DEF Is
  <2>2. z \in Bitmaps /\ INDEX(cpu) < z.count /\ {CPU_ULBIT(cpu)} \in SUBSET Bit /\ {cpu} \in SUBSET Horizon
    BY <1>3, <1>5 DEF Is
  <2>. QED  BY <2>1, <2>2, WordChanged
<1>7. Is(WithWord(f, INDEX(cpu), FULL \ {CPU_ULBIT(cpu)}), Horizon \ {cpu})
  <2>1. \A x \in Horizon : x \in Horizon \ {cpu} <=>
            IF INDEX(x) = INDEX(cpu) THEN CPU_ULBIT(x) \in FULL \ {CPU_ULBIT(cpu)} ELSE x \in Members(f)
    BY <1>4, SameIndex, InHorizon DEF Is, FULL
  <2>2. f \in Bitmaps /\ INDEX(cpu) < f.count /\ FULL \ {CPU_ULBIT(cpu)} \in SUBSET Bit
    BY <1>4, <1>5 DEF Is, FULL
  <2>. QED  BY <2>1, <2>2, WordChanged
<1>8. [z EXCEPT !.ulongs[INDEX(cpu)] = @ \cup {CPU_ULBIT(cpu)}] = WithWord(z, INDEX(cpu), {CPU_ULBIT(cpu)})
  <2>1. z.ulongs[INDEX(cpu)] \cup {CPU_ULBIT(cpu)} = {CPU_ULBIT(cpu)}
    BY <1>5 DEF ZERO
  <2>. QED  BY <2>1 DEF WithWord
<1>9. [f EXCEPT !.ulongs[INDEX(cpu)] = @ \ {CPU_ULBIT(cpu)}]
          = WithWord(f, INDEX(cpu), FULL \ {CPU_ULBIT(cpu)})
  BY <1>5 DEF WithWord
<1>. QED  BY <1>6, <1>7, <1>8, <1>9 DEF z, f

\* A bitmap with other words, and maybe another tail, is the set that these say.
LEMMA WordsChanged ==
    ASSUME NEW b \in Bitmaps, NEW u \in [Words(b.count) -> SUBSET Bit], NEW f \in BOOLEAN,
           NEW set \in SUBSET Horizon,
           \A x \in Horizon : x \in set <=> IF INDEX(x) < b.count THEN CPU_ULBIT(x) \in u[INDEX(x)]
                                                                  ELSE f = TRUE
    PROVE  /\ Is(WithTailWords(b, f, u), set)
           /\ Is(WithWordsTail(b, u, f), set)
           /\ f = b.infinite => Is(WithWords(b, u), set)
<1>1. b = Record(b.count, b.ulongs, b.infinite) /\ b.count \in 1 .. MAX_ULONGS
  BY BitmapIs
<1>2. Is(Record(b.count, u, f), set)
  BY <1>1, BuiltIs
<1>3. /\ WithTailWords(b, f, u) = Record(b.count, u, f)
      /\ WithWordsTail(b, u, f) = Record(b.count, u, f)
      /\ WithWords(b, u) = Record(b.count, u, b.infinite)
  BY <1>1, NewTailWords, NewWordsTail, NewWords
<1>. QED  BY <1>2, <1>3

\* The words of a bitmap, and the indices of its members in them.
LEMMA WordOf ==
    ASSUME NEW b \in Bitmaps, NEW x \in Horizon
    PROVE  /\ INDEX(x) < b.count => INDEX(x) \in Words(b.count)
           /\ INDEX(x) \in Words(b.count) => INDEX(x) < b.count
           /\ INDEX(x) < b.count => (x \in Members(b) <=> CPU_ULBIT(x) \in b.ulongs[INDEX(x)])
           /\ ~(INDEX(x) < b.count) => (x \in Members(b) <=> b.infinite = TRUE)
<1>1. INDEX(x) \in Nat /\ b.count \in Nat
  BY InHorizon, BitmapIs
<1>2. INDEX(x) \in Words(b.count) <=> INDEX(x) < b.count
  BY <1>1 DEF Words
<1>. QED  BY <1>2, MemberIs

\* Where an index lies in relation to the words.
LEMMA BeyondIs ==
    ASSUME NEW b \in Bitmaps, NEW x \in Nat
    PROVE  InBeyond(b, x) <=> ~(INDEX(x) < b.count)
BY BitmapIs, EndIs, PlaceIs DEF InBeyond

\* hwloc_bitmap_set: one member more, whether the array has to grow, or the tail has
\* it already.
LEMMA SetCall ==
    ASSUME NEW b \in Bitmaps, NEW cpu \in Cpus
    PROVE  Is(WithCpu(b, cpu), Members(b) \cup {cpu})
<1>. USE NamedIs
<1>1. CASE b.infinite /\ InBeyond(b, cpu)
  <2>1. cpu \in Members(b)
    BY <1>1, BeyondIs, WordOf
  <2>. QED  BY <1>1, <2>1 DEF WithCpu, Is
<1>2. CASE ~(b.infinite /\ InBeyond(b, cpu))
  <2>. DEFINE r == ReallocByCpu(b, cpu)
              word == r.ulongs[INDEX(cpu)] \cup {CPU_ULBIT(cpu)}
  <2>1. r \in Bitmaps /\ r.count >= INDEX(cpu) + 1 /\ Members(r) = Members(b)
    BY ReallocIs DEF ReallocByCpu
  <2>. HIDE DEF r
  <2>2. INDEX(cpu) < r.count /\ INDEX(cpu) \in Words(r.count) /\ word \in SUBSET Bit
    BY <2>1, BitmapIs DEF Words
  <2>3. \A x \in Horizon : x \in Members(b) \cup {cpu} <=>
            IF INDEX(x) = INDEX(cpu) THEN CPU_ULBIT(x) \in word ELSE x \in Members(r)
    BY <2>1, <2>2, SameIndex, WordOf
  <2>4. Is(WithWord(r, INDEX(cpu), word), Members(b) \cup {cpu})
    <3>1. Members(b) \cup {cpu} \in SUBSET Horizon
      BY MembersInHorizon
    <3>. HIDE DEF word
    <3>. QED  BY <2>1, <2>2, <2>3, <3>1, WordChanged
  <2>5. WithCpu(b, cpu) = WithWord(r, INDEX(cpu), word)
    BY <1>2 DEF WithCpu, WithWord, r
  <2>. QED  BY <2>4, <2>5
<1>. QED  BY <1>1, <1>2

\* hwloc_bitmap_clr: one member less.
LEMMA ClrCall ==
    ASSUME NEW b \in Bitmaps, NEW cpu \in Cpus
    PROVE  Is(WithoutCpu(b, cpu), Members(b) \ {cpu})
<1>. USE NamedIs
<1>1. CASE ~b.infinite /\ InBeyond(b, cpu)
  <2>1. cpu \notin Members(b)
    BY <1>1, BeyondIs, WordOf
  <2>. QED  BY <1>1, <2>1 DEF WithoutCpu, Is
<1>2. CASE ~(~b.infinite /\ InBeyond(b, cpu))
  <2>. DEFINE r == ReallocByCpu(b, cpu)
              word == r.ulongs[INDEX(cpu)] \ {CPU_ULBIT(cpu)}
  <2>1. r \in Bitmaps /\ r.count >= INDEX(cpu) + 1 /\ Members(r) = Members(b)
    BY ReallocIs DEF ReallocByCpu
  <2>. HIDE DEF r
  <2>2. INDEX(cpu) < r.count /\ INDEX(cpu) \in Words(r.count) /\ word \in SUBSET Bit
    BY <2>1, BitmapIs DEF Words
  <2>3. \A x \in Horizon : x \in Members(b) \ {cpu} <=>
            IF INDEX(x) = INDEX(cpu) THEN CPU_ULBIT(x) \in word ELSE x \in Members(r)
    BY <2>1, <2>2, SameIndex, WordOf
  <2>4. Is(WithWord(r, INDEX(cpu), word), Members(b) \ {cpu})
    <3>1. Members(b) \ {cpu} \in SUBSET Horizon
      BY MembersInHorizon
    <3>. HIDE DEF word
    <3>. QED  BY <2>1, <2>2, <2>3, <3>1, WordChanged
  <2>5. WithoutCpu(b, cpu) = WithWord(r, INDEX(cpu), word)
    BY <1>2 DEF WithoutCpu, WithWord, r
  <2>. QED  BY <2>4, <2>5
<1>. QED  BY <1>1, <1>2

\* The bits of a range of indices, word by word.
LEMMA RangeIs ==
    ASSUME NEW x \in Nat, NEW p \in Nat, NEW q \in Nat
    PROVE  p <= x /\ x <= q <=>
               INDEX(x) \in INDEX(p) .. INDEX(q) /\ CPU_ULBIT(x) \in FromTo(INDEX(x), p, q)
<1>1. /\ INDEX(x) \in Nat /\ INDEX(p) \in Nat /\ INDEX(q) \in Nat
      /\ CPU_ULBIT(x) \in Bit /\ CPU_ULBIT(p) \in Bit /\ CPU_ULBIT(q) \in Bit
  BY PlaceIs
<1>2. CPU_ULBIT(x) \in FromTo(INDEX(x), p, q) <=>
          /\ INDEX(x) = INDEX(p) => CPU_ULBIT(x) >= CPU_ULBIT(p)
          /\ INDEX(x) = INDEX(q) => CPU_ULBIT(x) <= CPU_ULBIT(q)
  BY <1>1, WidthIs DEF FromTo, ULBIT_FROM, ULBIT_TO, FULL, Bit
<1>3. (x < p <=> INDEX(x) < INDEX(p) \/ (INDEX(x) = INDEX(p) /\ CPU_ULBIT(x) < CPU_ULBIT(p)))
      /\ (q < x <=> INDEX(q) < INDEX(x) \/ (INDEX(q) = INDEX(x) /\ CPU_ULBIT(q) < CPU_ULBIT(x)))
  BY OrderIs
<1>4. CPU_ULBIT(x) \in Nat /\ CPU_ULBIT(p) \in Nat /\ CPU_ULBIT(q) \in Nat
  BY <1>1, WidthIs
<1>. QED  BY <1>1, <1>2, <1>3, <1>4

\* A range that is cut at the end of the words has the same part in them.
LEMMA CutIs ==
    ASSUME NEW b \in Bitmaps, NEW p \in Cpus, NEW q \in Cpus, p <= q, NEW infinite \in BOOLEAN,
           ~(infinite /\ InBeyond(b, p)), NEW end, end = Cut(b, q, infinite)
    PROVE  /\ end \in Cpus /\ p <= end
           /\ \A x \in Horizon : (INDEX(x) < b.count \/ ~infinite) => (x <= end <=> x <= q)
           /\ ~infinite => end = q
           /\ infinite => INDEX(end) < b.count
<1>. USE NamedIs, HorizonIs
<1>1. CASE infinite /\ InBeyond(b, q)
  <2>1. b.count \in Nat \ {0} /\ b.count <= MAX_ULONGS
    BY BitmapIs
  <2>2. end = b.count * BITS_PER_LONG - 1
    BY <1>1 DEF Cut
  <2>3. end \in Nat /\ INDEX(end) = b.count - 1 /\ b.count * BITS_PER_LONG \in Nat
    BY <2>1, <2>2, EndIs, SMTT(30)
  <2>4. \A x \in Nat : x <= end <=> INDEX(x) < b.count
    <3>. SUFFICES ASSUME NEW x \in Nat PROVE x <= end <=> INDEX(x) < b.count
      OBVIOUS
    <3>1. x >= b.count * BITS_PER_LONG <=> INDEX(x) >= b.count
      BY <2>1, EndIs
    <3>2. INDEX(x) \in Nat
      BY PlaceIs
    <3>. QED  BY <2>1, <2>2, <2>3, <3>1, <3>2
  <2>5. INDEX(p) < b.count /\ ~(INDEX(q) < b.count)
    BY <1>1, BeyondIs
  <2>6. end < q
    BY <2>3, <2>4, <2>5
  <2>7. INDEX(end) < b.count /\ end \in Cpus
    BY <2>1, <2>3
  <2>8. p <= end
    BY <2>4, <2>5
  <2>9. \A x \in Horizon : INDEX(x) < b.count => (x <= end <=> x <= q)
    BY <2>3, <2>4, <2>6
  <2>. QED  BY <1>1, <2>7, <2>8, <2>9
<1>2. CASE ~(infinite /\ InBeyond(b, q))
  <2>1. end = q
    BY <1>2 DEF Cut
  <2>. QED  BY <1>2, <2>1, BeyondIs
<1>. QED  BY <1>1, <1>2

\* A range of indices that calls can name has no others.
LEMMA RangeInHorizon ==
    ASSUME NEW p \in Cpus, NEW q \in Cpus
    PROVE  (p .. q) \subseteq Horizon
<1>1. MAX_ULONGS * BITS_PER_LONG \in Nat
  BY HorizonIs, EndIs
<1>. QED  BY <1>1 DEF Horizon, Cpus

\* What a call on a range of indices makes of a bitmap.
RangeSet(b, begincpu, endcpu) ==
    LET end == Cut(b, endcpu, b.infinite)
    IN  IF endcpu < begincpu \/ (b.infinite /\ InBeyond(b, begincpu)) THEN b
        ELSE [ReallocByCpu(b, end) EXCEPT !.ulongs =
                 [i \in DOMAIN @ |->
                     IF i \in INDEX(begincpu) .. INDEX(end)
                     THEN @[i] \cup FromTo(i, begincpu, end) ELSE @[i]]]

RangeCleared(b, begincpu, endcpu) ==
    LET end == Cut(b, endcpu, ~b.infinite)
    IN  IF endcpu < begincpu \/ (~b.infinite /\ InBeyond(b, begincpu)) THEN b
        ELSE [ReallocByCpu(b, end) EXCEPT !.ulongs =
                 [i \in DOMAIN @ |->
                     IF i \in INDEX(begincpu) .. INDEX(end)
                     THEN @[i] \ FromTo(i, begincpu, end) ELSE @[i]]]

\* hwloc_bitmap_set_range with an end.
LEMMA SetRangeCall ==
    ASSUME NEW b \in Bitmaps, NEW p \in Cpus, NEW q \in Cpus
    PROVE  Is(RangeSet(b, p, q), Members(b) \cup (p .. q))
<1>. USE NamedIs
<1>0. b.infinite \in BOOLEAN
  BY BitmapIs
<1>1. CASE q < p
  BY <1>1 DEF RangeSet, Is
<1>2. CASE ~(q < p) /\ b.infinite /\ InBeyond(b, p)
  <2>1. p .. q \subseteq Members(b)
    <3>. SUFFICES ASSUME NEW x \in p .. q PROVE x \in Members(b)
      OBVIOUS
    <3>1. x \in Nat /\ x \in Horizon
      BY RangeInHorizon, InHorizon
    <3>2. p >= b.count * BITS_PER_LONG /\ b.count * BITS_PER_LONG \in Nat
      BY <1>2, BitmapIs, EndIs DEF InBeyond
    <3>3. InBeyond(b, x)
      BY <3>1, <3>2 DEF InBeyond
    <3>. QED  BY <1>2, <3>1, <3>3, BeyondIs, WordOf
  <2>. QED  BY <1>2, <2>1 DEF RangeSet, Is
<1>3. CASE ~(q < p) /\ ~(b.infinite /\ InBeyond(b, p))
  <2>. DEFINE end == Cut(b, q, b.infinite)
              r == ReallocByCpu(b, end)
              u == [i \in DOMAIN r.ulongs |-> IF i \in INDEX(p) .. INDEX(end)
                                              THEN r.ulongs[i] \cup FromTo(i, p, end) ELSE r.ulongs[i]]
              set == Members(b) \cup (p .. q)
  <2>0. p <= q
    BY <1>3
  <2>1. /\ end \in Cpus /\ p <= end
        /\ \A x \in Horizon : (INDEX(x) < b.count \/ ~b.infinite) => (x <= end <=> x <= q)
        /\ ~b.infinite => end = q
        /\ b.infinite => INDEX(end) < b.count
    BY <1>0, <1>3, <2>0, CutIs
  <2>2. /\ r \in Bitmaps /\ r.count >= INDEX(end) + 1 /\ r.count >= b.count /\ Members(r) = Members(b)
        /\ r.infinite = b.infinite /\ (r.count = b.count \/ r.count = INDEX(end) + 1)
    BY <2>1, ReallocIs DEF ReallocByCpu
  <2>3. RangeSet(b, p, q) = WithWords(r, u)
    BY <1>3 DEF RangeSet, WithWords
  <2>. HIDE DEF r, end
  <2>4. /\ DOMAIN r.ulongs = Words(r.count) /\ r.count \in Nat /\ b.count \in Nat
        /\ \A i \in Words(r.count) : r.ulongs[i] \in SUBSET Bit
    BY <2>2, BitmapIs
  <2>5. u \in [Words(r.count) -> SUBSET Bit]
    BY <2>4 DEF FromTo, ULBIT_FROM, ULBIT_TO, FULL, Bit
  <2>6. ASSUME NEW x \in Horizon
        PROVE  x \in set <=> IF INDEX(x) < r.count THEN CPU_ULBIT(x) \in u[INDEX(x)]
                                                   ELSE r.infinite = TRUE
    <3>1. x \in Nat /\ INDEX(x) \in Nat /\ p \in Nat /\ q \in Nat /\ end \in Nat
      BY <2>1, InHorizon
    <3>2. CASE INDEX(x) < r.count
      <4>1. INDEX(x) \in Words(r.count) /\ (x \in Members(b) <=> CPU_ULBIT(x) \in r.ulongs[INDEX(x)])
        BY <2>2, <3>2, WordOf
      <4>2. CPU_ULBIT(x) \in u[INDEX(x)] <=> x \in Members(b) \/ (p <= x /\ x <= end)
        BY <2>4, <3>1, <4>1, RangeIs
      <4>3. x \in Members(b) \/ (x <= end <=> x <= q)
        <5>1. CASE INDEX(x) < b.count \/ ~b.infinite
          BY <2>1, <5>1
        <5>2. CASE ~(INDEX(x) < b.count) /\ b.infinite
          BY <1>0, <5>2, WordOf
        <5>. QED  BY <5>1, <5>2
      <4>. QED  BY <3>1, <3>2, <4>2, <4>3
    <3>3. CASE ~(INDEX(x) < r.count)
      <4>1. x \in Members(b) <=> r.infinite = TRUE
        BY <2>2, <3>3, WordOf
      <4>2. ~b.infinite => ~(x <= q)
        <5>. SUFFICES ASSUME ~b.infinite, x <= q PROVE FALSE
          OBVIOUS
        <5>1. end = q /\ INDEX(q) < INDEX(x)
          BY <2>1, <2>2, <2>4, <3>1, <3>3
        <5>. QED  BY <3>1, <5>1, OrderIs
      <4>. QED  BY <1>0, <2>2, <3>1, <3>3, <4>1, <4>2
    <3>. QED  BY <3>2, <3>3
  <2>7. set \in SUBSET Horizon
    BY MembersInHorizon, RangeInHorizon
  <2>. HIDE DEF u, set
  <2>8. Is(WithWords(r, u), set)
    BY <1>0, <2>2, <2>5, <2>6, <2>7, WordsChanged
  <2>. QED  BY <2>3, <2>8 DEF set
<1>. QED  BY <1>1, <1>2, <1>3

\* hwloc_bitmap_clr_range with an end.
LEMMA ClrRangeCall ==
    ASSUME NEW b \in Bitmaps, NEW p \in Cpus, NEW q \in Cpus
    PROVE  Is(RangeCleared(b, p, q), Members(b) \ (p .. q))
<1>. USE NamedIs
<1>0. b.infinite \in BOOLEAN
  BY BitmapIs
<1>1. CASE q < p
  BY <1>1 DEF RangeCleared, Is
<1>2. CASE ~(q < p) /\ ~b.infinite /\ InBeyond(b, p)
  <2>1. (p .. q) \cap Members(b) = {}
    <3>. SUFFICES ASSUME NEW x \in p .. q PROVE x \notin Members(b)
      OBVIOUS
    <3>1. x \in Nat /\ x \in Horizon
      BY RangeInHorizon, InHorizon
    <3>2. p >= b.count * BITS_PER_LONG /\ b.count * BITS_PER_LONG \in Nat
      BY <1>2, BitmapIs, EndIs DEF InBeyond
    <3>3. InBeyond(b, x)
      BY <3>1, <3>2 DEF InBeyond
    <3>. QED  BY <1>2, <3>1, <3>3, BeyondIs, WordOf
  <2>. QED  BY <1>2, <2>1 DEF RangeCleared, Is
<1>3. CASE ~(q < p) /\ ~(~b.infinite /\ InBeyond(b, p))
  <2>. DEFINE end == Cut(b, q, ~b.infinite)
              r == ReallocByCpu(b, end)
              u == [i \in DOMAIN r.ulongs |-> IF i \in INDEX(p) .. INDEX(end)
                                              THEN r.ulongs[i] \ FromTo(i, p, end) ELSE r.ulongs[i]]
              set == Members(b) \ (p .. q)
  <2>0. p <= q
    BY <1>3
  <2>1. /\ end \in Cpus /\ p <= end
        /\ \A x \in Horizon : (INDEX(x) < b.count \/ b.infinite) => (x <= end <=> x <= q)
        /\ b.infinite => end = q
        /\ ~b.infinite => INDEX(end) < b.count
    <3>1. CASE b.infinite
      <4>1. end = q
        BY <3>1 DEF Cut
      <4>. QED  BY <2>0, <3>1, <4>1
    <3>2. CASE ~b.infinite
      <4>1. end = Cut(b, q, TRUE)
        BY <3>2, Zenon DEF Cut
      <4>2. ~InBeyond(b, p)
        BY <1>3, <3>2
      <4>. HIDE DEF end
      <4>. QED  BY <2>0, <3>2, <4>1, <4>2, CutIs, ZenonT(30)
    <3>. QED  BY <3>1, <3>2
  <2>2. /\ r \in Bitmaps /\ r.count >= INDEX(end) + 1 /\ r.count >= b.count /\ Members(r) = Members(b)
        /\ r.infinite = b.infinite /\ (r.count = b.count \/ r.count = INDEX(end) + 1)
    BY <2>1, ReallocIs, SMTT(30) DEF ReallocByCpu
  <2>3. RangeCleared(b, p, q) = WithWords(r, u)
    BY <1>3 DEF RangeCleared, WithWords
  <2>. HIDE DEF r, end
  <2>4. /\ DOMAIN r.ulongs = Words(r.count) /\ r.count \in Nat /\ b.count \in Nat
        /\ \A i \in Words(r.count) : r.ulongs[i] \in SUBSET Bit
    BY <2>2, BitmapIs
  <2>5. u \in [Words(r.count) -> SUBSET Bit]
    BY <2>4 DEF FromTo, ULBIT_FROM, ULBIT_TO, FULL, Bit
  <2>6. ASSUME NEW x \in Horizon
        PROVE  x \in set <=> IF INDEX(x) < r.count THEN CPU_ULBIT(x) \in u[INDEX(x)]
                                                   ELSE r.infinite = TRUE
    <3>1. x \in Nat /\ INDEX(x) \in Nat /\ p \in Nat /\ q \in Nat /\ end \in Nat
      BY <2>1, InHorizon
    <3>2. CASE INDEX(x) < r.count
      <4>1. INDEX(x) \in Words(r.count) /\ (x \in Members(b) <=> CPU_ULBIT(x) \in r.ulongs[INDEX(x)])
        BY <2>2, <3>2, WordOf
      <4>2. CPU_ULBIT(x) \in u[INDEX(x)] <=> x \in Members(b) /\ ~(p <= x /\ x <= end)
        BY <2>4, <3>1, <4>1, RangeIs
      <4>3. x \notin Members(b) \/ (x <= end <=> x <= q)
        <5>1. CASE INDEX(x) < b.count \/ b.infinite
          BY <2>1, <5>1
        <5>2. CASE ~(INDEX(x) < b.count) /\ ~b.infinite
          BY <1>0, <5>2, WordOf
        <5>. QED  BY <5>1, <5>2
      <4>. QED  BY <3>1, <3>2, <4>2, <4>3
    <3>3. CASE ~(INDEX(x) < r.count)
      <4>1. x \in Members(b) <=> r.infinite = TRUE
        BY <2>2, <3>3, WordOf
      <4>2. b.infinite => ~(x <= q)
        <5>. SUFFICES ASSUME b.infinite, x <= q PROVE FALSE
          OBVIOUS
        <5>1. end = q /\ INDEX(q) < INDEX(x)
          BY <2>1, <2>2, <2>4, <3>1, <3>3
        <5>. QED  BY <3>1, <5>1, OrderIs
      <4>. QED  BY <1>0, <2>2, <3>1, <3>3, <4>1, <4>2
    <3>. QED  BY <3>2, <3>3
  <2>7. set \in SUBSET Horizon
    BY MembersInHorizon, RangeInHorizon
  <2>. HIDE DEF u, set
  <2>8. Is(WithWords(r, u), set)
    BY <1>0, <2>2, <2>5, <2>6, <2>7, WordsChanged
  <2>. QED  BY <2>3, <2>8 DEF set
<1>. QED  BY <1>1, <1>2, <1>3

\* What a call on all indices from one on makes of a bitmap.
SetUp(b, begincpu) ==
    IF b.infinite /\ InBeyond(b, begincpu) THEN b
    ELSE [ReallocByCpu(b, begincpu) EXCEPT
             !.infinite = TRUE,
             !.ulongs =
                 [i \in DOMAIN @ |->
                     CASE i < INDEX(begincpu) -> @[i]
                       [] i = INDEX(begincpu) -> @[i] \cup ULBIT_FROM(CPU_ULBIT(begincpu))
                       [] i > INDEX(begincpu) -> FULL]]

ClearedUp(b, begincpu) ==
    IF ~b.infinite /\ InBeyond(b, begincpu) THEN b
    ELSE [ReallocByCpu(b, begincpu) EXCEPT
             !.infinite = FALSE,
             !.ulongs =
                 [i \in DOMAIN @ |->
                     CASE i < INDEX(begincpu) -> @[i]
                       [] i = INDEX(begincpu) -> @[i] \ ULBIT_FROM(CPU_ULBIT(begincpu))
                       [] i > INDEX(begincpu) -> ZERO]]

\* hwloc_bitmap_set_range without an end.
LEMMA SetFromCall ==
    ASSUME NEW b \in Bitmaps, NEW p \in Cpus
    PROVE  Is(SetUp(b, p), Members(b) \cup {x \in Horizon : x >= p})
<1>. USE NamedIs
<1>1. CASE b.infinite /\ InBeyond(b, p)
  <2>1. ASSUME NEW x \in Horizon, x >= p PROVE x \in Members(b)
    <3>1. x \in Nat /\ b.count * BITS_PER_LONG \in Nat /\ p >= b.count * BITS_PER_LONG
      BY <1>1, BitmapIs, EndIs, InHorizon DEF InBeyond
    <3>2. InBeyond(b, x)
      BY <2>1, <3>1 DEF InBeyond
    <3>. QED  BY <1>1, <3>1, <3>2, BeyondIs, WordOf
  <2>. QED  BY <1>1, <2>1 DEF SetUp, Is
<1>2. CASE ~(b.infinite /\ InBeyond(b, p))
  <2>. DEFINE r == ReallocByCpu(b, p)
              u == [i \in DOMAIN r.ulongs |->
                       CASE i < INDEX(p) -> r.ulongs[i]
                         [] i = INDEX(p) -> r.ulongs[i] \cup ULBIT_FROM(CPU_ULBIT(p))
                         [] i > INDEX(p) -> FULL]
              set == Members(b) \cup {x \in Horizon : x >= p}
  <2>1. r \in Bitmaps /\ r.count >= INDEX(p) + 1 /\ Members(r) = Members(b)
    BY ReallocIs DEF ReallocByCpu
  <2>2. SetUp(b, p) = WithTailWords(r, TRUE, u)
    BY <1>2 DEF SetUp, WithTailWords
  <2>. HIDE DEF r
  <2>3. /\ DOMAIN r.ulongs = Words(r.count) /\ r.count \in Nat
        /\ \A i \in Words(r.count) : r.ulongs[i] \in SUBSET Bit /\ i \in Nat
    BY <2>1, BitmapIs, SMTT(30) DEF Words
  <2>4. /\ \A i \in Words(r.count) : i < INDEX(p) => u[i] = r.ulongs[i]
        /\ \A i \in Words(r.count) : i = INDEX(p) => u[i] = r.ulongs[i] \cup ULBIT_FROM(CPU_ULBIT(p))
        /\ \A i \in Words(r.count) : i > INDEX(p) => u[i] = FULL
        /\ DOMAIN u = Words(r.count) /\ u = [i \in Words(r.count) |-> u[i]]
    BY <2>3
  <2>. HIDE DEF u
  <2>5. u \in [Words(r.count) -> SUBSET Bit]
    <3>1. ULBIT_FROM(CPU_ULBIT(p)) \in SUBSET Bit
      BY DEF ULBIT_FROM, Bit
    <3>2. ASSUME NEW i \in Words(r.count) PROVE u[i] \in SUBSET Bit
      BY <2>3, <2>4, <3>1 DEF FULL
    <3>. QED  BY <2>4, <3>2
  <2>6. ASSUME NEW x \in Horizon
        PROVE  x \in set <=> IF INDEX(x) < r.count THEN CPU_ULBIT(x) \in u[INDEX(x)] ELSE TRUE
    <3>1. x \in Nat /\ INDEX(x) \in Nat /\ CPU_ULBIT(x) \in Nat /\ CPU_ULBIT(p) \in Nat
          /\ CPU_ULBIT(x) \in Bit
      BY InHorizon, WidthIs
    <3>2. x >= p <=> INDEX(x) > INDEX(p) \/ (INDEX(x) = INDEX(p) /\ CPU_ULBIT(x) >= CPU_ULBIT(p))
      BY <3>1, OrderIs
    <3>3. CPU_ULBIT(x) \in ULBIT_FROM(CPU_ULBIT(p)) <=> CPU_ULBIT(x) >= CPU_ULBIT(p)
      BY <3>1, WidthIs DEF ULBIT_FROM, Bit
    <3>4. CASE INDEX(x) < r.count
      <4>1. INDEX(x) \in Words(r.count) /\ (x \in Members(b) <=> CPU_ULBIT(x) \in r.ulongs[INDEX(x)])
        BY <2>1, <3>4, WordOf
      <4>. QED  BY <2>4, <3>1, <3>2, <3>3, <3>4, <4>1 DEF FULL
    <3>5. CASE ~(INDEX(x) < r.count)
      BY <2>1, <2>3, <3>1, <3>2, <3>5
    <3>. QED  BY <3>4, <3>5
  <2>7. set \in SUBSET Horizon
    BY MembersInHorizon
  <2>. HIDE DEF set
  <2>8. Is(WithTailWords(r, TRUE, u), set)
    BY <2>1, <2>5, <2>6, <2>7, WordsChanged
  <2>. QED  BY <2>2, <2>8 DEF set
<1>. QED  BY <1>1, <1>2

\* hwloc_bitmap_clr_range without an end.
LEMMA ClrFromCall ==
    ASSUME NEW b \in Bitmaps, NEW p \in Cpus
    PROVE  Is(ClearedUp(b, p), {x \in Members(b) : x < p})
<1>. USE NamedIs
<1>1. CASE ~b.infinite /\ InBeyond(b, p)
  <2>1. ASSUME NEW x \in Horizon, x >= p PROVE x \notin Members(b)
    <3>1. x \in Nat /\ b.count * BITS_PER_LONG \in Nat /\ p >= b.count * BITS_PER_LONG
      BY <1>1, BitmapIs, EndIs, InHorizon DEF InBeyond
    <3>2. InBeyond(b, x)
      BY <2>1, <3>1 DEF InBeyond
    <3>. QED  BY <1>1, <3>1, <3>2, BeyondIs, WordOf
  <2>2. \A x \in Members(b) : x \in Horizon /\ x \in Nat
    BY MembersInHorizon, InHorizon
  <2>. QED  BY <1>1, <2>1, <2>2 DEF ClearedUp, Is
<1>2. CASE ~(~b.infinite /\ InBeyond(b, p))
  <2>. DEFINE r == ReallocByCpu(b, p)
              u == [i \in DOMAIN r.ulongs |->
                       CASE i < INDEX(p) -> r.ulongs[i]
                         [] i = INDEX(p) -> r.ulongs[i] \ ULBIT_FROM(CPU_ULBIT(p))
                         [] i > INDEX(p) -> ZERO]
              set == {x \in Members(b) : x < p}
  <2>1. r \in Bitmaps /\ r.count >= INDEX(p) + 1 /\ Members(r) = Members(b)
    BY ReallocIs DEF ReallocByCpu
  <2>2. ClearedUp(b, p) = WithTailWords(r, FALSE, u)
    BY <1>2 DEF ClearedUp, WithTailWords
  <2>. HIDE DEF r
  <2>3. /\ DOMAIN r.ulongs = Words(r.count) /\ r.count \in Nat
        /\ \A i \in Words(r.count) : r.ulongs[i] \in SUBSET Bit /\ i \in Nat
    BY <2>1, BitmapIs, SMTT(30) DEF Words
  <2>4. /\ \A i \in Words(r.count) : i < INDEX(p) => u[i] = r.ulongs[i]
        /\ \A i \in Words(r.count) : i = INDEX(p) => u[i] = r.ulongs[i] \ ULBIT_FROM(CPU_ULBIT(p))
        /\ \A i \in Words(r.count) : i > INDEX(p) => u[i] = ZERO
        /\ DOMAIN u = Words(r.count) /\ u = [i \in Words(r.count) |-> u[i]]
    BY <2>3
  <2>. HIDE DEF u
  <2>5. u \in [Words(r.count) -> SUBSET Bit]
    <3>1. ULBIT_FROM(CPU_ULBIT(p)) \in SUBSET Bit
      BY DEF ULBIT_FROM, Bit
    <3>2. ASSUME NEW i \in Words(r.count) PROVE u[i] \in SUBSET Bit
      BY <2>3, <2>4, <3>1 DEF ZERO
    <3>. QED  BY <2>4, <3>2
  <2>6. ASSUME NEW x \in Horizon
        PROVE  x \in set <=> IF INDEX(x) < r.count THEN CPU_ULBIT(x) \in u[INDEX(x)] ELSE FALSE
    <3>1. x \in Nat /\ INDEX(x) \in Nat /\ CPU_ULBIT(x) \in Nat /\ CPU_ULBIT(p) \in Nat
          /\ CPU_ULBIT(x) \in Bit
      BY InHorizon, WidthIs
    <3>2. x >= p <=> INDEX(x) > INDEX(p) \/ (INDEX(x) = INDEX(p) /\ CPU_ULBIT(x) >= CPU_ULBIT(p))
      BY <3>1, OrderIs
    <3>3. CPU_ULBIT(x) \in ULBIT_FROM(CPU_ULBIT(p)) <=> CPU_ULBIT(x) >= CPU_ULBIT(p)
      BY <3>1, WidthIs DEF ULBIT_FROM, Bit
    <3>4. CASE INDEX(x) < r.count
      <4>1. INDEX(x) \in Words(r.count) /\ (x \in Members(b) <=> CPU_ULBIT(x) \in r.ulongs[INDEX(x)])
        BY <2>1, <3>4, WordOf
      <4>. QED  BY <2>4, <3>1, <3>2, <3>3, <3>4, <4>1 DEF ZERO
    <3>5. CASE ~(INDEX(x) < r.count)
      BY <2>1, <2>3, <3>1, <3>2, <3>5
    <3>. QED  BY <3>4, <3>5
  <2>7. set \in SUBSET Horizon
    BY MembersInHorizon
  <2>. HIDE DEF set
  <2>8. Is(WithTailWords(r, FALSE, u), set)
    BY <2>1, <2>5, <2>6, <2>7, WordsChanged
  <2>. QED  BY <2>2, <2>8 DEF set
<1>. QED  BY <1>1, <1>2

\* The indices of the bits of a word.
LEMMA IndicesAre ==
    ASSUME NEW i \in Words(MAX_ULONGS), NEW word \in SUBSET Bit
    PROVE  Indices(i, word) = {x \in Horizon : INDEX(x) = i /\ CPU_ULBIT(x) \in word}
<1>1. i \in Nat
  BY HorizonIs DEF Words
<1>2. Indices(i, word) = {At(i, bit) : bit \in word}
  BY DEF Indices, At
<1>3. ASSUME NEW bit \in word
      PROVE  At(i, bit) \in Horizon /\ INDEX(At(i, bit)) = i /\ CPU_ULBIT(At(i, bit)) = bit
  BY <1>1, AtIs, HorizonIs
<1>. QED  BY <1>2, <1>3, InHorizon

\* hwloc_bitmap_from_ith_ulong: the indices of that word, and no others.
LEMMA AssignCall ==
    ASSUME NEW b \in Bitmaps, NEW i \in Words(MAX_ULONGS), NEW mask \in SUBSET Bit
    PROVE  Is([Reset(b, i + 1) EXCEPT !.infinite = FALSE,
                                      !.ulongs = [j \in DOMAIN @ |-> IF j = i THEN mask ELSE ZERO]],
              Indices(i, mask))
<1>. DEFINE r == Reset(b, i + 1)
            u == [j \in Words(i + 1) |-> IF j = i THEN mask ELSE ZERO]
            set == Indices(i, mask)
<1>1. i + 1 \in 1 .. MAX_ULONGS /\ i \in Nat
  BY HorizonIs DEF Words
<1>2. r = Record(i + 1, r.ulongs, b.infinite) /\ DOMAIN r.ulongs = Words(i + 1)
  BY <1>1, ResetIs
<1>3. [Reset(b, i + 1) EXCEPT !.infinite = FALSE,
                              !.ulongs = [j \in DOMAIN @ |-> IF j = i THEN mask ELSE ZERO]]
          = WithTailWords(r, FALSE, u)
  BY <1>2 DEF WithTailWords
<1>. HIDE DEF r
<1>4. WithTailWords(r, FALSE, u) = Record(i + 1, u, FALSE)
  <2>. HIDE DEF u
  <2>1. \A t : WithTailWords(r, t, u) = Record(i + 1, u, t)
    BY <1>2, NewTailWords
  <2>. QED  BY <2>1, Zenon
<1>5. u \in [Words(i + 1) -> SUBSET Bit] /\ u[i] = mask /\ \A j \in Words(i + 1) : j # i => u[j] = ZERO
  BY <1>1 DEF ZERO, Words
<1>. HIDE DEF u
<1>6. \A x \in Horizon : x \in set <=> IF INDEX(x) < i + 1 THEN CPU_ULBIT(x) \in u[INDEX(x)] ELSE FALSE
  <2>. SUFFICES ASSUME NEW x \in Horizon
                PROVE  x \in set <=> IF INDEX(x) < i + 1 THEN CPU_ULBIT(x) \in u[INDEX(x)] ELSE FALSE
    OBVIOUS
  <2>1. INDEX(x) \in Nat /\ (INDEX(x) < i + 1 => INDEX(x) \in Words(i + 1))
    BY InHorizon, <1>1 DEF Words
  <2>. QED  BY <1>1, <1>5, <2>1, IndicesAre DEF ZERO
<1>7. set \in SUBSET Horizon
  BY IndicesAre
<1>. HIDE DEF set
<1>8. Is(Record(i + 1, u, FALSE), set)
  BY <1>1, <1>5, <1>6, <1>7, BuiltIs
<1>. QED  BY <1>3, <1>4, <1>8 DEF set

\* hwloc_bitmap_set_ith_ulong: the other words keep theirs.
LEMMA ReplaceCall ==
    ASSUME NEW b \in Bitmaps, NEW i \in Words(MAX_ULONGS), NEW mask \in SUBSET Bit
    PROVE  Is([Realloc(b, i + 1) EXCEPT !.ulongs[i] = mask],
              (Members(b) \ Indices(i, FULL)) \cup Indices(i, mask))
<1>. DEFINE r == Realloc(b, i + 1)
            set == (Members(b) \ Indices(i, FULL)) \cup Indices(i, mask)
<1>1. i + 1 \in 1 .. MAX_ULONGS /\ i \in Nat
  BY HorizonIs DEF Words
<1>2. r \in Bitmaps /\ r.count >= i + 1 /\ Members(r) = Members(b)
  BY <1>1, ReallocIs
<1>3. [Realloc(b, i + 1) EXCEPT !.ulongs[i] = mask] = WithWord(r, i, mask)
  BY DEF WithWord
<1>. HIDE DEF r
<1>4. set \in SUBSET Horizon
  BY MembersInHorizon, IndicesAre
<1>5. \A x \in Horizon : x \in set <=> IF INDEX(x) = i THEN CPU_ULBIT(x) \in mask ELSE x \in Members(r)
  BY <1>2, IndicesAre, InHorizon DEF FULL
<1>6. i < r.count
  BY <1>1, <1>2, BitmapIs
<1>. HIDE DEF set
<1>7. Is(WithWord(r, i, mask), set)
  BY <1>1, <1>2, <1>4, <1>5, <1>6, WordChanged
<1>. QED  BY <1>3, <1>7 DEF set

(***************************************************************************)
(* The searches for the first and the last member.                         *)
(***************************************************************************)
\* The least and the greatest element of a set of numbers.
LEMMA ExtremesAre ==
    ASSUME NEW S \in SUBSET Nat, NEW m \in S
    PROVE  /\ (\A x \in S : m <= x) => Min(S) = m
           /\ (\A x \in S : x <= m) => Max(S) = m
<1>0. \A x, y \in S : x <= y /\ y <= x => x = y
  OBVIOUS
<1>1. ASSUME \A x \in S : m <= x PROVE Min(S) = m
  <2>1. Min(S) \in S /\ \A x \in S : Min(S) <= x
    BY <1>1 DEF Min
  <2>2. Min(S) <= m /\ m <= Min(S)
    BY <1>1, <2>1
  <2>. QED  BY <1>0, <2>1, <2>2, Zenon
<1>2. ASSUME \A x \in S : x <= m PROVE Max(S) = m
  <2>1. Max(S) \in S /\ \A x \in S : Max(S) >= x
    <3>1. \E y \in S : \A x \in S : y >= x
      BY <1>2
    <3>. QED  BY <3>1 DEF Max
  <2>. HIDE DEF Max
  <2>2. \A x \in S : m >= x /\ (x >= m => m <= x)
    BY <1>2
  <2>3. Max(S) <= m /\ m <= Max(S)
    BY <1>2, <2>1, <2>2, Zenon
  <2>. QED  BY <1>0, <2>1, <2>3, Zenon
<1>. QED  BY <1>1, <1>2

\* Of the words from some one on, those with a bit.
LEMMA NonZeroIs ==
    ASSUME NEW lo \in Nat, NEW count \in Nat, NEW u \in [lo .. count - 1 -> SUBSET Bit]
    PROVE  /\ NonZero(u) \in SUBSET (lo .. count - 1) /\ NonZero(u) \in SUBSET Nat
           /\ \A i \in lo .. count - 1 : i \in NonZero(u) <=> u[i] # {}
BY DEF NonZero, ZERO

\* The indices that are members by words from some one on, or by the tail.
MembersBy(lo, count, u, infinite) ==
    {x \in Horizon : \/ INDEX(x) \in lo .. count - 1 /\ CPU_ULBIT(x) \in u[INDEX(x)]
                     \/ INDEX(x) >= count /\ infinite = TRUE}

\* The first word with a bit, and the first index of which the bit is set.
Hit(u) == Min(NonZero(u))
HitAt(u) == At(Hit(u), Min(u[Hit(u)]))

Found(lo, count, u, infinite, s) ==
    /\ NonZero(u) # {} =>
           /\ Hit(u) \in lo .. count - 1 /\ Min(u[Hit(u)]) \in u[Hit(u)]
           /\ HitAt(u) \in s /\ Min(s) = HitAt(u)
    /\ NonZero(u) = {} /\ infinite = TRUE => count * BITS_PER_LONG \in s /\ Min(s) = count * BITS_PER_LONG
    /\ NonZero(u) = {} /\ infinite = FALSE => s = {}

\* The first index that is set, in the words or else in the tail, is the least of all.
LEMMA FirstIs ==
    ASSUME NEW lo \in Nat, NEW count \in Nat, count <= MAX_ULONGS, lo <= count,
           NEW u \in [lo .. count - 1 -> SUBSET Bit], NEW infinite \in BOOLEAN,
           NEW s, s = MembersBy(lo, count, u, infinite)
    PROVE  Found(lo, count, u, infinite, s)
<1>. USE HorizonIs
<1>0. s \in SUBSET Nat /\ s \in SUBSET Horizon
  BY InHorizon DEF MembersBy
<1>1. ASSUME NonZero(u) # {}
      PROVE  /\ Hit(u) \in lo .. count - 1 /\ Min(u[Hit(u)]) \in u[Hit(u)]
             /\ HitAt(u) \in s /\ Min(s) = HitAt(u)
  <2>. DEFINE hit == Hit(u)
              m == Min(u[hit])
              first == At(hit, m)
  <2>1. hit \in NonZero(u) /\ \A i \in NonZero(u) : hit <= i
    BY <1>1, NonZeroIs, MinIs DEF Hit
  <2>. HIDE DEF hit
  <2>2. hit \in lo .. count - 1 /\ u[hit] # {} /\ u[hit] \in SUBSET Nat /\ u[hit] \in SUBSET Bit
    BY <2>1, NonZeroIs, WidthIs
  <2>3. m \in u[hit] /\ \A bit \in u[hit] : m <= bit
    BY <2>2, MinIs
  <2>. HIDE DEF m
  <2>4. first \in Horizon /\ first \in Nat /\ INDEX(first) = hit /\ CPU_ULBIT(first) = m
    <3>1. hit \in Nat /\ m \in Bit /\ hit \in Words(MAX_ULONGS)
      BY <2>2, <2>3 DEF Words
    <3>. QED  BY <3>1, AtIs
  <2>. HIDE DEF first
  <2>5. first \in s
    BY <2>2, <2>3, <2>4 DEF MembersBy
  <2>6. ASSUME NEW x \in s PROVE first <= x
    <3>1. x \in Nat /\ INDEX(x) \in Nat /\ CPU_ULBIT(x) \in Nat /\ m \in Nat
      BY <1>0, <2>2, <2>3, InHorizon, WidthIs
    <3>2. INDEX(x) >= hit
      BY <2>1, <2>2, <3>1, NonZeroIs DEF MembersBy
    <3>3. INDEX(x) = hit => CPU_ULBIT(x) >= m
      BY <2>2, <2>3, <3>1 DEF MembersBy
    <3>. QED  BY <2>2, <2>4, <3>1, <3>2, <3>3, OrderIs
  <2>7. Min(s) = first
    BY <1>0, <2>5, <2>6, ExtremesAre
  <2>. QED  BY <2>2, <2>3, <2>5, <2>7 DEF first, m, hit, HitAt
<1>2. ASSUME NonZero(u) = {} PROVE \A x \in s : INDEX(x) >= count /\ infinite = TRUE
  BY <1>2, NonZeroIs DEF MembersBy
<1>3. ASSUME NonZero(u) = {}, infinite = TRUE
      PROVE  count * BITS_PER_LONG \in s /\ Min(s) = count * BITS_PER_LONG
  <2>. DEFINE first == count * BITS_PER_LONG
  <2>1. first \in Nat /\ INDEX(first) = count /\ \A x \in Nat : x >= first <=> INDEX(x) >= count
    BY EndIs
  <2>2. first \in Horizon
    <3>1. first = At(count, 0)
      BY WidthIs DEF At
    <3>2. CASE count < MAX_ULONGS
      BY <3>1, <3>2, WidthIs DEF Words
    <3>. QED  BY <3>1, <3>2
  <2>. HIDE DEF first
  <2>3. first \in s
    BY <1>3, <2>1, <2>2 DEF MembersBy
  <2>4. \A x \in s : first <= x
    BY <1>0, <1>2, <1>3, <2>1
  <2>5. Min(s) = first
    BY <1>0, <2>3, <2>4, ExtremesAre
  <2>. QED  BY <2>3, <2>5 DEF first
<1>. QED  BY <1>1, <1>2, <1>3 DEF Found

\* A bitmap as its words and its tail, for the searches.
LEMMA SearchedIs ==
    ASSUME NEW b \in Bitmaps
    PROVE  /\ b.count \in Nat \ {0} /\ b.count <= MAX_ULONGS /\ b.infinite \in BOOLEAN
           /\ b.ulongs \in [0 .. b.count - 1 -> SUBSET Bit]
           /\ Members(b) = MembersBy(0, b.count, b.ulongs, b.infinite)
<1>1. /\ b.count \in Nat \ {0} /\ b.count <= MAX_ULONGS /\ b.infinite \in BOOLEAN
      /\ b.ulongs \in [0 .. b.count - 1 -> SUBSET Bit]
  BY BitmapIs DEF Words
<1>2. ASSUME NEW x \in Horizon
      PROVE  x \in Members(b) <=> x \in MembersBy(0, b.count, b.ulongs, b.infinite)
  <2>1. INDEX(x) \in Nat
    BY InHorizon
  <2>2. CASE INDEX(x) < b.count
    <3>1. INDEX(x) \in 0 .. b.count - 1 /\ ~(INDEX(x) >= b.count)
      BY <1>1, <2>1, <2>2
    <3>. QED  BY <2>2, <3>1, WordOf DEF MembersBy
  <2>3. CASE ~(INDEX(x) < b.count)
    <3>1. INDEX(x) \notin 0 .. b.count - 1 /\ INDEX(x) >= b.count
      BY <1>1, <2>1, <2>3
    <3>. QED  BY <2>3, <3>1, WordOf DEF MembersBy
  <2>. QED  BY <2>2, <2>3
<1>3. MembersBy(0, b.count, b.ulongs, b.infinite) \subseteq Horizon
  BY DEF MembersBy
<1>. QED  BY <1>1, <1>2, <1>3, MembersInHorizon

\* hwloc_bitmap_singlify keeps the least member.
LEMMA SinglifyCall ==
    ASSUME NEW b \in Bitmaps, Singlified(b).count <= MAX_ULONGS
    PROVE  Is(Singlified(b), IF Members(b) = {} THEN {} ELSE {Min(Members(b))})
<1>. DEFINE c == b.count
            u == b.ulongs
            s == Members(b)
            hit == Hit(u)
            first == HitAt(u)
<1>1. /\ c \in Nat \ {0} /\ c <= MAX_ULONGS /\ b.infinite \in BOOLEAN
      /\ u \in [0 .. c - 1 -> SUBSET Bit] /\ u \in [Words(c) -> SUBSET Bit]
      /\ s = MembersBy(0, c, u, b.infinite) /\ s \in SUBSET Horizon
      /\ b = Record(c, u, b.infinite)
  BY SearchedIs, BitmapIs, MembersInHorizon
<1>2. /\ NonZero(u) # {} =>
             /\ hit \in 0 .. c - 1 /\ Min(u[hit]) \in u[hit]
             /\ first \in s /\ Min(s) = first
      /\ NonZero(u) = {} /\ b.infinite = TRUE => c * BITS_PER_LONG \in s /\ Min(s) = c * BITS_PER_LONG
      /\ NonZero(u) = {} /\ b.infinite = FALSE => s = {}
  <2>. HIDE DEF c, u, s
  <2>1. 0 \in Nat /\ 0 <= c /\ c \in Nat
    BY <1>1
  <2>2. \A f \in BOOLEAN : s = MembersBy(0, c, u, f) => Found(0, c, u, f, s)
    BY <1>1, <2>1, FirstIs
  <2>. QED  BY <1>1, <2>2 DEF Found
<1>. HIDE DEF s
<1>3. CASE NonZero(u) # {}
  <2>. DEFINE u2 == [i \in DOMAIN u |-> IF i = hit THEN {Min(u[i])} ELSE ZERO]
  <2>1. Singlified(b) = WithTailWords(b, FALSE, u2)
    BY <1>3 DEF Singlified, WithTailWords, Hit
  <2>2. hit \in Words(c) /\ hit \in Nat /\ hit < c /\ Min(u[hit]) \in Bit
    BY <1>1, <1>2, <1>3 DEF Words
  <2>3. u2 \in [Words(c) -> SUBSET Bit] /\ u2[hit] = {Min(u[hit])}
        /\ \A i \in Words(c) : i # hit => u2[i] = {}
    BY <1>1, <2>2 DEF ZERO
  <2>4. INDEX(first) = hit /\ CPU_ULBIT(first) = Min(u[hit]) /\ first \in Horizon
    BY <1>1, <1>2, <1>3, <2>2, AtIs DEF HitAt
  <2>. HIDE DEF u2, hit, first, u
  <2>5. \A x \in Horizon : x \in {first} <=> IF INDEX(x) < c THEN CPU_ULBIT(x) \in u2[INDEX(x)] ELSE FALSE
    <3>. SUFFICES ASSUME NEW x \in Horizon
                  PROVE  x \in {first} <=> IF INDEX(x) < c THEN CPU_ULBIT(x) \in u2[INDEX(x)] ELSE FALSE
      OBVIOUS
    <3>1. INDEX(x) < c => INDEX(x) \in Words(c)
      BY WordOf
    <3>2. x \in {first} <=> INDEX(x) = hit /\ CPU_ULBIT(x) \in u2[hit]
      BY <2>3, <2>4, SameIndex
    <3>. QED  BY <2>2, <2>3, <3>1, <3>2
  <2>6. Is(WithTailWords(b, FALSE, u2), {first})
    BY <2>3, <2>4, <2>5, WordsChanged
  <2>. QED  BY <1>2, <1>3, <2>1, <2>6 DEF s
<1>4. CASE NonZero(u) = {} /\ b.infinite = TRUE
  <2>. DEFINE t == WithTail(b, FALSE)
              cpu == c * BITS_PER_LONG
              r == ReallocByCpu(t, cpu)
  <2>1. PICK f : f = FALSE /\ t = Record(c, u, f)
    <3>1. \A f : WithTail(b, f) = Record(c, u, f)
      BY <1>1, NewTail
    <3>. QED  BY <3>1, Zenon
  <2>2. \A i \in Words(c) : u[i] = {}
    BY <1>1, <1>4 DEF NonZero, ZERO
  <2>3. Is(t, {})
    <3>1. \A x \in Horizon : x \in {} <=> IF INDEX(x) < c THEN CPU_ULBIT(x) \in u[INDEX(x)] ELSE f = TRUE
      BY <2>1, <2>2, WordOf
    <3>2. {} \in SUBSET Horizon
      OBVIOUS
    <3>3. c \in 1 .. MAX_ULONGS
      BY BitmapIs
    <3>. HIDE DEF c, u, t
    <3>. QED  BY <1>1, <2>1, <3>1, <3>2, <3>3, BuiltIs
  <2>4. Singlified(b) = WithCpu(t, cpu)
    BY <1>4 DEF Singlified, WithTail
  <2>5. t.count = c /\ t.infinite = FALSE
    <3>. HIDE DEF t
    <3>. QED  BY <2>1, FieldsAre
  <2>6. cpu \in Nat /\ INDEX(cpu) = c
    BY <1>1, EndIs
  <2>7. Singlified(b).count = c + 1
    <3>1. WithCpu(t, cpu) = WithWord(r, c, r.ulongs[c] \cup {CPU_ULBIT(cpu)})
      BY <2>5, <2>6 DEF WithCpu, WithWord
    <3>2. r = WithCountWords(t, c + 1, [i \in Words(c + 1) |-> READULONG(t, i)])
      <4>1. ~(c + 1 <= t.count)
        <5>. HIDE DEF t, c
        <5>. QED  BY <1>1, <2>5
      <4>. HIDE DEF t, cpu
      <4>. QED  BY <2>6, <4>1 DEF ReallocByCpu, Realloc, WithCountWords
    <3>3. \A v : WithCountWords(t, c + 1, v) = Record(c + 1, v, f)
      <4>. HIDE DEF t
      <4>. QED  BY <2>1, NewCountWords
    <3>4. \E v : r = Record(c + 1, v, f)
      BY <3>2, <3>3
    <3>. HIDE DEF r, t, cpu
    <3>5. \E v : WithCpu(t, cpu) = Record(c + 1, v, f)
      <4>1. PICK v : r = Record(c + 1, v, f)
        BY <3>4
      <4>. DEFINE w == r.ulongs[c] \cup {CPU_ULBIT(cpu)}
      <4>. HIDE DEF w
      <4>2. WithWord(r, c, w) = Record(c + 1, [v EXCEPT ![c] = w], f)
        BY <4>1, NewWord
      <4>. QED  BY <3>1, <4>2 DEF w
    <3>. QED  BY <2>4, <3>5, FieldsAre
  <2>8. cpu \in Cpus
    BY <1>1, <2>6, <2>7, HorizonIs
  <2>. HIDE DEF t, cpu
  <2>9. Is(WithCpu(t, cpu), {} \cup {cpu})
    BY <2>3, <2>8, SetCall DEF Is
  <2>. QED  BY <1>2, <1>4, <2>4, <2>9 DEF s, cpu
<1>5. CASE NonZero(u) = {} /\ b.infinite = FALSE
  BY <1>2, <1>5 DEF Singlified, Is, s
<1>. QED  BY <1>1, <1>3, <1>4, <1>5

(***************************************************************************)
(* The calls that combine bitmaps, and may write over an operand.          *)
(***************************************************************************)
AllBitmaps == bitmap \in [Name -> Bitmaps]

WithReset(res, needed) == [bitmap EXCEPT ![res] = Reset(@, needed)]

\* After the result was reset, the words of an operand are those of before, also
\* if it is the result.
LEMMA AfterReset ==
    ASSUME AllBitmaps, NEW res \in Name, NEW set \in Name, NEW needed \in 1 .. MAX_ULONGS,
           needed >= bitmap[set].count,
           NEW reset, reset = WithReset(res, needed)
    PROVE  /\ reset[res] = Record(needed, reset[res].ulongs, bitmap[res].infinite)
           /\ DOMAIN reset[res].ulongs = Words(needed)
           /\ reset[set].infinite = bitmap[set].infinite
           /\ Words(bitmap[set].count) \subseteq DOMAIN reset[set].ulongs
           /\ \A i \in Words(bitmap[set].count) : reset[set].ulongs[i] = bitmap[set].ulongs[i]
<1>1. bitmap[res] \in Bitmaps /\ bitmap[set] \in Bitmaps
  BY DEF AllBitmaps
<1>. DEFINE r == Reset(bitmap[res], needed)
<1>2. reset[res] = r /\ (set # res => reset[set] = bitmap[set])
  BY DEF AllBitmaps, WithReset
<1>3. /\ r = Record(needed, r.ulongs, bitmap[res].infinite) /\ r.infinite = bitmap[res].infinite
      /\ DOMAIN r.ulongs = Words(needed)
      /\ \A i \in Words(needed) : i < bitmap[res].count => r.ulongs[i] = bitmap[res].ulongs[i]
  BY <1>1, ResetIs
<1>. HIDE DEF r
<1>4. /\ bitmap[set].count \in Nat /\ DOMAIN bitmap[set].ulongs = Words(bitmap[set].count)
      /\ \A i \in Words(bitmap[set].count) : i < bitmap[set].count
      /\ Words(bitmap[set].count) \subseteq Words(needed)
  BY <1>1, BitmapIs DEF Words
<1>5. CASE set = res
  BY <1>2, <1>3, <1>4, <1>5
<1>6. CASE set # res
  BY <1>2, <1>3, <1>4, <1>6
<1>. QED  BY <1>5, <1>6

\* What a call makes of the bitmap for its result and another one.
Copied(dst, src) ==
    LET count == bitmap[src].count
        reset == [bitmap EXCEPT ![dst] = Reset(@, count)]
    IN  [reset[dst] EXCEPT !.ulongs = [i \in DOMAIN @ |-> reset[src].ulongs[i]],
                           !.infinite = reset[src].infinite]

Negation(res, set) ==
    LET count == bitmap[set].count
        reset == [bitmap EXCEPT ![res] = Reset(@, count)]
    IN  [reset[res] EXCEPT !.ulongs = [i \in DOMAIN @ |-> FULL \ reset[set].ulongs[i]],
                           !.infinite = ~reset[set].infinite]

\* hwloc_bitmap_copy, also onto itself.
LEMMA CopyCall ==
    ASSUME AllBitmaps, NEW dst \in Name, NEW src \in Name
    PROVE  Is(Copied(dst, src), Members(bitmap[src]))
<1>. DEFINE b == bitmap[src]
            reset == WithReset(dst, b.count)
            w == [i \in Words(b.count) |-> reset[src].ulongs[i]]
<1>1. b \in Bitmaps /\ b.count \in 1 .. MAX_ULONGS /\ b.infinite \in BOOLEAN /\ b.count >= b.count
      /\ b.ulongs \in [Words(b.count) -> SUBSET Bit]
  BY BitmapIs DEF AllBitmaps
<1>2. /\ reset[dst] = Record(b.count, reset[dst].ulongs, bitmap[dst].infinite)
      /\ DOMAIN reset[dst].ulongs = Words(b.count)
      /\ reset[src].infinite = b.infinite
      /\ \A i \in Words(b.count) : reset[src].ulongs[i] = b.ulongs[i]
  <2>. HIDE DEF b
  <2>. QED  BY <1>1, AfterReset DEF b
<1>3. Copied(dst, src) = WithWordsTail(reset[dst], w, reset[src].infinite)
  BY <1>2 DEF Copied, WithWordsTail, WithReset
<1>. HIDE DEF reset
<1>4. w \in [Words(b.count) -> SUBSET Bit] /\ \A i \in Words(b.count) : w[i] = b.ulongs[i]
  BY <1>1, <1>2
<1>. HIDE DEF w, b
<1>5. Copied(dst, src) = Record(b.count, w, b.infinite)
  BY <1>2, <1>3, NewWordsTail
<1>6. \A x \in Horizon : x \in Members(b) <=> IF INDEX(x) < b.count THEN CPU_ULBIT(x) \in w[INDEX(x)]
                                                                     ELSE b.infinite = TRUE
  BY <1>1, <1>4, WordOf
<1>7. Members(b) \in SUBSET Horizon
  BY <1>1, MembersInHorizon
<1>8. Is(Record(b.count, w, b.infinite), Members(b))
  BY <1>1, <1>4, <1>6, <1>7, BuiltIs
<1>. QED  BY <1>5, <1>8 DEF b

\* hwloc_bitmap_not, also onto its operand.
LEMMA NotCall ==
    ASSUME AllBitmaps, NEW res \in Name, NEW set \in Name
    PROVE  Is(Negation(res, set), Horizon \ Members(bitmap[set]))
<1>. DEFINE b == bitmap[set]
            reset == WithReset(res, b.count)
            w == [i \in Words(b.count) |-> FULL \ reset[set].ulongs[i]]
<1>1. b \in Bitmaps /\ b.count \in 1 .. MAX_ULONGS /\ b.infinite \in BOOLEAN /\ b.count >= b.count
      /\ b.ulongs \in [Words(b.count) -> SUBSET Bit]
  BY BitmapIs DEF AllBitmaps
<1>2. /\ reset[res] = Record(b.count, reset[res].ulongs, bitmap[res].infinite)
      /\ DOMAIN reset[res].ulongs = Words(b.count)
      /\ reset[set].infinite = b.infinite
      /\ \A i \in Words(b.count) : reset[set].ulongs[i] = b.ulongs[i]
  <2>. HIDE DEF b
  <2>. QED  BY <1>1, AfterReset DEF b
<1>3. \E f \in BOOLEAN : /\ f = TRUE <=> b.infinite = FALSE
                         /\ Negation(res, set) = WithWordsTail(reset[res], w, f)
  <2>1. Negation(res, set) = WithWordsTail(reset[res], w, ~reset[set].infinite)
    BY <1>2 DEF Negation, WithWordsTail, WithReset
  <2>. HIDE DEF reset, w, b
  <2>2. CASE b.infinite = TRUE
    <3>1. (~reset[set].infinite) = FALSE
      BY <1>2, <2>2
    <3>. QED  BY <2>1, <2>2, <3>1
  <2>3. CASE b.infinite = FALSE
    <3>1. (~reset[set].infinite) = TRUE
      BY <1>2, <2>3
    <3>. QED  BY <2>1, <2>3, <3>1
  <2>. QED  BY <1>1, <2>2, <2>3
<1>. HIDE DEF reset
<1>4. w \in [Words(b.count) -> SUBSET Bit] /\ \A i \in Words(b.count) : w[i] = Bit \ b.ulongs[i]
  BY <1>1, <1>2 DEF FULL
<1>. HIDE DEF w, b
<1>5. PICK f \in BOOLEAN : (f = TRUE <=> b.infinite = FALSE) /\ Negation(res, set) = Record(b.count, w, f)
  BY <1>2, <1>3, NewWordsTail
<1>6. \A x \in Horizon : x \in Horizon \ Members(b) <=>
          IF INDEX(x) < b.count THEN CPU_ULBIT(x) \in w[INDEX(x)] ELSE f = TRUE
  BY <1>1, <1>4, <1>5, WordOf, InHorizon
<1>7. Is(Record(b.count, w, f), Horizon \ Members(b))
  <2>1. Horizon \ Members(b) \in SUBSET Horizon
    OBVIOUS
  <2>. DEFINE set2 == Horizon \ Members(b)
  <2>. HIDE DEF set2
  <2>2. \A x \in Horizon : x \in set2 <=>
            IF INDEX(x) < b.count THEN CPU_ULBIT(x) \in w[INDEX(x)] ELSE f = TRUE
    BY <1>6 DEF set2
  <2>3. set2 \in SUBSET Horizon
    BY <2>1 DEF set2
  <2>4. Is(Record(b.count, w, f), set2)
    BY <1>1, <1>4, <2>2, <2>3, BuiltIs
  <2>. QED  BY <2>4 DEF set2
<1>. QED  BY <1>5, <1>7 DEF b

\* The operands of a combination, as the call finds them after the reset.
LEMMA OperandsAre ==
    ASSUME AllBitmaps, NEW res \in Name, NEW set1 \in Name, NEW set2 \in Name,
           NEW o, o = Operands(res, set1, set2),
           NEW b1, b1 = bitmap[set1], NEW b2, b2 = bitmap[set2]
    PROVE  /\ b1 \in Bitmaps /\ b2 \in Bitmaps
           /\ o.most = (IF b1.count > b2.count THEN b1.count ELSE b2.count)
           /\ o.least = (IF b1.count > b2.count THEN b2.count ELSE b1.count)
           /\ o.longest1 <=> b1.count > b2.count
           /\ o.longest2 <=> b2.count > b1.count
           /\ Words(b1.count) \subseteq DOMAIN o.words1 /\ Words(b2.count) \subseteq DOMAIN o.words2
           /\ \A i \in Words(b1.count) : o.words1[i] = b1.ulongs[i]
           /\ \A i \in Words(b2.count) : o.words2[i] = b2.ulongs[i]
<1>. DEFINE most == IF b1.count > b2.count THEN b1.count ELSE b2.count
            reset == WithReset(res, most)
<1>1. b1 \in Bitmaps /\ b2 \in Bitmaps
  BY DEF AllBitmaps
<1>2. b1.count \in 1 .. MAX_ULONGS /\ b2.count \in 1 .. MAX_ULONGS
  BY <1>1, BitmapIs
<1>3. most \in 1 .. MAX_ULONGS /\ most >= b1.count /\ most >= b2.count
  BY <1>2
<1>4. /\ o.words1 = reset[set1].ulongs /\ o.words2 = reset[set2].ulongs
      /\ o.most = most /\ o.least = b1.count + b2.count - most
      /\ o.longest1 = (b1.count > b2.count) /\ o.longest2 = (b2.count > b1.count)
  BY DEF Operands, WithReset
<1>5. /\ Words(b1.count) \subseteq DOMAIN reset[set1].ulongs
      /\ \A i \in Words(b1.count) : reset[set1].ulongs[i] = b1.ulongs[i]
  <2>. HIDE DEF most
  <2>. QED  BY <1>3, AfterReset
<1>6. /\ Words(b2.count) \subseteq DOMAIN reset[set2].ulongs
      /\ \A i \in Words(b2.count) : reset[set2].ulongs[i] = b2.ulongs[i]
  <2>. HIDE DEF most
  <2>. QED  BY <1>3, AfterReset
<1>7. o.least = (IF b1.count > b2.count THEN b2.count ELSE b1.count)
  BY <1>2, <1>4
<1>. HIDE DEF reset
<1>. QED  BY <1>1, <1>4, <1>5, <1>6, <1>7

\* The result of a combination, when the words, the rest and the tail are those of
\* the set that is meant.
Result(o, both, rest, dropped, infinite) ==
    Record(Cardinality(DOMAIN Combined(o, both, rest, dropped)), Combined(o, both, rest, dropped), infinite)

\* The words of a combination, and its tail, make the set that they say, also when the
\* words of the longer operand were dropped because they equal what is beyond them.
LEMMA CombinedIs ==
    ASSUME NEW o, NEW both, NEW rest, NEW dropped \in BOOLEAN, NEW infinite \in BOOLEAN,
           NEW set \in SUBSET Horizon,
           o.least \in 1 .. MAX_ULONGS, o.most \in 1 .. MAX_ULONGS, o.least <= o.most,
           \A i \in Words(o.least) : both[i] \in SUBSET Bit,
           \A x \in Horizon : INDEX(x) < o.least => (x \in set <=> CPU_ULBIT(x) \in both[INDEX(x)]),
           dropped = FALSE => \A i \in Words(o.most) : i >= o.least => rest[i] \in SUBSET Bit,
           dropped = FALSE => \A x \in Horizon : INDEX(x) >= o.least /\ INDEX(x) < o.most =>
                                  (x \in set <=> CPU_ULBIT(x) \in rest[INDEX(x)]),
           \A x \in Horizon : INDEX(x) >= (IF dropped = TRUE THEN o.least ELSE o.most) =>
                                  (x \in set <=> infinite = TRUE)
    PROVE  Is(Result(o, both, rest, dropped, infinite), set)
<1>. DEFINE n == IF dropped = TRUE THEN o.least ELSE o.most
            w == [i \in Words(n) |-> IF i < o.least THEN both[i] ELSE rest[i]]
<1>1. n \in 1 .. MAX_ULONGS /\ n \in Nat /\ o.least \in Nat /\ o.least <= n
  OBVIOUS
<1>2. Combined(o, both, rest, dropped) = w
  BY DEF Combined
<1>3. Cardinality(DOMAIN w) = n
  <2>1. DOMAIN w = 0 .. n - 1 /\ n - 1 \in Int /\ 0 \in Int /\ ~(0 > n - 1)
    BY <1>1 DEF Words
  <2>2. Cardinality(0 .. n - 1) = n - 1 - 0 + 1
    BY <2>1, FS_Interval
  <2>. HIDE DEF n, w
  <2>. QED  BY <1>1, <2>1, <2>2
<1>4. Result(o, both, rest, dropped, infinite) = Record(n, w, infinite)
  BY <1>2, <1>3 DEF Result
<1>5. /\ \A i \in Words(n) : i < o.least => i \in Words(o.least) /\ w[i] = both[i]
      /\ \A i \in Words(n) : ~(i < o.least) =>
             i \in Words(o.most) /\ i >= o.least /\ w[i] = rest[i] /\ dropped = FALSE
  BY <1>1 DEF Words
<1>6. w = [i \in Words(n) |-> w[i]]
  OBVIOUS
<1>. HIDE DEF w
<1>7. w \in [Words(n) -> SUBSET Bit]
  <2>1. \A i \in Words(n) : w[i] \in SUBSET Bit
    BY <1>5
  <2>. QED  BY <1>6, <2>1
<1>8. ASSUME NEW x \in Horizon
      PROVE  x \in set <=> IF INDEX(x) < n THEN CPU_ULBIT(x) \in w[INDEX(x)] ELSE infinite = TRUE
  <2>1. INDEX(x) \in Nat /\ (INDEX(x) < n => INDEX(x) \in Words(n))
    BY <1>1, InHorizon DEF Words
  <2>2. CASE INDEX(x) < o.least
    BY <1>1, <1>5, <2>1, <2>2
  <2>3. CASE ~(INDEX(x) < o.least) /\ INDEX(x) < n
    <3>1. dropped = FALSE /\ n = o.most /\ INDEX(x) >= o.least /\ w[INDEX(x)] = rest[INDEX(x)]
      BY <1>1, <1>5, <2>1, <2>3
    <3>. QED  BY <2>3, <3>1
  <2>4. CASE ~(INDEX(x) < n)
    BY <1>1, <2>1, <2>4
  <2>. QED  BY <2>2, <2>3, <2>4
<1>. HIDE DEF n
<1>9. Is(Record(n, w, infinite), set)
  BY <1>1, <1>7, <1>8, BuiltIs
<1>. QED  BY <1>4, <1>9

\* hwloc_bitmap_or, also onto one or both of its operands.
LEMMA OrCall ==
    ASSUME AllBitmaps, NEW res \in Name, NEW set1 \in Name, NEW set2 \in Name, Or(res, set1, set2)
    PROVE  \E b : Store("or", res, <<set1, set2>>, b) /\ Is(b, Members(bitmap[set1]) \cup Members(bitmap[set2]))
<1>. DEFINE o == Operands(res, set1, set2)
            b1 == bitmap[set1]
            b2 == bitmap[set2]
            both == [i \in Words(o.least) |-> o.words1[i] \cup o.words2[i]]
            rest == IF o.longest1
                    THEN o.words1
                    ELSE o.words2
            dropped == (o.longest1 /\ bitmap[set2].infinite) \/ (o.longest2 /\ bitmap[set1].infinite)
            infinite == bitmap[set1].infinite \/ bitmap[set2].infinite
            set == Members(b1) \cup Members(b2)
<1>1. /\ b1 \in Bitmaps /\ b2 \in Bitmaps
      /\ o.most = (IF b1.count > b2.count THEN b1.count ELSE b2.count)
      /\ o.least = (IF b1.count > b2.count THEN b2.count ELSE b1.count)
      /\ o.longest1 <=> b1.count > b2.count
      /\ o.longest2 <=> b2.count > b1.count
      /\ Words(b1.count) \subseteq DOMAIN o.words1 /\ Words(b2.count) \subseteq DOMAIN o.words2
      /\ \A i \in Words(b1.count) : o.words1[i] = b1.ulongs[i]
      /\ \A i \in Words(b2.count) : o.words2[i] = b2.ulongs[i]
  <2>. HIDE DEF o, b1, b2
  <2>. QED  BY OperandsAre DEF o, b1, b2
<1>2. Store("or", res, <<set1, set2>>, Result(o, both, rest, dropped, infinite))
  BY DEF Or, StoreWords, Result, Record
<1>. HIDE DEF o, b1, b2
<1>3. /\ b1.count \in 1 .. MAX_ULONGS /\ b1.count \in Nat /\ b1.infinite \in BOOLEAN
      /\ b2.count \in 1 .. MAX_ULONGS /\ b2.count \in Nat /\ b2.infinite \in BOOLEAN
      /\ \A i \in Words(b1.count) : b1.ulongs[i] \in SUBSET Bit
      /\ \A i \in Words(b2.count) : b2.ulongs[i] \in SUBSET Bit
  BY <1>1, BitmapIs
<1>4. /\ o.least \in 1 .. MAX_ULONGS /\ o.most \in 1 .. MAX_ULONGS /\ o.least <= o.most
      /\ \A i \in Words(o.least) : i \in Words(b1.count) /\ i \in Words(b2.count)
      /\ \A i \in Words(o.most) : i >= o.least =>
             \/ b1.count > b2.count /\ i \in Words(b1.count)
             \/ b2.count > b1.count /\ ~(b1.count > b2.count) /\ i \in Words(b2.count)
  BY <1>1, <1>3 DEF Words
<1>5. /\ dropped \in BOOLEAN /\ infinite \in BOOLEAN
      /\ dropped = TRUE <=> (b1.count > b2.count /\ b2.infinite = TRUE) \/ (b2.count > b1.count /\ b1.infinite = TRUE)
      /\ infinite = TRUE <=> b1.infinite = TRUE \/ b2.infinite = TRUE
  BY <1>1, <1>3 DEF b1, b2
<1>6. \A i \in Words(o.least) : both[i] = b1.ulongs[i] \cup b2.ulongs[i]
  BY <1>1, <1>4
<1>7. \A i \in Words(o.most) : i >= o.least =>
          rest[i] = IF b1.count > b2.count THEN b1.ulongs[i] ELSE b2.ulongs[i]
  <2>. SUFFICES ASSUME NEW i \in Words(o.most), i >= o.least
                PROVE  rest[i] = IF b1.count > b2.count THEN b1.ulongs[i] ELSE b2.ulongs[i]
    OBVIOUS
  <2>1. CASE b1.count > b2.count
    <3>1. i \in Words(b1.count) /\ i \in DOMAIN o.words1 /\ o.words1[i] = b1.ulongs[i]
      BY <1>1, <1>3, <1>4, <2>1
    <3>. QED  BY <1>1, <2>1, <3>1
  <2>2. CASE ~(b1.count > b2.count)
    <3>1. i \in Words(b2.count) /\ i \in DOMAIN o.words2 /\ o.words2[i] = b2.ulongs[i]
      BY <1>1, <1>3, <1>4, <2>2
    <3>. QED  BY <1>1, <2>2, <3>1
  <2>. QED  BY <2>1, <2>2
<1>. HIDE DEF both, rest, dropped, infinite
<1>8. ASSUME NEW x \in Horizon
      PROVE  /\ CPU_ULBIT(x) \in Bit
             /\ INDEX(x) < o.least =>
                    INDEX(x) < b1.count /\ INDEX(x) < b2.count /\ INDEX(x) \in Words(o.least)
             /\ INDEX(x) >= o.least /\ b1.count > b2.count => ~(INDEX(x) < b2.count)
             /\ INDEX(x) >= o.least /\ ~(b1.count > b2.count) => ~(INDEX(x) < b1.count)
             /\ INDEX(x) >= o.most => ~(INDEX(x) < b1.count) /\ ~(INDEX(x) < b2.count)
             /\ INDEX(x) < o.most =>
                    /\ INDEX(x) \in Words(o.most)
                    /\ b1.count > b2.count => INDEX(x) < b1.count
                    /\ ~(b1.count > b2.count) => INDEX(x) < b2.count
             /\ x \in Members(b1) <=> IF INDEX(x) < b1.count THEN CPU_ULBIT(x) \in b1.ulongs[INDEX(x)]
                                                             ELSE b1.infinite = TRUE
             /\ x \in Members(b2) <=> IF INDEX(x) < b2.count THEN CPU_ULBIT(x) \in b2.ulongs[INDEX(x)]
                                                             ELSE b2.infinite = TRUE
  <2>1. INDEX(x) \in Nat /\ CPU_ULBIT(x) \in Bit
    BY InHorizon
  <2>2. o.least \in Nat /\ o.most \in Nat
    BY <1>1, <1>3
  <2>3. ASSUME NEW j \in Nat
        PROVE  /\ j < o.least => j < b1.count /\ j < b2.count /\ j \in Words(o.least)
               /\ j >= o.least /\ b1.count > b2.count => ~(j < b2.count)
               /\ j >= o.least /\ ~(b1.count > b2.count) => ~(j < b1.count)
               /\ j >= o.most => ~(j < b1.count) /\ ~(j < b2.count)
               /\ j < o.most => /\ j \in Words(o.most)
                                /\ b1.count > b2.count => j < b1.count
                                /\ ~(b1.count > b2.count) => j < b2.count
    BY <1>1, <1>3, <2>2 DEF Words
  <2>4. /\ x \in Members(b1) <=> IF INDEX(x) < b1.count THEN CPU_ULBIT(x) \in b1.ulongs[INDEX(x)]
                                                        ELSE b1.infinite = TRUE
        /\ x \in Members(b2) <=> IF INDEX(x) < b2.count THEN CPU_ULBIT(x) \in b2.ulongs[INDEX(x)]
                                                        ELSE b2.infinite = TRUE
    BY <1>1, MemberIs
  <2>. QED  BY <2>1, <2>3, <2>4
<1>9. \A i \in Words(o.least) : both[i] \in SUBSET Bit
  BY <1>3, <1>4, <1>6
<1>10. \A i \in Words(o.most) : i >= o.least => rest[i] \in SUBSET Bit
  BY <1>3, <1>4, <1>7
<1>11. ASSUME NEW x \in Horizon, INDEX(x) < o.least
       PROVE  x \in set <=> CPU_ULBIT(x) \in both[INDEX(x)]
  BY <1>6, <1>8, <1>11
<1>12. ASSUME NEW x \in Horizon, dropped = FALSE, INDEX(x) >= o.least, INDEX(x) < o.most
       PROVE  x \in set <=> CPU_ULBIT(x) \in rest[INDEX(x)]
  <2>1. CASE b1.count > b2.count
    <3>1. INDEX(x) < b1.count /\ ~(INDEX(x) < b2.count)
      BY <1>8, <1>12, <2>1
    <3>2. rest[INDEX(x)] = b1.ulongs[INDEX(x)]
      BY <1>7, <1>8, <1>12, <2>1
    <3>. QED  BY <1>3, <1>5, <1>8, <1>12, <2>1, <3>1, <3>2
  <2>2. CASE ~(b1.count > b2.count)
    <3>1. INDEX(x) < b2.count /\ ~(INDEX(x) < b1.count) /\ b2.count > b1.count
      BY <1>4, <1>8, <1>12, <2>2
    <3>2. rest[INDEX(x)] = b2.ulongs[INDEX(x)]
      BY <1>7, <1>8, <1>12, <2>2
    <3>. QED  BY <1>3, <1>5, <1>8, <1>12, <2>2, <3>1, <3>2
  <2>. QED  BY <2>1, <2>2
<1>13. ASSUME NEW x \in Horizon, INDEX(x) >= (IF dropped = TRUE THEN o.least ELSE o.most)
       PROVE  x \in set <=> infinite = TRUE
  <2>1. CASE dropped = TRUE
    <3>1. INDEX(x) >= o.least
      BY <1>13, <2>1
    <3>2. CASE b1.count > b2.count
      <4>1. ~(INDEX(x) < b2.count)
        BY <1>8, <3>1, <3>2
      <4>2. ~(b2.count > b1.count)
        BY <1>3, <3>2
      <4>. QED  BY <1>3, <1>5, <1>8, <2>1, <4>1, <4>2
    <3>3. CASE ~(b1.count > b2.count)
      <4>1. ~(INDEX(x) < b1.count)
        BY <1>3, <1>8, <3>1, <3>3
      <4>. QED  BY <1>3, <1>5, <1>8, <2>1, <3>3, <4>1
    <3>. QED  BY <3>2, <3>3
  <2>2. CASE dropped = FALSE
    BY <1>3, <1>5, <1>8, <1>13, <2>2
  <2>. QED  BY <1>5, <2>1, <2>2
<1>14. set \in SUBSET Horizon
  BY <1>1, MembersInHorizon
<1>. HIDE DEF set
<1>15. Is(Result(o, both, rest, dropped, infinite), set)
  BY <1>4, <1>5, <1>9, <1>10, <1>11, <1>12, <1>13, <1>14, CombinedIs
<1>. QED  BY <1>2, <1>15 DEF set, b1, b2

\* hwloc_bitmap_and, also onto one or both of its operands.
LEMMA AndCall ==
    ASSUME AllBitmaps, NEW res \in Name, NEW set1 \in Name, NEW set2 \in Name, And(res, set1, set2)
    PROVE  \E b : Store("and", res, <<set1, set2>>, b) /\ Is(b, Members(bitmap[set1]) \cap Members(bitmap[set2]))
<1>. DEFINE o == Operands(res, set1, set2)
            b1 == bitmap[set1]
            b2 == bitmap[set2]
            both == [i \in Words(o.least) |-> o.words1[i] \cap o.words2[i]]
            rest == IF o.longest1
                    THEN o.words1
                    ELSE o.words2
            dropped == (o.longest1 /\ ~bitmap[set2].infinite) \/ (o.longest2 /\ ~bitmap[set1].infinite)
            infinite == bitmap[set1].infinite /\ bitmap[set2].infinite
            set == Members(b1) \cap Members(b2)
<1>1. /\ b1 \in Bitmaps /\ b2 \in Bitmaps
      /\ o.most = (IF b1.count > b2.count THEN b1.count ELSE b2.count)
      /\ o.least = (IF b1.count > b2.count THEN b2.count ELSE b1.count)
      /\ o.longest1 <=> b1.count > b2.count
      /\ o.longest2 <=> b2.count > b1.count
      /\ Words(b1.count) \subseteq DOMAIN o.words1 /\ Words(b2.count) \subseteq DOMAIN o.words2
      /\ \A i \in Words(b1.count) : o.words1[i] = b1.ulongs[i]
      /\ \A i \in Words(b2.count) : o.words2[i] = b2.ulongs[i]
  <2>. HIDE DEF o, b1, b2
  <2>. QED  BY OperandsAre DEF o, b1, b2
<1>2. Store("and", res, <<set1, set2>>, Result(o, both, rest, dropped, infinite))
  BY DEF And, StoreWords, Result, Record
<1>. HIDE DEF o, b1, b2
<1>3. /\ b1.count \in 1 .. MAX_ULONGS /\ b1.count \in Nat /\ b1.infinite \in BOOLEAN
      /\ b2.count \in 1 .. MAX_ULONGS /\ b2.count \in Nat /\ b2.infinite \in BOOLEAN
      /\ \A i \in Words(b1.count) : b1.ulongs[i] \in SUBSET Bit
      /\ \A i \in Words(b2.count) : b2.ulongs[i] \in SUBSET Bit
  BY <1>1, BitmapIs
<1>4. /\ o.least \in 1 .. MAX_ULONGS /\ o.most \in 1 .. MAX_ULONGS /\ o.least <= o.most
      /\ \A i \in Words(o.least) : i \in Words(b1.count) /\ i \in Words(b2.count)
      /\ \A i \in Words(o.most) : i >= o.least =>
             \/ b1.count > b2.count /\ i \in Words(b1.count)
             \/ b2.count > b1.count /\ ~(b1.count > b2.count) /\ i \in Words(b2.count)
  BY <1>1, <1>3 DEF Words
<1>5. /\ dropped \in BOOLEAN /\ infinite \in BOOLEAN
      /\ dropped = TRUE <=> (b1.count > b2.count /\ b2.infinite = FALSE) \/ (b2.count > b1.count /\ b1.infinite = FALSE)
      /\ infinite = TRUE <=> b1.infinite = TRUE /\ b2.infinite = TRUE
  BY <1>1, <1>3 DEF b1, b2
<1>6. \A i \in Words(o.least) : both[i] = b1.ulongs[i] \cap b2.ulongs[i]
  BY <1>1, <1>4
<1>7. \A i \in Words(o.most) : i >= o.least =>
          rest[i] = IF b1.count > b2.count THEN b1.ulongs[i] ELSE b2.ulongs[i]
  <2>. SUFFICES ASSUME NEW i \in Words(o.most), i >= o.least
                PROVE  rest[i] = IF b1.count > b2.count THEN b1.ulongs[i] ELSE b2.ulongs[i]
    OBVIOUS
  <2>1. CASE b1.count > b2.count
    <3>1. i \in Words(b1.count) /\ i \in DOMAIN o.words1 /\ o.words1[i] = b1.ulongs[i]
      BY <1>1, <1>3, <1>4, <2>1
    <3>. QED  BY <1>1, <2>1, <3>1
  <2>2. CASE ~(b1.count > b2.count)
    <3>1. i \in Words(b2.count) /\ i \in DOMAIN o.words2 /\ o.words2[i] = b2.ulongs[i]
      BY <1>1, <1>3, <1>4, <2>2
    <3>. QED  BY <1>1, <2>2, <3>1
  <2>. QED  BY <2>1, <2>2
<1>. HIDE DEF both, rest, dropped, infinite
<1>8. ASSUME NEW x \in Horizon
      PROVE  /\ CPU_ULBIT(x) \in Bit
             /\ INDEX(x) < o.least =>
                    INDEX(x) < b1.count /\ INDEX(x) < b2.count /\ INDEX(x) \in Words(o.least)
             /\ INDEX(x) >= o.least /\ b1.count > b2.count => ~(INDEX(x) < b2.count)
             /\ INDEX(x) >= o.least /\ ~(b1.count > b2.count) => ~(INDEX(x) < b1.count)
             /\ INDEX(x) >= o.most => ~(INDEX(x) < b1.count) /\ ~(INDEX(x) < b2.count)
             /\ INDEX(x) < o.most =>
                    /\ INDEX(x) \in Words(o.most)
                    /\ b1.count > b2.count => INDEX(x) < b1.count
                    /\ ~(b1.count > b2.count) => INDEX(x) < b2.count
             /\ x \in Members(b1) <=> IF INDEX(x) < b1.count THEN CPU_ULBIT(x) \in b1.ulongs[INDEX(x)]
                                                             ELSE b1.infinite = TRUE
             /\ x \in Members(b2) <=> IF INDEX(x) < b2.count THEN CPU_ULBIT(x) \in b2.ulongs[INDEX(x)]
                                                             ELSE b2.infinite = TRUE
  <2>1. INDEX(x) \in Nat /\ CPU_ULBIT(x) \in Bit
    BY InHorizon
  <2>2. o.least \in Nat /\ o.most \in Nat
    BY <1>1, <1>3
  <2>3. ASSUME NEW j \in Nat
        PROVE  /\ j < o.least => j < b1.count /\ j < b2.count /\ j \in Words(o.least)
               /\ j >= o.least /\ b1.count > b2.count => ~(j < b2.count)
               /\ j >= o.least /\ ~(b1.count > b2.count) => ~(j < b1.count)
               /\ j >= o.most => ~(j < b1.count) /\ ~(j < b2.count)
               /\ j < o.most => /\ j \in Words(o.most)
                                /\ b1.count > b2.count => j < b1.count
                                /\ ~(b1.count > b2.count) => j < b2.count
    BY <1>1, <1>3, <2>2 DEF Words
  <2>4. /\ x \in Members(b1) <=> IF INDEX(x) < b1.count THEN CPU_ULBIT(x) \in b1.ulongs[INDEX(x)]
                                                        ELSE b1.infinite = TRUE
        /\ x \in Members(b2) <=> IF INDEX(x) < b2.count THEN CPU_ULBIT(x) \in b2.ulongs[INDEX(x)]
                                                        ELSE b2.infinite = TRUE
    BY <1>1, MemberIs
  <2>. QED  BY <2>1, <2>3, <2>4
<1>9. \A i \in Words(o.least) : both[i] \in SUBSET Bit
  BY <1>3, <1>4, <1>6
<1>10. \A i \in Words(o.most) : i >= o.least => rest[i] \in SUBSET Bit
  BY <1>3, <1>4, <1>7
<1>11. ASSUME NEW x \in Horizon, INDEX(x) < o.least
       PROVE  x \in set <=> CPU_ULBIT(x) \in both[INDEX(x)]
  BY <1>6, <1>8, <1>11
<1>12. ASSUME NEW x \in Horizon, dropped = FALSE, INDEX(x) >= o.least, INDEX(x) < o.most
       PROVE  x \in set <=> CPU_ULBIT(x) \in rest[INDEX(x)]
  <2>1. CASE b1.count > b2.count
    <3>1. INDEX(x) < b1.count /\ ~(INDEX(x) < b2.count)
      BY <1>8, <1>12, <2>1
    <3>2. rest[INDEX(x)] = b1.ulongs[INDEX(x)]
      BY <1>7, <1>8, <1>12, <2>1
    <3>. QED  BY <1>3, <1>5, <1>8, <1>12, <2>1, <3>1, <3>2
  <2>2. CASE ~(b1.count > b2.count)
    <3>1. INDEX(x) < b2.count /\ ~(INDEX(x) < b1.count) /\ b2.count > b1.count
      BY <1>4, <1>8, <1>12, <2>2
    <3>2. rest[INDEX(x)] = b2.ulongs[INDEX(x)]
      BY <1>7, <1>8, <1>12, <2>2
    <3>. QED  BY <1>3, <1>5, <1>8, <1>12, <2>2, <3>1, <3>2
  <2>. QED  BY <2>1, <2>2
<1>13. ASSUME NEW x \in Horizon, INDEX(x) >= (IF dropped = TRUE THEN o.least ELSE o.most)
       PROVE  x \in set <=> infinite = TRUE
  <2>1. CASE dropped = TRUE
    <3>1. INDEX(x) >= o.least
      BY <1>13, <2>1
    <3>2. CASE b1.count > b2.count
      <4>1. ~(INDEX(x) < b2.count)
        BY <1>8, <3>1, <3>2
      <4>2. ~(b2.count > b1.count)
        BY <1>3, <3>2
      <4>. QED  BY <1>3, <1>5, <1>8, <2>1, <4>1, <4>2
    <3>3. CASE ~(b1.count > b2.count)
      <4>1. ~(INDEX(x) < b1.count)
        BY <1>3, <1>8, <3>1, <3>3
      <4>. QED  BY <1>3, <1>5, <1>8, <2>1, <3>3, <4>1
    <3>. QED  BY <3>2, <3>3
  <2>2. CASE dropped = FALSE
    BY <1>3, <1>5, <1>8, <1>13, <2>2
  <2>. QED  BY <1>5, <2>1, <2>2
<1>14. set \in SUBSET Horizon
  BY <1>1, MembersInHorizon
<1>. HIDE DEF set
<1>15. Is(Result(o, both, rest, dropped, infinite), set)
  BY <1>4, <1>5, <1>9, <1>10, <1>11, <1>12, <1>13, <1>14, CombinedIs
<1>. QED  BY <1>2, <1>15 DEF set, b1, b2

\* hwloc_bitmap_andnot, also onto one or both of its operands.
LEMMA AndnotCall ==
    ASSUME AllBitmaps, NEW res \in Name, NEW set1 \in Name, NEW set2 \in Name, Andnot(res, set1, set2)
    PROVE  \E b : Store("andnot", res, <<set1, set2>>, b) /\ Is(b, Members(bitmap[set1]) \ Members(bitmap[set2]))
<1>. DEFINE o == Operands(res, set1, set2)
            b1 == bitmap[set1]
            b2 == bitmap[set2]
            both == [i \in Words(o.least) |-> o.words1[i] \ o.words2[i]]
            rest == IF o.longest1
                    THEN o.words1
                    ELSE [i \in DOMAIN o.words2 |-> FULL \ o.words2[i]]
            dropped == (o.longest1 /\ bitmap[set2].infinite) \/ (o.longest2 /\ ~bitmap[set1].infinite)
            infinite == bitmap[set1].infinite /\ ~bitmap[set2].infinite
            set == Members(b1) \ Members(b2)
<1>1. /\ b1 \in Bitmaps /\ b2 \in Bitmaps
      /\ o.most = (IF b1.count > b2.count THEN b1.count ELSE b2.count)
      /\ o.least = (IF b1.count > b2.count THEN b2.count ELSE b1.count)
      /\ o.longest1 <=> b1.count > b2.count
      /\ o.longest2 <=> b2.count > b1.count
      /\ Words(b1.count) \subseteq DOMAIN o.words1 /\ Words(b2.count) \subseteq DOMAIN o.words2
      /\ \A i \in Words(b1.count) : o.words1[i] = b1.ulongs[i]
      /\ \A i \in Words(b2.count) : o.words2[i] = b2.ulongs[i]
  <2>. HIDE DEF o, b1, b2
  <2>. QED  BY OperandsAre DEF o, b1, b2
<1>2. Store("andnot", res, <<set1, set2>>, Result(o, both, rest, dropped, infinite))
  BY DEF Andnot, StoreWords, Result, Record
<1>. HIDE DEF o, b1, b2
<1>3. /\ b1.count \in 1 .. MAX_ULONGS /\ b1.count \in Nat /\ b1.infinite \in BOOLEAN
      /\ b2.count \in 1 .. MAX_ULONGS /\ b2.count \in Nat /\ b2.infinite \in BOOLEAN
      /\ \A i \in Words(b1.count) : b1.ulongs[i] \in SUBSET Bit
      /\ \A i \in Words(b2.count) : b2.ulongs[i] \in SUBSET Bit
  BY <1>1, BitmapIs
<1>4. /\ o.least \in 1 .. MAX_ULONGS /\ o.most \in 1 .. MAX_ULONGS /\ o.least <= o.most
      /\ \A i \in Words(o.least) : i \in Words(b1.count) /\ i \in Words(b2.count)
      /\ \A i \in Words(o.most) : i >= o.least =>
             \/ b1.count > b2.count /\ i \in Words(b1.count)
             \/ b2.count > b1.count /\ ~(b1.count > b2.count) /\ i \in Words(b2.count)
  BY <1>1, <1>3 DEF Words
<1>5. /\ dropped \in BOOLEAN /\ infinite \in BOOLEAN
      /\ dropped = TRUE <=> (b1.count > b2.count /\ b2.infinite = TRUE) \/ (b2.count > b1.count /\ b1.infinite = FALSE)
      /\ infinite = TRUE <=> b1.infinite = TRUE /\ b2.infinite = FALSE
  BY <1>1, <1>3 DEF b1, b2
<1>6. \A i \in Words(o.least) : both[i] = b1.ulongs[i] \ b2.ulongs[i]
  BY <1>1, <1>4
<1>7. \A i \in Words(o.most) : i >= o.least =>
          rest[i] = IF b1.count > b2.count THEN b1.ulongs[i] ELSE FULL \ b2.ulongs[i]
  <2>. SUFFICES ASSUME NEW i \in Words(o.most), i >= o.least
                PROVE  rest[i] = IF b1.count > b2.count THEN b1.ulongs[i] ELSE FULL \ b2.ulongs[i]
    OBVIOUS
  <2>1. CASE b1.count > b2.count
    <3>1. i \in Words(b1.count) /\ i \in DOMAIN o.words1 /\ o.words1[i] = b1.ulongs[i]
      BY <1>1, <1>3, <1>4, <2>1
    <3>. QED  BY <1>1, <2>1, <3>1
  <2>2. CASE ~(b1.count > b2.count)
    <3>1. i \in Words(b2.count) /\ i \in DOMAIN o.words2 /\ o.words2[i] = b2.ulongs[i]
      BY <1>1, <1>3, <1>4, <2>2
    <3>. QED  BY <1>1, <2>2, <3>1
  <2>. QED  BY <2>1, <2>2
<1>. HIDE DEF both, rest, dropped, infinite
<1>8. ASSUME NEW x \in Horizon
      PROVE  /\ CPU_ULBIT(x) \in Bit
             /\ INDEX(x) < o.least =>
                    INDEX(x) < b1.count /\ INDEX(x) < b2.count /\ INDEX(x) \in Words(o.least)
             /\ INDEX(x) >= o.least /\ b1.count > b2.count => ~(INDEX(x) < b2.count)
             /\ INDEX(x) >= o.least /\ ~(b1.count > b2.count) => ~(INDEX(x) < b1.count)
             /\ INDEX(x) >= o.most => ~(INDEX(x) < b1.count) /\ ~(INDEX(x) < b2.count)
             /\ INDEX(x) < o.most =>
                    /\ INDEX(x) \in Words(o.most)
                    /\ b1.count > b2.count => INDEX(x) < b1.count
                    /\ ~(b1.count > b2.count) => INDEX(x) < b2.count
             /\ x \in Members(b1) <=> IF INDEX(x) < b1.count THEN CPU_ULBIT(x) \in b1.ulongs[INDEX(x)]
                                                             ELSE b1.infinite = TRUE
             /\ x \in Members(b2) <=> IF INDEX(x) < b2.count THEN CPU_ULBIT(x) \in b2.ulongs[INDEX(x)]
                                                             ELSE b2.infinite = TRUE
  <2>1. INDEX(x) \in Nat /\ CPU_ULBIT(x) \in Bit
    BY InHorizon
  <2>2. o.least \in Nat /\ o.most \in Nat
    BY <1>1, <1>3
  <2>3. ASSUME NEW j \in Nat
        PROVE  /\ j < o.least => j < b1.count /\ j < b2.count /\ j \in Words(o.least)
               /\ j >= o.least /\ b1.count > b2.count => ~(j < b2.count)
               /\ j >= o.least /\ ~(b1.count > b2.count) => ~(j < b1.count)
               /\ j >= o.most => ~(j < b1.count) /\ ~(j < b2.count)
               /\ j < o.most => /\ j \in Words(o.most)
                                /\ b1.count > b2.count => j < b1.count
                                /\ ~(b1.count > b2.count) => j < b2.count
    BY <1>1, <1>3, <2>2 DEF Words
  <2>4. /\ x \in Members(b1) <=> IF INDEX(x) < b1.count THEN CPU_ULBIT(x) \in b1.ulongs[INDEX(x)]
                                                        ELSE b1.infinite = TRUE
        /\ x \in Members(b2) <=> IF INDEX(x) < b2.count THEN CPU_ULBIT(x) \in b2.ulongs[INDEX(x)]
                                                        ELSE b2.infinite = TRUE
    BY <1>1, MemberIs
  <2>. QED  BY <2>1, <2>3, <2>4
<1>9. \A i \in Words(o.least) : both[i] \in SUBSET Bit
  BY <1>3, <1>4, <1>6
<1>10. \A i \in Words(o.most) : i >= o.least => rest[i] \in SUBSET Bit
  BY <1>3, <1>4, <1>7 DEF FULL
<1>11. ASSUME NEW x \in Horizon, INDEX(x) < o.least
       PROVE  x \in set <=> CPU_ULBIT(x) \in both[INDEX(x)]
  BY <1>6, <1>8, <1>11
<1>12. ASSUME NEW x \in Horizon, dropped = FALSE, INDEX(x) >= o.least, INDEX(x) < o.most
       PROVE  x \in set <=> CPU_ULBIT(x) \in rest[INDEX(x)]
  <2>1. CASE b1.count > b2.count
    <3>1. INDEX(x) < b1.count /\ ~(INDEX(x) < b2.count)
      BY <1>8, <1>12, <2>1
    <3>2. rest[INDEX(x)] = b1.ulongs[INDEX(x)]
      BY <1>7, <1>8, <1>12, <2>1
    <3>. QED  BY <1>3, <1>5, <1>8, <1>12, <2>1, <3>1, <3>2 DEF FULL
  <2>2. CASE ~(b1.count > b2.count)
    <3>1. INDEX(x) < b2.count /\ ~(INDEX(x) < b1.count) /\ b2.count > b1.count
      BY <1>4, <1>8, <1>12, <2>2
    <3>2. rest[INDEX(x)] = FULL \ b2.ulongs[INDEX(x)]
      BY <1>7, <1>8, <1>12, <2>2
    <3>. QED  BY <1>3, <1>5, <1>8, <1>12, <2>2, <3>1, <3>2 DEF FULL
  <2>. QED  BY <2>1, <2>2
<1>13. ASSUME NEW x \in Horizon, INDEX(x) >= (IF dropped = TRUE THEN o.least ELSE o.most)
       PROVE  x \in set <=> infinite = TRUE
  <2>1. CASE dropped = TRUE
    <3>1. INDEX(x) >= o.least
      BY <1>13, <2>1
    <3>2. CASE b1.count > b2.count
      <4>1. ~(INDEX(x) < b2.count)
        BY <1>8, <3>1, <3>2
      <4>2. ~(b2.count > b1.count)
        BY <1>3, <3>2
      <4>. QED  BY <1>3, <1>5, <1>8, <2>1, <4>1, <4>2
    <3>3. CASE ~(b1.count > b2.count)
      <4>1. ~(INDEX(x) < b1.count)
        BY <1>3, <1>8, <3>1, <3>3
      <4>. QED  BY <1>3, <1>5, <1>8, <2>1, <3>3, <4>1
    <3>. QED  BY <3>2, <3>3
  <2>2. CASE dropped = FALSE
    BY <1>3, <1>5, <1>8, <1>13, <2>2
  <2>. QED  BY <1>5, <2>1, <2>2
<1>14. set \in SUBSET Horizon
  BY <1>1, MembersInHorizon
<1>. HIDE DEF set
<1>15. Is(Result(o, both, rest, dropped, infinite), set)
  BY <1>4, <1>5, <1>9, <1>10, <1>11, <1>12, <1>13, <1>14, CombinedIs
<1>. QED  BY <1>2, <1>15 DEF set, b1, b2

\* hwloc_bitmap_xor, also onto one or both of its operands.
LEMMA XorCall ==
    ASSUME AllBitmaps, NEW res \in Name, NEW set1 \in Name, NEW set2 \in Name, Xor(res, set1, set2)
    PROVE  \E b : Store("xor", res, <<set1, set2>>, b) /\ Is(b, (Members(bitmap[set1]) \ Members(bitmap[set2])) \cup (Members(bitmap[set2]) \ Members(bitmap[set1])))
<1>. DEFINE o == Operands(res, set1, set2)
            b1 == bitmap[set1]
            b2 == bitmap[set2]
            both == [i \in Words(o.least) |-> XorWord(o.words1[i], o.words2[i])]
            rest == IF o.longest1
                    THEN [i \in DOMAIN o.words1 |-> XorWord(o.words1[i], Beyond(bitmap[set2]))]
                    ELSE [i \in DOMAIN o.words2 |-> XorWord(o.words2[i], Beyond(bitmap[set1]))]
            dropped == FALSE
            infinite == bitmap[set1].infinite # bitmap[set2].infinite
            set == (Members(b1) \ Members(b2)) \cup (Members(b2) \ Members(b1))
<1>1. /\ b1 \in Bitmaps /\ b2 \in Bitmaps
      /\ o.most = (IF b1.count > b2.count THEN b1.count ELSE b2.count)
      /\ o.least = (IF b1.count > b2.count THEN b2.count ELSE b1.count)
      /\ o.longest1 <=> b1.count > b2.count
      /\ o.longest2 <=> b2.count > b1.count
      /\ Words(b1.count) \subseteq DOMAIN o.words1 /\ Words(b2.count) \subseteq DOMAIN o.words2
      /\ \A i \in Words(b1.count) : o.words1[i] = b1.ulongs[i]
      /\ \A i \in Words(b2.count) : o.words2[i] = b2.ulongs[i]
  <2>. HIDE DEF o, b1, b2
  <2>. QED  BY OperandsAre DEF o, b1, b2
<1>2. Store("xor", res, <<set1, set2>>, Result(o, both, rest, dropped, infinite))
  BY DEF Xor, StoreWords, Result, Record
<1>. HIDE DEF o, b1, b2
<1>3. /\ b1.count \in 1 .. MAX_ULONGS /\ b1.count \in Nat /\ b1.infinite \in BOOLEAN
      /\ b2.count \in 1 .. MAX_ULONGS /\ b2.count \in Nat /\ b2.infinite \in BOOLEAN
      /\ \A i \in Words(b1.count) : b1.ulongs[i] \in SUBSET Bit
      /\ \A i \in Words(b2.count) : b2.ulongs[i] \in SUBSET Bit
  BY <1>1, BitmapIs
<1>4. /\ o.least \in 1 .. MAX_ULONGS /\ o.most \in 1 .. MAX_ULONGS /\ o.least <= o.most
      /\ \A i \in Words(o.least) : i \in Words(b1.count) /\ i \in Words(b2.count)
      /\ \A i \in Words(o.most) : i >= o.least =>
             \/ b1.count > b2.count /\ i \in Words(b1.count)
             \/ b2.count > b1.count /\ ~(b1.count > b2.count) /\ i \in Words(b2.count)
  BY <1>1, <1>3 DEF Words
<1>5. /\ dropped \in BOOLEAN /\ infinite \in BOOLEAN
      /\ dropped = TRUE <=> FALSE
      /\ infinite = TRUE <=> (b1.infinite = TRUE /\ b2.infinite = FALSE) \/ (b1.infinite = FALSE /\ b2.infinite = TRUE)
  BY <1>1, <1>3 DEF b1, b2
<1>6. \A i \in Words(o.least) : both[i] = XorWord(b1.ulongs[i], b2.ulongs[i])
  BY <1>1, <1>4 DEF b1, b2
<1>7. \A i \in Words(o.most) : i >= o.least =>
          rest[i] = IF b1.count > b2.count THEN XorWord(b1.ulongs[i], Beyond(b2)) ELSE XorWord(b2.ulongs[i], Beyond(b1))
  <2>. SUFFICES ASSUME NEW i \in Words(o.most), i >= o.least
                PROVE  rest[i] = IF b1.count > b2.count THEN XorWord(b1.ulongs[i], Beyond(b2)) ELSE XorWord(b2.ulongs[i], Beyond(b1))
    OBVIOUS
  <2>1. CASE b1.count > b2.count
    <3>1. i \in Words(b1.count) /\ i \in DOMAIN o.words1 /\ o.words1[i] = b1.ulongs[i]
      BY <1>1, <1>3, <1>4, <2>1
    <3>. QED  BY <1>1, <2>1, <3>1 DEF b1, b2
  <2>2. CASE ~(b1.count > b2.count)
    <3>1. i \in Words(b2.count) /\ i \in DOMAIN o.words2 /\ o.words2[i] = b2.ulongs[i]
      BY <1>1, <1>3, <1>4, <2>2
    <3>. QED  BY <1>1, <2>2, <3>1 DEF b1, b2
  <2>. QED  BY <2>1, <2>2
<1>. HIDE DEF both, rest, dropped, infinite
<1>8. ASSUME NEW x \in Horizon
      PROVE  /\ CPU_ULBIT(x) \in Bit
             /\ INDEX(x) < o.least =>
                    INDEX(x) < b1.count /\ INDEX(x) < b2.count /\ INDEX(x) \in Words(o.least)
             /\ INDEX(x) >= o.least /\ b1.count > b2.count => ~(INDEX(x) < b2.count)
             /\ INDEX(x) >= o.least /\ ~(b1.count > b2.count) => ~(INDEX(x) < b1.count)
             /\ INDEX(x) >= o.most => ~(INDEX(x) < b1.count) /\ ~(INDEX(x) < b2.count)
             /\ INDEX(x) < o.most =>
                    /\ INDEX(x) \in Words(o.most)
                    /\ b1.count > b2.count => INDEX(x) < b1.count
                    /\ ~(b1.count > b2.count) => INDEX(x) < b2.count
             /\ x \in Members(b1) <=> IF INDEX(x) < b1.count THEN CPU_ULBIT(x) \in b1.ulongs[INDEX(x)]
                                                             ELSE b1.infinite = TRUE
             /\ x \in Members(b2) <=> IF INDEX(x) < b2.count THEN CPU_ULBIT(x) \in b2.ulongs[INDEX(x)]
                                                             ELSE b2.infinite = TRUE
  <2>1. INDEX(x) \in Nat /\ CPU_ULBIT(x) \in Bit
    BY InHorizon
  <2>2. o.least \in Nat /\ o.most \in Nat
    BY <1>1, <1>3
  <2>3. ASSUME NEW j \in Nat
        PROVE  /\ j < o.least => j < b1.count /\ j < b2.count /\ j \in Words(o.least)
               /\ j >= o.least /\ b1.count > b2.count => ~(j < b2.count)
               /\ j >= o.least /\ ~(b1.count > b2.count) => ~(j < b1.count)
               /\ j >= o.most => ~(j < b1.count) /\ ~(j < b2.count)
               /\ j < o.most => /\ j \in Words(o.most)
                                /\ b1.count > b2.count => j < b1.count
                                /\ ~(b1.count > b2.count) => j < b2.count
    BY <1>1, <1>3, <2>2 DEF Words
  <2>4. /\ x \in Members(b1) <=> IF INDEX(x) < b1.count THEN CPU_ULBIT(x) \in b1.ulongs[INDEX(x)]
                                                        ELSE b1.infinite = TRUE
        /\ x \in Members(b2) <=> IF INDEX(x) < b2.count THEN CPU_ULBIT(x) \in b2.ulongs[INDEX(x)]
                                                        ELSE b2.infinite = TRUE
    BY <1>1, MemberIs
  <2>. QED  BY <2>1, <2>3, <2>4
<1>9. \A i \in Words(o.least) : both[i] \in SUBSET Bit
  BY <1>3, <1>4, <1>6 DEF XorWord
<1>10. \A i \in Words(o.most) : i >= o.least => rest[i] \in SUBSET Bit
  BY <1>3, <1>4, <1>7 DEF XorWord, Beyond, FULL, ZERO
<1>11. ASSUME NEW x \in Horizon, INDEX(x) < o.least
       PROVE  x \in set <=> CPU_ULBIT(x) \in both[INDEX(x)]
  BY <1>6, <1>8, <1>11 DEF XorWord
<1>12. ASSUME NEW x \in Horizon, dropped = FALSE, INDEX(x) >= o.least, INDEX(x) < o.most
       PROVE  x \in set <=> CPU_ULBIT(x) \in rest[INDEX(x)]
  <2>1. CASE b1.count > b2.count
    <3>1. INDEX(x) < b1.count /\ ~(INDEX(x) < b2.count)
      BY <1>8, <1>12, <2>1
    <3>2. rest[INDEX(x)] = XorWord(b1.ulongs[INDEX(x)], Beyond(b2))
      BY <1>7, <1>8, <1>12, <2>1
    <3>. QED  BY <1>3, <1>5, <1>8, <1>12, <2>1, <3>1, <3>2 DEF XorWord, Beyond, FULL, ZERO
  <2>2. CASE ~(b1.count > b2.count)
    <3>1. INDEX(x) < b2.count /\ ~(INDEX(x) < b1.count) /\ b2.count > b1.count
      BY <1>4, <1>8, <1>12, <2>2
    <3>2. rest[INDEX(x)] = XorWord(b2.ulongs[INDEX(x)], Beyond(b1))
      BY <1>7, <1>8, <1>12, <2>2
    <3>. QED  BY <1>3, <1>5, <1>8, <1>12, <2>2, <3>1, <3>2 DEF XorWord, Beyond, FULL, ZERO
  <2>. QED  BY <2>1, <2>2
<1>13. ASSUME NEW x \in Horizon, INDEX(x) >= (IF dropped = TRUE THEN o.least ELSE o.most)
       PROVE  x \in set <=> infinite = TRUE
  <2>1. CASE dropped = TRUE
    <3>1. INDEX(x) >= o.least
      BY <1>13, <2>1
    <3>2. CASE b1.count > b2.count
      <4>1. ~(INDEX(x) < b2.count)
        BY <1>8, <3>1, <3>2
      <4>2. ~(b2.count > b1.count)
        BY <1>3, <3>2
      <4>. QED  BY <1>3, <1>5, <1>8, <2>1, <4>1, <4>2
    <3>3. CASE ~(b1.count > b2.count)
      <4>1. ~(INDEX(x) < b1.count)
        BY <1>3, <1>8, <3>1, <3>3
      <4>. QED  BY <1>3, <1>5, <1>8, <2>1, <3>3, <4>1
    <3>. QED  BY <3>2, <3>3
  <2>2. CASE dropped = FALSE
    BY <1>3, <1>5, <1>8, <1>13, <2>2
  <2>. QED  BY <1>5, <2>1, <2>2
<1>14. set \in SUBSET Horizon
  BY <1>1, MembersInHorizon
<1>. HIDE DEF set
<1>15. Is(Result(o, both, rest, dropped, infinite), set)
  BY <1>4, <1>5, <1>9, <1>10, <1>11, <1>12, <1>13, <1>14, CombinedIs
<1>. QED  BY <1>2, <1>15 DEF set, b1, b2

(***************************************************************************)
(* Every call sets a bitmap to what CpuSet says.                           *)
(***************************************************************************)
LEMMA MeaningIs ==
    ASSUME NEW n \in Name
    PROVE  /\ Sets!Meaning("renew", n, <<>>) = {} /\ Sets!Meaning("zero", n, <<>>) = {}
           /\ Sets!Meaning("fill", n, <<>>) = Horizon
           /\ Sets!Meaning("singlify", n, <<>>) =
                  (IF Members(bitmap[n]) = {} THEN {} ELSE {Min(Members(bitmap[n]))})
<1>1. /\ Sets!Meaning("renew", n, <<>>) = {} /\ Sets!Meaning("zero", n, <<>>) = {}
      /\ Sets!Meaning("fill", n, <<>>) = Horizon
  BY DEF Sets!Meaning
<1>2. Sets!Meaning("singlify", n, <<>>) =
          (IF Members(bitmap[n]) = {} THEN {} ELSE {Min(Members(bitmap[n]))})
  BY DEF Sets!Meaning, Sets!Min, Min
<1>. QED  BY <1>1, <1>2

\* What CpuSet says of calls with an index, ...
LEMMA MeaningOfIndex ==
    ASSUME NEW n \in Name, NEW x
    PROVE  /\ Sets!Meaning("only", n, <<x>>) = {x}
           /\ Sets!Meaning("allbut", n, <<x>>) = Horizon \ {x}
           /\ Sets!Meaning("set", n, <<x>>) = Members(bitmap[n]) \cup {x}
           /\ Sets!Meaning("clr", n, <<x>>) = Members(bitmap[n]) \ {x}
           /\ Sets!Meaning("set_from", n, <<x>>) = Members(bitmap[n]) \cup {cpu \in Horizon : cpu >= x}
           /\ Sets!Meaning("clr_from", n, <<x>>) = {cpu \in Members(bitmap[n]) : cpu < x}
           /\ Sets!Meaning("assign", n, <<x>>) = x
<1>1. /\ Sets!Meaning("only", n, <<x>>) = {x}
      /\ Sets!Meaning("allbut", n, <<x>>) = Horizon \ {x}
  BY DEF Sets!Meaning
<1>2. /\ Sets!Meaning("set", n, <<x>>) = Members(bitmap[n]) \cup {x}
      /\ Sets!Meaning("clr", n, <<x>>) = Members(bitmap[n]) \ {x}
  BY DEF Sets!Meaning
<1>3. /\ Sets!Meaning("set_from", n, <<x>>) = Members(bitmap[n]) \cup {cpu \in Horizon : cpu >= x}
      /\ Sets!Meaning("clr_from", n, <<x>>) = {cpu \in Members(bitmap[n]) : cpu < x}
  BY DEF Sets!Meaning
<1>4. Sets!Meaning("assign", n, <<x>>) = x
  BY DEF Sets!Meaning
<1>. QED  BY <1>1, <1>2, <1>3, <1>4

\* ... with a range, ...
LEMMA MeaningOfPair ==
    ASSUME NEW n \in Name, NEW x, NEW y
    PROVE  /\ Sets!Meaning("set_range", n, <<x, y>>) = Members(bitmap[n]) \cup (x .. y)
           /\ Sets!Meaning("clr_range", n, <<x, y>>) = Members(bitmap[n]) \ (x .. y)
           /\ Sets!Meaning("replace", n, <<x, y>>) = (Members(bitmap[n]) \ x) \cup y
<1>1. /\ Sets!Meaning("set_range", n, <<x, y>>) = Members(bitmap[n]) \cup (x .. y)
      /\ Sets!Meaning("clr_range", n, <<x, y>>) = Members(bitmap[n]) \ (x .. y)
  BY DEF Sets!Meaning
<1>2. Sets!Meaning("replace", n, <<x, y>>) = (Members(bitmap[n]) \ x) \cup y
  BY DEF Sets!Meaning
<1>. QED  BY <1>1, <1>2

\* ... with one operand, ...
LEMMA MeaningOfSet ==
    ASSUME NEW n \in Name, NEW m1 \in Name
    PROVE  /\ Sets!Meaning("copy", n, <<m1>>) = Members(bitmap[m1])
           /\ Sets!Meaning("not", n, <<m1>>) = Horizon \ Members(bitmap[m1])
BY DEF Sets!Meaning

\* ... and with two.
LEMMA MeaningOfSets ==
    ASSUME NEW n \in Name, NEW m1 \in Name, NEW m2 \in Name
    PROVE  /\ Sets!Meaning("or", n, <<m1, m2>>) = Members(bitmap[m1]) \cup Members(bitmap[m2])
           /\ Sets!Meaning("and", n, <<m1, m2>>) = Members(bitmap[m1]) \cap Members(bitmap[m2])
           /\ Sets!Meaning("andnot", n, <<m1, m2>>) = Members(bitmap[m1]) \ Members(bitmap[m2])
           /\ Sets!Meaning("xor", n, <<m1, m2>>) =
                  (Members(bitmap[m1]) \ Members(bitmap[m2])) \cup (Members(bitmap[m2]) \ Members(bitmap[m1]))
<1>1. /\ Sets!Meaning("or", n, <<m1, m2>>) = Members(bitmap[m1]) \cup Members(bitmap[m2])
      /\ Sets!Meaning("and", n, <<m1, m2>>) = Members(bitmap[m1]) \cap Members(bitmap[m2])
  BY DEF Sets!Meaning
<1>2. /\ Sets!Meaning("andnot", n, <<m1, m2>>) = Members(bitmap[m1]) \ Members(bitmap[m2])
      /\ Sets!Meaning("xor", n, <<m1, m2>>) =
             (Members(bitmap[m1]) \ Members(bitmap[m2])) \cup (Members(bitmap[m2]) \ Members(bitmap[m1]))
  BY DEF Sets!Meaning
<1>. QED  BY <1>1, <1>2

\* A step that stores what CpuSet says keeps the bitmaps and is a step of CpuSet.
LEMMA StoreIs ==
    ASSUME AllBitmaps, NEW op, NEW n \in Name, NEW args, NEW b, Store(op, n, args, b),
           Is(b, Sets!Meaning(op, n, args))
    PROVE  AllBitmaps' /\ Sets!Next
<1>1. bitmap' = [bitmap EXCEPT ![n] = b] /\ call' = [op |-> op, res |-> n, args |-> args]
  BY DEF Store
<1>2. b \in Bitmaps /\ Members(b) = Sets!Meaning(op, n, args)
  BY DEF Is
<1>3. bitmap' \in [Name -> Bitmaps]
  BY <1>1, <1>2 DEF AllBitmaps
<1>4. bitmap'[n] = b /\ \A m \in Name : m # n => bitmap'[m] = bitmap[m]
  BY <1>1 DEF AllBitmaps
<1>5. [m \in Name |-> Members(bitmap'[m])]
          = [[m \in Name |-> Members(bitmap[m])] EXCEPT ![n] = Sets!Meaning(op, n, args)]
  <2>. DEFINE mean == Sets!Meaning(op, n, args)
  <2>. HIDE DEF mean
  <2>1. Members(bitmap'[n]) = mean /\ \A m \in Name : m # n => Members(bitmap'[m]) = Members(bitmap[m])
    BY <1>2, <1>4 DEF mean
  <2>. QED  BY <2>1 DEF mean
<1>6. call'.res = n /\ call'.op = op /\ call'.args = args
  BY <1>1
<1>7. Sets!Next
  BY <1>5, <1>6 DEF Sets!Next
<1>. QED  BY <1>3, <1>7 DEF AllBitmaps

\* Every call that changes one bitmap is that step of the set.
LEMMA ChangeIs ==
    ASSUME AllBitmaps, NEW n \in Name, Change(n)
    PROVE  AllBitmaps' /\ Sets!Next
<1>. DEFINE b == bitmap[n]
<1>0. b \in Bitmaps
  BY DEF AllBitmaps
<1>1. CASE Renew(n)
  <2>1. Is(NewBitmap, Sets!Meaning("renew", n, <<>>))
    BY NewIs, MeaningIs
  <2>. QED  BY <1>1, <2>1, StoreIs DEF Renew
<1>2. CASE Zero(n)
  <2>1. Is(Zeroed(Reset(b, 1)), Sets!Meaning("zero", n, <<>>))
    BY <1>0, ZeroCall, MeaningIs
  <2>. QED  BY <1>2, <2>1, StoreIs DEF Zero
<1>3. CASE Fill(n)
  <2>1. Is(Filled(Reset(b, 1)), Sets!Meaning("fill", n, <<>>))
    BY <1>0, ZeroCall, MeaningIs
  <2>. QED  BY <1>3, <2>1, StoreIs DEF Fill
<1>4. CASE Singlify(n)
  <2>1. Is(Singlified(b), Sets!Meaning("singlify", n, <<>>))
    BY <1>0, <1>4, SinglifyCall, MeaningIs DEF Singlify
  <2>. QED  BY <1>4, <2>1, StoreIs DEF Singlify
<1>5. ASSUME NEW cpu \in Cpus, Only(n, cpu) PROVE AllBitmaps' /\ Sets!Next
  <2>. DEFINE new == [Zeroed(ResetByCpu(b, cpu)) EXCEPT !.ulongs[INDEX(cpu)] = @ \cup {CPU_ULBIT(cpu)}]
  <2>1. Is(new, {cpu}) /\ Sets!Meaning("only", n, <<cpu>>) = {cpu}
    BY <1>0, OnlyCall, MeaningOfIndex
  <2>2. Store("only", n, <<cpu>>, new)
    BY <1>5 DEF Only
  <2>. HIDE DEF new
  <2>. QED  BY <2>1, <2>2, StoreIs
<1>6. ASSUME NEW cpu \in Cpus, AllBut(n, cpu) PROVE AllBitmaps' /\ Sets!Next
  <2>. DEFINE new == [Filled(ResetByCpu(b, cpu)) EXCEPT !.ulongs[INDEX(cpu)] = @ \ {CPU_ULBIT(cpu)}]
  <2>1. Is(new, Horizon \ {cpu}) /\ Sets!Meaning("allbut", n, <<cpu>>) = Horizon \ {cpu}
    BY <1>0, OnlyCall, MeaningOfIndex
  <2>2. Store("allbut", n, <<cpu>>, new)
    BY <1>6 DEF AllBut
  <2>. HIDE DEF new
  <2>. QED  BY <2>1, <2>2, StoreIs
<1>7. ASSUME NEW cpu \in Cpus, Set(n, cpu) PROVE AllBitmaps' /\ Sets!Next
  <2>1. Is(WithCpu(b, cpu), Sets!Meaning("set", n, <<cpu>>))
    BY <1>0, SetCall, MeaningOfIndex
  <2>. QED  BY <1>7, <2>1, StoreIs DEF Set
<1>8. ASSUME NEW cpu \in Cpus, Clr(n, cpu) PROVE AllBitmaps' /\ Sets!Next
  <2>1. Is(WithoutCpu(b, cpu), Sets!Meaning("clr", n, <<cpu>>))
    BY <1>0, ClrCall, MeaningOfIndex
  <2>. QED  BY <1>8, <2>1, StoreIs DEF Clr
<1>9. ASSUME NEW cpu \in Cpus, SetFrom(n, cpu) PROVE AllBitmaps' /\ Sets!Next
  <2>1. Store("set_from", n, <<cpu>>, SetUp(b, cpu))
    BY <1>9 DEF SetFrom, SetUp
  <2>2. Is(SetUp(b, cpu), Sets!Meaning("set_from", n, <<cpu>>))
    BY <1>0, SetFromCall, MeaningOfIndex
  <2>. QED  BY <2>1, <2>2, StoreIs
<1>10. ASSUME NEW cpu \in Cpus, ClrFrom(n, cpu) PROVE AllBitmaps' /\ Sets!Next
  <2>1. Store("clr_from", n, <<cpu>>, ClearedUp(b, cpu))
    BY <1>10 DEF ClrFrom, ClearedUp
  <2>2. Is(ClearedUp(b, cpu), Sets!Meaning("clr_from", n, <<cpu>>))
    BY <1>0, ClrFromCall, MeaningOfIndex
  <2>. QED  BY <2>1, <2>2, StoreIs
<1>11. ASSUME NEW cpu \in Cpus, NEW endcpu \in Cpus, SetRange(n, cpu, endcpu) PROVE AllBitmaps' /\ Sets!Next
  <2>1. Store("set_range", n, <<cpu, endcpu>>, RangeSet(b, cpu, endcpu))
    BY <1>11 DEF SetRange, RangeSet
  <2>2. Is(RangeSet(b, cpu, endcpu), Sets!Meaning("set_range", n, <<cpu, endcpu>>))
    BY <1>0, SetRangeCall, MeaningOfPair
  <2>. QED  BY <2>1, <2>2, StoreIs
<1>12. ASSUME NEW cpu \in Cpus, NEW endcpu \in Cpus, ClrRange(n, cpu, endcpu) PROVE AllBitmaps' /\ Sets!Next
  <2>1. Store("clr_range", n, <<cpu, endcpu>>, RangeCleared(b, cpu, endcpu))
    BY <1>12 DEF ClrRange, RangeCleared
  <2>2. Is(RangeCleared(b, cpu, endcpu), Sets!Meaning("clr_range", n, <<cpu, endcpu>>))
    BY <1>0, ClrRangeCall, MeaningOfPair
  <2>. QED  BY <2>1, <2>2, StoreIs
<1>13. ASSUME NEW i \in Words(MAX_ULONGS), NEW mask \in SUBSET Bit, FromIthUlong(n, i, mask)
       PROVE  AllBitmaps' /\ Sets!Next
  <2>. DEFINE new == [Reset(b, i + 1) EXCEPT !.infinite = FALSE,
                                            !.ulongs = [j \in DOMAIN @ |-> IF j = i THEN mask ELSE ZERO]]
  <2>1. Is(new, Sets!Meaning("assign", n, <<Indices(i, mask)>>))
    <3>1. Is(new, Indices(i, mask))
      BY <1>0, AssignCall
    <3>. HIDE DEF new
    <3>. QED  BY <3>1, MeaningOfIndex
  <2>2. Store("assign", n, <<Indices(i, mask)>>, new)
    BY <1>13 DEF FromIthUlong
  <2>. HIDE DEF new
  <2>. QED  BY <2>1, <2>2, StoreIs
<1>14. ASSUME NEW i \in Words(MAX_ULONGS), NEW mask \in SUBSET Bit, SetIthUlong(n, i, mask)
       PROVE  AllBitmaps' /\ Sets!Next
  <2>. DEFINE new == [Realloc(b, i + 1) EXCEPT !.ulongs[i] = mask]
  <2>1. Is(new, Sets!Meaning("replace", n, <<Indices(i, FULL), Indices(i, mask)>>))
    <3>1. Is(new, (Members(b) \ Indices(i, FULL)) \cup Indices(i, mask))
      BY <1>0, ReplaceCall
    <3>. HIDE DEF new
    <3>. QED  BY <3>1, MeaningOfPair
  <2>2. Store("replace", n, <<Indices(i, FULL), Indices(i, mask)>>, new)
    BY <1>14 DEF SetIthUlong
  <2>. HIDE DEF new
  <2>. QED  BY <2>1, <2>2, StoreIs
<1>15. \A cpu \in Cpus : Ends(cpu) \subseteq Cpus
  BY DEF Ends
<1>. QED  BY <1>1, <1>2, <1>3, <1>4, <1>5, <1>6, <1>7, <1>8, <1>9, <1>10, <1>11, <1>12, <1>13, <1>14,
             <1>15 DEF Change

\* Every step of the bitmaps is a step of the sets.
LEMMA StepIs ==
    ASSUME AllBitmaps, Next
    PROVE  AllBitmaps' /\ Sets!Next
<1>0. Temporary \in Name /\ \A n \in Owned : n \in Name
  BY DEF Name
<1>1. CASE Renew(Temporary)
  <2>1. Is(NewBitmap, Sets!Meaning("renew", Temporary, <<>>))
    BY <1>0, NewIs, MeaningIs
  <2>. QED  BY <1>0, <1>1, <2>1, StoreIs DEF Renew
<1>2. ASSUME NEW n \in Name, Change(n) PROVE AllBitmaps' /\ Sets!Next
  BY <1>2, ChangeIs
<1>3. ASSUME NEW res \in Name, NEW set1 \in Name, Copy(res, set1) PROVE AllBitmaps' /\ Sets!Next
  <2>1. Store("copy", res, <<set1>>, Copied(res, set1))
    BY <1>3 DEF Copy, Copied
  <2>2. Is(Copied(res, set1), Sets!Meaning("copy", res, <<set1>>))
    BY CopyCall, MeaningOfSet
  <2>. QED  BY <2>1, <2>2, StoreIs
<1>4. ASSUME NEW res \in Name, NEW set1 \in Name, Not(res, set1) PROVE AllBitmaps' /\ Sets!Next
  <2>1. Store("not", res, <<set1>>, Negation(res, set1))
    BY <1>4 DEF Not, Negation
  <2>2. Is(Negation(res, set1), Sets!Meaning("not", res, <<set1>>))
    BY NotCall, MeaningOfSet
  <2>. QED  BY <2>1, <2>2, StoreIs
<1>5. ASSUME NEW res \in Name, NEW set1 \in Name, NEW set2 \in Name, Combine(res, set1, set2)
      PROVE  AllBitmaps' /\ Sets!Next
  <2>1. \E op, b : Store(op, res, <<set1, set2>>, b) /\ Is(b, Sets!Meaning(op, res, <<set1, set2>>))
    <3>1. CASE Or(res, set1, set2)
      BY <3>1, OrCall, MeaningOfSets
    <3>2. CASE And(res, set1, set2)
      BY <3>2, AndCall, MeaningOfSets, SMTT(30)
    <3>3. CASE Andnot(res, set1, set2)
      BY <3>3, AndnotCall, MeaningOfSets
    <3>4. CASE Xor(res, set1, set2)
      BY <3>4, XorCall, MeaningOfSets
    <3>. QED  BY <1>5, <3>1, <3>2, <3>3, <3>4 DEF Combine
  <2>. QED  BY <2>1, StoreIs
<1>. QED  BY <1>0, <1>1, <1>2, <1>3, <1>4, <1>5 DEF Next

\* In the beginning all sets are empty.
LEMMA InitIs ==
    ASSUME Init
    PROVE  AllBitmaps /\ Sets!Init
<1>1. \A n \in Name : bitmap[n] = NewBitmap /\ NewBitmap \in Bitmaps /\ Members(NewBitmap) = {}
  BY NewIs DEF Init, Is
<1>2. AllBitmaps
  BY <1>1 DEF Init, AllBitmaps
<1>3. [n \in Name |-> Members(bitmap[n])] = [n \in Name |-> {}] /\ call = [op |-> "none"]
  BY <1>1 DEF Init
<1>. QED  BY <1>2, <1>3 DEF Sets!Init

\* Nothing but a call changes a bitmap.
LEMMA RestIs ==
    ASSUME AllBitmaps, UNCHANGED vars
    PROVE  AllBitmaps' /\ UNCHANGED Sets!vars
BY DEF AllBitmaps, vars, Sets!vars

\* The bitmaps stay bitmaps: the inductive invariant, which is the type invariant
\* as one set of records.
THEOREM BitmapsStay == Spec => []AllBitmaps
<1>1. Init => AllBitmaps
  BY InitIs
<1>2. AllBitmaps /\ [Next]_vars => AllBitmaps'
  BY StepIs, RestIs
<1>. QED  BY <1>1, <1>2, PTL DEF Spec

\* Every bitmap always has at least one word, as many as its count says, and all
\* of them were written: no sequence of calls on bitmaps of any length, with words
\* of any width, leaves a word as the allocator or an earlier value had left it.
THEOREM BitmapTyping == Spec => []TypeOK
<1>1. AllBitmaps => TypeOK
  <2>. SUFFICES ASSUME AllBitmaps, NEW n \in Name
                PROVE  /\ bitmap[n].count \in 1 .. MAX_ULONGS
                       /\ bitmap[n].ulongs \in [Words(bitmap[n].count) -> SUBSET Bit]
                       /\ bitmap[n].infinite \in BOOLEAN
    BY DEF TypeOK
  <2>. QED  BY BitmapIs DEF AllBitmaps
<1>. QED  BY <1>1, BitmapsStay, PTL

\* A bitmap is the set that the interface promises after every sequence of calls,
\* for words of any width and bitmaps of any length: whatever the numbers of words
\* and the tails of the operands, and when the result is one or both of them.
THEOREM BitmapsAreSets == Spec => Implements
<1>1. Init => Sets!Init
  BY InitIs
<1>2. AllBitmaps /\ [Next]_vars => [Sets!Next]_(Sets!vars)
  BY StepIs, RestIs
<1>. QED  BY <1>1, <1>2, BitmapsStay, PTL DEF Spec, Implements, Sets!Spec

(***************************************************************************)
(* Inclusion: the pass over the words knows the relation of the parts that *)
(* it has seen.                                                            *)
(***************************************************************************)
Relation(s, t) ==
    CASE s = t -> "EQUAL"
      [] s # t /\ s \subseteq t -> "INCLUDED"
      [] s # t /\ t \subseteq s -> "CONTAINS"
      [] ~(s \subseteq t) /\ ~(t \subseteq s) /\ s \cap t # {} -> "INTERSECTS"
      [] ~(s \subseteq t) /\ ~(t \subseteq s) /\ s \cap t = {} -> "DIFFERENT"

\* The relation of two sets, as what a reader of it would test.
LEMMA RelationIs ==
    ASSUME NEW s, NEW t
    PROVE  /\ s \subseteq t /\ t \subseteq s => Relation(s, t) = "EQUAL"
           /\ s \subseteq t /\ ~(t \subseteq s) => Relation(s, t) = "INCLUDED"
           /\ ~(s \subseteq t) /\ t \subseteq s => Relation(s, t) = "CONTAINS"
           /\ ~(s \subseteq t) /\ ~(t \subseteq s) /\ s \cap t # {} => Relation(s, t) = "INTERSECTS"
           /\ ~(s \subseteq t) /\ ~(t \subseteq s) /\ s \cap t = {} => Relation(s, t) = "DIFFERENT"
<1>1. s = t <=> s \subseteq t /\ t \subseteq s
  OBVIOUS
<1>. QED  BY <1>1 DEF Relation

\* What is known of two sets: their relation and, until that is final, whether
\* they are empty.
Knows(known, s, t) ==
    /\ known.result = Relation(s, t)
    /\ known.result # "INTERSECTS" => (known.empty1 = TRUE <=> s = {}) /\ (known.empty2 = TRUE <=> t = {})
    /\ known.empty1 \in BOOLEAN /\ known.empty2 \in BOOLEAN

\* Two words, and the parts of two sets that they stand for.
SamePattern(val1, val2, d1, d2) ==
    /\ val1 = ZERO <=> d1 = {}
    /\ val2 = ZERO <=> d2 = {}
    /\ val1 \subseteq val2 <=> d1 \subseteq d2
    /\ val2 \subseteq val1 <=> d2 \subseteq d1
    /\ val1 \cap val2 = ZERO <=> d1 \cap d2 = {}

\* Parts of sets that lie apart from what was seen of them so far.
Apart(s, t, d1, d2) == (s \cup t) \cap (d1 \cup d2) = {}

\* The relation of two sets is that of the parts seen so far and of the next ones.
LEMMA PartsAre ==
    ASSUME NEW s, NEW t, NEW d1, NEW d2, Apart(s, t, d1, d2)
    PROVE  /\ (s \cup d1) \subseteq (t \cup d2) <=> s \subseteq t /\ d1 \subseteq d2
           /\ (t \cup d2) \subseteq (s \cup d1) <=> t \subseteq s /\ d2 \subseteq d1
           /\ (s \cup d1) \cap (t \cup d2) = {} <=> s \cap t = {} /\ d1 \cap d2 = {}
           /\ s \cup d1 = {} <=> s = {} /\ d1 = {}
           /\ t \cup d2 = {} <=> t = {} /\ d2 = {}
<1>1. (s \cup d1) \subseteq (t \cup d2) <=> s \subseteq t /\ d1 \subseteq d2
  BY DEF Apart
<1>2. (t \cup d2) \subseteq (s \cup d1) <=> t \subseteq s /\ d2 \subseteq d1
  BY DEF Apart
<1>3. (s \cup d1) \cap (t \cup d2) = {} <=> s \cap t = {} /\ d1 \cap d2 = {}
  BY DEF Apart
<1>. QED  BY <1>1, <1>2, <1>3

\* One more pair of words.
LEMMA LearnIs ==
    ASSUME NEW known, NEW val1, NEW val2, NEW s, NEW t, NEW d1, NEW d2,
           Knows(known, s, t), SamePattern(val1, val2, d1, d2), Apart(s, t, d1, d2)
    PROVE  Knows(Learn(known, val1, val2), s \cup d1, t \cup d2)
<1>. DEFINE s2 == s \cup d1
            t2 == t \cup d2
            new == Learn(known, val1, val2)
<1>1. /\ s2 \subseteq t2 <=> s \subseteq t /\ d1 \subseteq d2
      /\ t2 \subseteq s2 <=> t \subseteq s /\ d2 \subseteq d1
      /\ s2 \cap t2 = {} <=> s \cap t = {} /\ d1 \cap d2 = {}
      /\ s2 = {} <=> s = {} /\ d1 = {}
      /\ t2 = {} <=> t = {} /\ d2 = {}
  BY PartsAre
<1>2. /\ s = {} => s \subseteq t /\ s \cap t = {}
      /\ t = {} => t \subseteq s /\ s \cap t = {}
      /\ s \cap t = {} /\ s \subseteq t => s = {}
      /\ s \cap t = {} /\ t \subseteq s => t = {}
      /\ d1 = {} => d1 \subseteq d2 /\ d1 \cap d2 = {}
      /\ d2 = {} => d2 \subseteq d1 /\ d1 \cap d2 = {}
      /\ d1 \cap d2 = {} /\ d1 \subseteq d2 => d1 = {}
      /\ d1 \cap d2 = {} /\ d2 \subseteq d1 => d2 = {}
  OBVIOUS
<1>. HIDE DEF s2, t2
<1>3. CASE known.result = "INTERSECTS"
  <2>1. ~(s \subseteq t) /\ ~(t \subseteq s) /\ s \cap t # {}
    BY <1>2, <1>3, RelationIs DEF Knows
  <2>2. Relation(s2, t2) = "INTERSECTS"
    BY <1>1, <2>1, RelationIs
  <2>. QED  BY <1>3, <2>2 DEF Learn, Knows, s2, t2
<1>4. CASE known.result # "INTERSECTS"
  <2>. DEFINE result ==
             CASE val1 = ZERO /\ val2 = ZERO -> known.result
               [] val1 = ZERO /\ val2 # ZERO -> OnlySecond(known)
               [] val1 # ZERO /\ val2 = ZERO -> OnlyFirst(known)
               [] val1 # ZERO /\ val2 # ZERO -> BothHave(known, val1, val2)
  <2>1. new.result = result /\ new.empty1 = (known.empty1 /\ val1 = ZERO)
        /\ new.empty2 = (known.empty2 /\ val2 = ZERO)
    BY <1>4 DEF Learn
  <2>. HIDE DEF new
  <2>2. (known.empty1 = TRUE <=> s = {}) /\ (known.empty2 = TRUE <=> t = {})
        /\ known.empty1 \in BOOLEAN /\ known.empty2 \in BOOLEAN
    BY <1>4 DEF Knows
  <2>3. (new.empty1 = TRUE <=> s2 = {}) /\ (new.empty2 = TRUE <=> t2 = {})
        /\ new.empty1 \in BOOLEAN /\ new.empty2 \in BOOLEAN
    BY <1>1, <2>1, <2>2 DEF SamePattern
  <2>4. /\ s \subseteq t /\ t \subseteq s => known.result = "EQUAL"
        /\ s \subseteq t /\ ~(t \subseteq s) => known.result = "INCLUDED"
        /\ ~(s \subseteq t) /\ t \subseteq s => known.result = "CONTAINS"
        /\ ~(s \subseteq t) /\ ~(t \subseteq s) => known.result = "DIFFERENT" /\ s \cap t = {}
    BY <1>4, RelationIs DEF Knows
  <2>5. result = Relation(s2, t2)
    <3>1. CASE val1 = ZERO /\ val2 = ZERO
      BY <1>1, <1>2, <2>4, <3>1, RelationIs DEF SamePattern
    <3>2. CASE val1 = ZERO /\ val2 # ZERO
      BY <1>1, <1>2, <2>2, <2>4, <3>2, RelationIs DEF SamePattern, OnlySecond
    <3>3. CASE val1 # ZERO /\ val2 = ZERO
      BY <1>1, <1>2, <2>2, <2>4, <3>3, RelationIs DEF SamePattern, OnlyFirst
    <3>4. CASE val1 # ZERO /\ val2 # ZERO
      <4>1. /\ val1 = val2 <=> d1 \subseteq d2 /\ d2 \subseteq d1
            /\ val1 \cap val2 = val1 <=> d1 \subseteq d2
            /\ val1 \cap val2 = val2 <=> d2 \subseteq d1
            /\ val1 \cap val2 = ZERO <=> d1 \cap d2 = {}
            /\ d1 # {} /\ d2 # {}
        BY <3>4 DEF SamePattern
      <4>. QED  BY <1>1, <1>2, <2>2, <2>4, <3>4, <4>1, RelationIs DEF BothHave
    <3>. QED  BY <3>1, <3>2, <3>3, <3>4
  <2>. QED  BY <2>1, <2>3, <2>5 DEF Knows, new, s2, t2
<1>. QED  BY <1>3, <1>4

\* The part of a set that the tail of its bitmap stands for.
TailPart(b, d) == IF b.infinite = TRUE THEN d ELSE {}

\* The tails, as one more pair of words.
LEMMA TailsAre ==
    ASSUME NEW known, NEW b1, NEW b2, NEW s, NEW t, NEW d, d # {},
           b1.infinite \in BOOLEAN, b2.infinite \in BOOLEAN,
           Knows(known, s, t), Apart(s, t, d, d)
    PROVE  Tails(known, b1, b2) = Relation(s \cup TailPart(b1, d),
                                           t \cup TailPart(b2, d))
<1>. DEFINE d1 == TailPart(b1, d)
            d2 == TailPart(b2, d)
            s2 == s \cup d1
            t2 == t \cup d2
<1>0. Apart(s, t, d1, d2)
  BY DEF Apart, TailPart
<1>1. /\ s2 \subseteq t2 <=> s \subseteq t /\ d1 \subseteq d2
      /\ t2 \subseteq s2 <=> t \subseteq s /\ d2 \subseteq d1
      /\ s2 \cap t2 = {} <=> s \cap t = {} /\ d1 \cap d2 = {}
  <2>. HIDE DEF d1, d2
  <2>. QED  BY <1>0, PartsAre
<1>2. /\ b1.infinite = TRUE => d1 = d
      /\ b1.infinite = FALSE => d1 = {}
      /\ b2.infinite = TRUE => d2 = d
      /\ b2.infinite = FALSE => d2 = {}
  BY DEF TailPart
<1>. HIDE DEF d1, d2, s2, t2
<1>3. /\ d1 \subseteq d2 <=> (b1.infinite = TRUE => b2.infinite = TRUE)
      /\ d2 \subseteq d1 <=> (b2.infinite = TRUE => b1.infinite = TRUE)
      /\ d1 \cap d2 = {} <=> ~(b1.infinite = TRUE /\ b2.infinite = TRUE)
  BY <1>2
<1>4. /\ s = {} => s \subseteq t /\ s \cap t = {}
      /\ t = {} => t \subseteq s /\ s \cap t = {}
      /\ s \cap t = {} /\ s \subseteq t => s = {}
      /\ s \cap t = {} /\ t \subseteq s => t = {}
  OBVIOUS
<1>5. CASE known.result = "INTERSECTS"
  <2>1. ~(s \subseteq t) /\ ~(t \subseteq s) /\ s \cap t # {}
    BY <1>4, <1>5, RelationIs DEF Knows
  <2>2. Relation(s2, t2) = "INTERSECTS"
    BY <1>1, <2>1, RelationIs
  <2>. QED  BY <1>5, <2>2 DEF Tails, d1, d2, s2, t2
<1>6. CASE known.result # "INTERSECTS"
  <2>1. (known.empty1 = TRUE <=> s = {}) /\ (known.empty2 = TRUE <=> t = {})
        /\ known.empty1 \in BOOLEAN /\ known.empty2 \in BOOLEAN
    BY <1>6 DEF Knows
  <2>2. /\ s \subseteq t /\ t \subseteq s => known.result = "EQUAL"
        /\ s \subseteq t /\ ~(t \subseteq s) => known.result = "INCLUDED"
        /\ ~(s \subseteq t) /\ t \subseteq s => known.result = "CONTAINS"
        /\ ~(s \subseteq t) /\ ~(t \subseteq s) => known.result = "DIFFERENT" /\ s \cap t = {}
    BY <1>6, RelationIs DEF Knows
  <2>3. Tails(known, b1, b2) = Relation(s2, t2)
    <3>1. CASE b1.infinite = TRUE
      BY <1>1, <1>3, <1>4, <1>6, <2>1, <2>2, <3>1, RelationIs DEF Tails, OnlyFirst
    <3>2. CASE b1.infinite = FALSE
      BY <1>1, <1>3, <1>4, <1>6, <2>1, <2>2, <3>2, RelationIs DEF Tails, OnlySecond
    <3>. QED  BY <3>1, <3>2
  <2>. QED  BY <2>3 DEF d1, d2, s2, t2
<1>. QED  BY <1>5, <1>6

\* The pass, as the function that the definition names.
IsPass(b1, b2, most, known) ==
    known = [i \in 0 .. most |->
                IF i = 0 THEN NothingYet
                ELSE Learn(known[i - 1], READULONG(b1, i - 1), READULONG(b2, i - 1))]

\* There is one, over any number of words.
LEMMA PassExists ==
    ASSUME NEW b1, NEW b2, NEW most \in Nat
    PROVE  \E known : IsPass(b1, b2, most, known)
<1>. DEFINE S == {n \in Nat : ~\E known : IsPass(b1, b2, n, known)}
<1>1. SUFFICES ASSUME S # {} PROVE FALSE
  OBVIOUS
<1>2. PICK n \in S : \A m \in S : n <= m
  BY <1>1, LeastNat
<1>3. CASE n = 0
  <2>. DEFINE g == [i \in 0 .. 0 |-> NothingYet]
  <2>1. IsPass(b1, b2, 0, g)
    BY DEF IsPass
  <2>. QED  BY <1>3, <2>1
<1>4. CASE n # 0
  <2>1. n - 1 \in Nat /\ n - 1 \notin S
    BY <1>2, <1>4
  <2>2. PICK f : IsPass(b1, b2, n - 1, f)
    BY <2>1
  <2>. DEFINE g == [i \in 0 .. n |->
                       IF i = n THEN Learn(f[n - 1], READULONG(b1, n - 1), READULONG(b2, n - 1)) ELSE f[i]]
  <2>3. \A i \in 0 .. n - 1 :
            f[i] = IF i = 0 THEN NothingYet
                   ELSE Learn(f[i - 1], READULONG(b1, i - 1), READULONG(b2, i - 1))
    BY <2>2 DEF IsPass
  <2>4. \A i \in 0 .. n : i # n => g[i] = f[i]
    OBVIOUS
  <2>5. g[n] = Learn(f[n - 1], READULONG(b1, n - 1), READULONG(b2, n - 1))
    BY <1>2
  <2>6. g = [i \in 0 .. n |-> g[i]]
    OBVIOUS
  <2>. HIDE DEF g
  <2>7. ASSUME NEW i \in 0 .. n
        PROVE  g[i] = IF i = 0 THEN NothingYet
                      ELSE Learn(g[i - 1], READULONG(b1, i - 1), READULONG(b2, i - 1))
    <3>1. i # 0 => i - 1 \in 0 .. n /\ i - 1 # n /\ g[i - 1] = f[i - 1]
      BY <1>2, <2>4
    <3>2. CASE i = n
      BY <1>4, <2>5, <3>1, <3>2
    <3>3. CASE i # n
      <4>1. i \in 0 .. n - 1
        BY <1>2, <3>3
      <4>. QED  BY <2>3, <2>4, <3>1, <3>3, <4>1
    <3>. QED  BY <3>2, <3>3
  <2>8. IsPass(b1, b2, n, g)
    BY <2>6, <2>7 DEF IsPass
  <2>. QED  BY <1>2, <2>8
<1>. QED  BY <1>3, <1>4

\* The members in the words before one, and in that one.
Before(s, i) == {x \in s : INDEX(x) < i}
Within(s, i) == {x \in s : INDEX(x) = i}

\* The bits of a word are the members in it.
LEMMA WithinIs ==
    ASSUME NEW b1 \in Bitmaps, NEW b2 \in Bitmaps, NEW i \in Nat, i < MAX_ULONGS
    PROVE  SamePattern(READULONG(b1, i), READULONG(b2, i),
                       Within(Members(b1), i), Within(Members(b2), i))
<1>. DEFINE v1 == READULONG(b1, i)
            v2 == READULONG(b2, i)
            d1 == Within(Members(b1), i)
            d2 == Within(Members(b2), i)
<1>1. v1 \in SUBSET Bit /\ v2 \in SUBSET Bit
  BY BitmapIs
<1>2. ASSUME NEW bit \in Bit
      PROVE  /\ At(i, bit) \in d1 <=> bit \in v1
             /\ At(i, bit) \in d2 <=> bit \in v2
  <2>1. At(i, bit) \in Horizon /\ INDEX(At(i, bit)) = i /\ CPU_ULBIT(At(i, bit)) = bit
    <3>1. i \in Words(MAX_ULONGS)
      BY HorizonIs DEF Words
    <3>. QED  BY <3>1, AtIs, HorizonIs
  <2>2. /\ At(i, bit) \in Members(b1) <=> bit \in v1
        /\ At(i, bit) \in Members(b2) <=> bit \in v2
    BY <2>1, MemberIs
  <2>. QED  BY <2>1, <2>2 DEF Within
<1>3. ASSUME NEW x \in d1 \cup d2 PROVE CPU_ULBIT(x) \in Bit /\ x = At(i, CPU_ULBIT(x))
  <2>1. x \in Horizon /\ INDEX(x) = i
    BY MembersInHorizon DEF Within
  <2>. QED  BY <2>1, InHorizon
<1>. HIDE DEF v1, v2, d1, d2
<1>4. \A x \in d1 : CPU_ULBIT(x) \in v1
  BY <1>2, <1>3
<1>5. \A x \in d2 : CPU_ULBIT(x) \in v2
  BY <1>2, <1>3
<1>6. (v1 = {} <=> d1 = {}) /\ (v2 = {} <=> d2 = {})
  BY <1>1, <1>2, <1>4, <1>5
<1>7. v1 \subseteq v2 <=> d1 \subseteq d2
  BY <1>1, <1>2, <1>3
<1>8. v2 \subseteq v1 <=> d2 \subseteq d1
  BY <1>1, <1>2, <1>3
<1>9. v1 \cap v2 = {} <=> d1 \cap d2 = {}
  <2>1. ASSUME NEW bit \in v1 \cap v2 PROVE At(i, bit) \in d1 \cap d2
    BY <1>1, <1>2
  <2>2. ASSUME NEW x \in d1 \cap d2 PROVE CPU_ULBIT(x) \in v1 \cap v2
    BY <1>4, <1>5
  <2>. QED  BY <2>1, <2>2
<1>. QED  BY <1>6, <1>7, <1>8, <1>9 DEF SamePattern, ZERO, v1, v2, d1, d2

\* After every word, the pass knows the relation of the members up to there.
LEMMA PassKnows ==
    ASSUME NEW b1 \in Bitmaps, NEW b2 \in Bitmaps, NEW most \in Nat, most <= MAX_ULONGS,
           NEW known, IsPass(b1, b2, most, known)
    PROVE  Knows(known[most], Before(Members(b1), most), Before(Members(b2), most))
<1>. DEFINE s(i) == Before(Members(b1), i)
            t(i) == Before(Members(b2), i)
            S == {i \in 0 .. most : ~Knows(known[i], s(i), t(i))}
<1>0. \A x \in Members(b1) \cup Members(b2) : INDEX(x) \in Nat
  BY MembersInHorizon, InHorizon
<1>1. SUFFICES ASSUME S # {} PROVE FALSE
  <2>1. most \in 0 .. most
    OBVIOUS
  <2>. QED  BY <2>1
<1>2. PICK n \in S : \A m \in S : n <= m
  <2>1. S \in SUBSET Nat
    OBVIOUS
  <2>. HIDE DEF S
  <2>. QED  BY <1>1, <2>1, LeastNat
<1>3. \A i \in 0 .. most :
          known[i] = IF i = 0 THEN NothingYet
                     ELSE Learn(known[i - 1], READULONG(b1, i - 1), READULONG(b2, i - 1))
  BY DEF IsPass
<1>4. CASE n = 0
  <2>1. s(0) = {} /\ t(0) = {}
    BY <1>0 DEF Before
  <2>2. known[0] = NothingYet
    BY <1>2, <1>3, <1>4
  <2>3. Relation({}, {}) = "EQUAL"
    BY RelationIs
  <2>4. Knows(NothingYet, {}, {})
    BY <2>3 DEF Knows, NothingYet
  <2>. QED  BY <1>2, <1>4, <2>1, <2>2, <2>4
<1>5. CASE n # 0
  <2>. DEFINE i == n - 1
              d1 == Within(Members(b1), i)
              d2 == Within(Members(b2), i)
  <2>1. n \in Nat /\ i \in 0 .. most /\ i \in Nat /\ i + 1 = n /\ i \notin S /\ i < MAX_ULONGS
    BY <1>2, <1>5, HorizonIs
  <2>2. Knows(known[i], s(i), t(i))
    BY <2>1
  <2>3. SamePattern(READULONG(b1, i), READULONG(b2, i), d1, d2)
    BY <2>1, WithinIs
  <2>4. \A x \in Members(b1) \cup Members(b2) : INDEX(x) < n <=> INDEX(x) < i \/ INDEX(x) = i
    BY <1>0, <2>1
  <2>5. \A x \in Members(b1) \cup Members(b2) : ~(INDEX(x) < i /\ INDEX(x) = i)
    BY <1>0, <2>1
  <2>6. s(n) = s(i) \cup d1 /\ t(n) = t(i) \cup d2
    BY <2>4 DEF Before, Within
  <2>7. Apart(s(i), t(i), d1, d2)
    BY <2>5 DEF Before, Within, Apart
  <2>8. known[n] = Learn(known[i], READULONG(b1, i), READULONG(b2, i))
    BY <1>2, <1>3, <1>5
  <2>. HIDE DEF i, d1, d2, s, t
  <2>9. Knows(Learn(known[i], READULONG(b1, i), READULONG(b2, i)), s(i) \cup d1, t(i) \cup d2)
    BY <2>2, <2>3, <2>7, LearnIs
  <2>. QED  BY <1>2, <2>6, <2>8, <2>9
<1>. QED  BY <1>4, <1>5

\* The answer of hwloc_bitmap_compare_inclusion is the relation of the sets.
LEMMA InclusionIs ==
    ASSUME NEW b1 \in Bitmaps, NEW b2 \in Bitmaps
    PROVE  CompareInclusion(b1, b2) = Relation(Members(b1), Members(b2))
<1>. DEFINE most == IF b1.count > b2.count THEN b1.count ELSE b2.count
            pass == CHOOSE known :
                        known = [i \in 0 .. most |->
                                    IF i = 0 THEN NothingYet
                                    ELSE Learn(known[i - 1], READULONG(b1, i - 1), READULONG(b2, i - 1))]
<1>1. most \in Nat /\ most <= MAX_ULONGS /\ b1.count <= most /\ b2.count <= most
      /\ b1.count \in Nat /\ b2.count \in Nat /\ b1.infinite \in BOOLEAN /\ b2.infinite \in BOOLEAN
  BY BitmapIs
<1>2. CompareInclusion(b1, b2) = Tails(pass[most], b1, b2)
  BY DEF CompareInclusion
<1>. HIDE DEF most
<1>3. IsPass(b1, b2, most, pass)
  <2>1. \E known : IsPass(b1, b2, most, known)
    BY <1>1, PassExists
  <2>. QED  BY <2>1 DEF IsPass
<1>. HIDE DEF pass
<1>. DEFINE s == Before(Members(b1), most)
            t == Before(Members(b2), most)
            d == {x \in Horizon : INDEX(x) >= most}
<1>4. Knows(pass[most], s, t)
  BY <1>1, <1>3, PassKnows
<1>5. d # {}
  BY <1>1, HorizonIs
<1>6. \A x \in Horizon : INDEX(x) \in Nat /\ (INDEX(x) < most <=> ~(INDEX(x) >= most))
  BY <1>1, InHorizon
<1>7. Apart(s, t, d, d)
  BY <1>6 DEF Apart, Before
<1>8. Members(b1) = s \cup TailPart(b1, d)
  <2>1. ASSUME NEW x \in Horizon, INDEX(x) >= most PROVE x \in Members(b1) <=> b1.infinite = TRUE
    <3>1. ~(INDEX(x) < b1.count)
      BY <1>1, <1>6, <2>1
    <3>. QED  BY <3>1, WordOf
  <2>. QED  BY <1>6, <2>1, MembersInHorizon DEF Before, TailPart
<1>9. Members(b2) = t \cup TailPart(b2, d)
  <2>1. ASSUME NEW x \in Horizon, INDEX(x) >= most PROVE x \in Members(b2) <=> b2.infinite = TRUE
    <3>1. ~(INDEX(x) < b2.count)
      BY <1>1, <1>6, <2>1
    <3>. QED  BY <3>1, WordOf
  <2>. QED  BY <1>6, <2>1, MembersInHorizon DEF Before, TailPart
<1>. HIDE DEF s, t, d
<1>10. Tails(pass[most], b1, b2) = Relation(s \cup TailPart(b1, d),
                                            t \cup TailPart(b2, d))
  BY <1>1, <1>4, <1>5, <1>7, TailsAre
<1>. QED  BY <1>2, <1>8, <1>9, <1>10

\* hwloc_bitmap_compare_inclusion, which decides where an object belongs in the
\* tree, tells the five relations of two sets apart in one pass, for bitmaps of
\* any length.
THEOREM BitmapInclusion == Spec => []InclusionExact
<1>1. AllBitmaps => InclusionExact
  <2>. SUFFICES ASSUME AllBitmaps, NEW m \in Owned, NEW n \in Owned
                PROVE  CompareInclusion(bitmap[m], bitmap[n]) =
                           Relation(Members(bitmap[m]), Members(bitmap[n]))
    BY DEF InclusionExact, Relation
  <2>1. bitmap[m] \in Bitmaps /\ bitmap[n] \in Bitmaps
    BY DEF AllBitmaps, Name
  <2>. QED  BY <2>1, InclusionIs
<1>. QED  BY <1>1, BitmapsStay, PTL

(***************************************************************************)
(* The two orders.                                                         *)
(***************************************************************************)
\* The index that stands for all that no call names.
Top == At(MAX_ULONGS, 0)

\* It is the last index of all, and a member of the bitmaps with an infinite tail.
LEMMA TopIs ==
    /\ Top \in Horizon /\ \A x \in Horizon : x <= Top
    /\ \A b \in Bitmaps : Top \in Members(b) <=> b.infinite = TRUE
<1>1. Top \in Horizon /\ INDEX(Top) = MAX_ULONGS /\ MAX_ULONGS \in Nat \ {0}
  BY HorizonIs DEF Top
<1>2. \A x \in Horizon : x <= Top
  <2>1. Top = MAX_ULONGS * BITS_PER_LONG /\ Top \in Nat
    BY <1>1, HorizonIs, InHorizon DEF Top
  <2>. QED  BY <2>1 DEF Horizon
<1>3. ASSUME NEW b \in Bitmaps PROVE Top \in Members(b) <=> b.infinite = TRUE
  <2>1. ~(INDEX(Top) < b.count)
    BY <1>1, BitmapIs
  <2>. QED  BY <1>1, <2>1, WordOf
<1>. QED  BY <1>1, <1>2, <1>3

\* A place before the horizon is a member when its bit is set.
LEMMA PlaceMember ==
    ASSUME NEW b \in Bitmaps, NEW i \in Nat, NEW bit \in Bit, i < MAX_ULONGS \/ (i = MAX_ULONGS /\ bit = 0)
    PROVE  /\ At(i, bit) \in Horizon /\ INDEX(At(i, bit)) = i /\ CPU_ULBIT(At(i, bit)) = bit
           /\ At(i, bit) \in Members(b) <=> bit \in READULONG(b, i)
<1>1. At(i, bit) \in Horizon
  <2>1. CASE i < MAX_ULONGS
    <3>1. i \in Words(MAX_ULONGS)
      BY <2>1, HorizonIs DEF Words
    <3>. QED  BY <3>1, HorizonIs
  <2>2. CASE i = MAX_ULONGS /\ bit = 0
    BY <2>2, HorizonIs
  <2>. QED  BY <2>1, <2>2
<1>. QED  BY <1>1, AtIs, MemberIs

\* hwloc_bitmap_compare is the order of the largest index that only one has.
LEMMA CompareIs ==
    ASSUME NEW b1 \in Bitmaps, NEW b2 \in Bitmaps,
           NEW s, s = Members(b1), NEW t, t = Members(b2),
           NEW differ, differ = (s \ t) \cup (t \ s)
    PROVE  Compare(b1, b2) = IF differ = {} THEN 0 ELSE IF Max(differ) \in t THEN -1 ELSE 1
<1>. DEFINE most == IF b1.count > b2.count THEN b1.count ELSE b2.count
            W == {i \in Words(most) : READULONG(b1, i) # READULONG(b2, i)}
<1>1. /\ most \in Nat /\ most <= MAX_ULONGS /\ b1.count \in Nat /\ b2.count \in Nat
      /\ b1.count <= most /\ b2.count <= most
      /\ b1.infinite \in BOOLEAN /\ b2.infinite \in BOOLEAN
      /\ \A i \in Nat : READULONG(b1, i) \in SUBSET Bit /\ READULONG(b2, i) \in SUBSET Bit
  BY BitmapIs
<1>2. /\ b1.infinite # b2.infinite => Compare(b1, b2) = Infinity(b1) - Infinity(b2)
      /\ b1.infinite = b2.infinite /\ W = {} => Compare(b1, b2) = 0
      /\ b1.infinite = b2.infinite /\ W # {} =>
             Compare(b1, b2) = IF Below(READULONG(b1, Max(W)), READULONG(b2, Max(W))) THEN -1 ELSE 1
  <2>1. CASE b1.infinite # b2.infinite
    BY <2>1 DEF Compare
  <2>2. CASE b1.infinite = b2.infinite /\ W = {}
    BY <2>2 DEF Compare
  <2>3. CASE b1.infinite = b2.infinite /\ W # {}
    BY <2>3 DEF Compare
  <2>. QED  BY <2>1, <2>2, <2>3
<1>. HIDE DEF most
<1>3. differ \in SUBSET Horizon /\ differ \in SUBSET Nat /\ s \in SUBSET Horizon /\ t \in SUBSET Horizon
  BY MembersInHorizon, HorizonIs
<1>4. CASE b1.infinite # b2.infinite
  <2>1. Top \in differ /\ (Top \in t <=> b2.infinite = TRUE)
    BY <1>1, <1>4, TopIs
  <2>2. Max(differ) = Top
    BY <1>3, <2>1, TopIs, ExtremesAre
  <2>3. Infinity(b1) - Infinity(b2) = IF b2.infinite = TRUE THEN -1 ELSE 1
    BY <1>1, <1>4 DEF Infinity
  <2>. QED  BY <1>2, <1>4, <2>1, <2>2, <2>3
<1>5. CASE b1.infinite = b2.infinite
  <2>1. ASSUME NEW x \in differ
        PROVE  /\ INDEX(x) \in W /\ x \in Nat /\ INDEX(x) \in Nat /\ CPU_ULBIT(x) \in Bit
               /\ \/ CPU_ULBIT(x) \in READULONG(b1, INDEX(x)) \ READULONG(b2, INDEX(x))
                  \/ CPU_ULBIT(x) \in READULONG(b2, INDEX(x)) \ READULONG(b1, INDEX(x))
    <3>1. x \in Horizon /\ x \in Nat /\ INDEX(x) \in Nat /\ CPU_ULBIT(x) \in Bit
      BY <1>3, InHorizon
    <3>2. /\ x \in s <=> CPU_ULBIT(x) \in READULONG(b1, INDEX(x))
          /\ x \in t <=> CPU_ULBIT(x) \in READULONG(b2, INDEX(x))
      BY <3>1, MemberIs
    <3>3. READULONG(b1, INDEX(x)) # READULONG(b2, INDEX(x))
      BY <3>2
    <3>4. INDEX(x) < most
      <4>. SUFFICES ASSUME ~(INDEX(x) < most) PROVE FALSE
        OBVIOUS
      <4>1. ~(INDEX(x) < b1.count) /\ ~(INDEX(x) < b2.count)
        BY <1>1, <3>1
      <4>. QED  BY <1>5, <3>3, <4>1 DEF READULONG, Beyond
    <3>. QED  BY <1>1, <3>1, <3>2, <3>3, <3>4 DEF Words
  <2>2. CASE W = {}
    BY <1>2, <1>5, <2>1, <2>2
  <2>3. CASE W # {}
    <3>. DEFINE hi == Max(W)
                w1 == READULONG(b1, hi)
                w2 == READULONG(b2, hi)
                bits == (w1 \ w2) \cup (w2 \ w1)
                bit == Max(bits)
                y == At(hi, bit)
    <3>1. hi \in W /\ \A i \in W : i <= hi
      <4>1. W \in SUBSET Nat /\ \A i \in W : i <= most
        BY <1>1 DEF Words
      <4>. HIDE DEF W
      <4>. QED  BY <1>1, <2>3, <4>1, MaxIs
    <3>2. hi \in Nat /\ hi < MAX_ULONGS /\ w1 # w2
      BY <1>1, <3>1, HorizonIs DEF Words
    <3>. HIDE DEF hi, W
    <3>3. w1 \in SUBSET Bit /\ w2 \in SUBSET Bit
      BY <1>1, <3>2
    <3>. HIDE DEF w1, w2
    <3>4. bits # {} /\ bits \in SUBSET Bit
      BY <3>2, <3>3
    <3>5. bit \in bits /\ \A k \in bits : k <= bit
      <4>1. bits \in SUBSET Nat /\ BITS_PER_LONG \in Nat /\ \A k \in bits : k <= BITS_PER_LONG
        BY <3>4, WidthIs DEF Bit
      <4>. HIDE DEF bits
      <4>. QED  BY <3>4, <4>1, MaxIs
    <3>6. Below(w1, w2) <=> bit \in w2
      BY <3>4 DEF Below
    <3>. HIDE DEF bit
    <3>7. bit \in Bit /\ (bit \in w1 <=> ~(bit \in w2))
      BY <3>4, <3>5
    <3>8. y \in Horizon /\ INDEX(y) = hi /\ CPU_ULBIT(y) = bit /\ (y \in s <=> bit \in w1)
          /\ (y \in t <=> bit \in w2)
      BY <3>2, <3>7, PlaceMember DEF w1, w2
    <3>. HIDE DEF y
    <3>9. y \in differ
      BY <3>7, <3>8
    <3>10. ASSUME NEW x \in differ PROVE x <= y
      <4>1. INDEX(x) \in W /\ x \in Nat /\ INDEX(x) \in Nat /\ CPU_ULBIT(x) \in Bit
            /\ (INDEX(x) = hi => CPU_ULBIT(x) \in bits)
        BY <2>1 DEF w1, w2
      <4>2. INDEX(x) <= hi /\ (INDEX(x) = hi => CPU_ULBIT(x) <= bit)
        BY <3>1, <3>5, <4>1
      <4>3. y \in Nat /\ CPU_ULBIT(x) \in Nat /\ bit \in Nat
        BY <1>3, <3>7, <3>9, <4>1, WidthIs
      <4>. QED  BY <3>2, <3>8, <4>1, <4>2, <4>3, OrderIs
    <3>11. Max(differ) = y
      BY <1>3, <3>9, <3>10, ExtremesAre
    <3>. QED  BY <1>2, <1>5, <2>3, <3>6, <3>8, <3>9, <3>11 DEF hi, w1, w2
  <2>. QED  BY <2>2, <2>3
<1>. QED  BY <1>4, <1>5

\* A bitmap that has no bit before some word has no member there.
LEMMA NoneBefore ==
    ASSUME NEW b \in Bitmaps, NEW i \in Nat, \A j \in Nat : j < i => READULONG(b, j) = {}
    PROVE  \A x \in Members(b) : /\ x \in Nat /\ INDEX(x) \in Nat /\ INDEX(x) >= i
                                 /\ CPU_ULBIT(x) \in READULONG(b, INDEX(x)) /\ CPU_ULBIT(x) \in Bit
<1>. SUFFICES ASSUME NEW x \in Members(b)
              PROVE  /\ x \in Nat /\ INDEX(x) \in Nat /\ INDEX(x) >= i
                     /\ CPU_ULBIT(x) \in READULONG(b, INDEX(x)) /\ CPU_ULBIT(x) \in Bit
  OBVIOUS
<1>1. x \in Horizon
  BY MembersInHorizon
<1>2. x \in Nat /\ INDEX(x) \in Nat /\ CPU_ULBIT(x) \in Bit
  BY <1>1, InHorizon
<1>3. CPU_ULBIT(x) \in READULONG(b, INDEX(x))
  BY <1>1, MemberIs
<1>4. ~(INDEX(x) < i)
  BY <1>2, <1>3
<1>. QED  BY <1>2, <1>3, <1>4

\* The first bit of the first word that has one is the least member.
LEMMA LeastIs ==
    ASSUME NEW b \in Bitmaps, NEW i \in Nat, i <= MAX_ULONGS,
           \A j \in Nat : j < i => READULONG(b, j) = {}, READULONG(b, i) # {},
           NEW bit, bit = Min(READULONG(b, i))
    PROVE  /\ bit \in READULONG(b, i) /\ bit \in Bit /\ bit \in Nat
           /\ \A k \in READULONG(b, i) : bit <= k
           /\ At(i, bit) \in Members(b) /\ Min(Members(b)) = At(i, bit)
           /\ INDEX(At(i, bit)) = i /\ CPU_ULBIT(At(i, bit)) = bit
<1>. DEFINE w == READULONG(b, i)
            y == At(i, bit)
<1>1. w \in SUBSET Bit /\ w \in SUBSET Nat
  BY BitmapIs, WidthIs
<1>2. bit \in w /\ \A k \in w : bit <= k
  <2>. HIDE DEF w
  <2>. QED  BY <1>1, MinIs DEF w
<1>3. bit \in Bit /\ bit \in Nat
  BY <1>1, <1>2
<1>4. i = MAX_ULONGS => bit = 0
  <2>. SUFFICES ASSUME i = MAX_ULONGS PROVE bit = 0
    OBVIOUS
  <2>1. ~(i < b.count)
    BY BitmapIs
  <2>2. w = Bit
    BY <2>1 DEF READULONG, Beyond, FULL, ZERO
  <2>. QED  BY <1>2, <1>3, <2>2, WidthIs
<1>5. i < MAX_ULONGS \/ (i = MAX_ULONGS /\ bit = 0)
  BY <1>4, HorizonIs
<1>6. y \in Horizon /\ INDEX(y) = i /\ CPU_ULBIT(y) = bit /\ y \in Members(b)
  BY <1>2, <1>3, <1>5, PlaceMember
<1>. HIDE DEF y
<1>7. ASSUME NEW x \in Members(b) PROVE y <= x
  <2>1. x \in Nat /\ INDEX(x) \in Nat /\ INDEX(x) >= i /\ CPU_ULBIT(x) \in Nat
        /\ (INDEX(x) = i => CPU_ULBIT(x) \in w)
    BY NoneBefore, WidthIs
  <2>2. y \in Nat /\ (INDEX(x) = i => bit <= CPU_ULBIT(x))
    BY <1>2, <1>6, <2>1, InHorizon
  <2>3. ~(x < y)
    BY <1>3, <1>6, <2>1, <2>2, OrderIs
  <2>. QED  BY <2>1, <2>2, <2>3
<1>8. Members(b) \in SUBSET Nat
  BY MembersInHorizon, HorizonIs
<1>9. Min(Members(b)) = y
  BY <1>6, <1>7, <1>8, ExtremesAre
<1>. QED  BY <1>2, <1>3, <1>6, <1>9 DEF y

\* The order of the smallest members, with the empty set last.
FirstOrder(s, t) ==
    CASE s = {} /\ t = {} -> 0
      [] s = {} /\ t # {} -> 1
      [] s # {} /\ t = {} -> -1
      [] s # {} /\ t # {} -> Sign(Min(s) - Min(t))

\* The order of the smallest members, as what a reader of it would test.
LEMMA FirstOrderIs ==
    ASSUME NEW s \in SUBSET Nat, NEW t \in SUBSET Nat
    PROVE  /\ s = {} /\ t = {} => FirstOrder(s, t) = 0
           /\ s = {} /\ t # {} => FirstOrder(s, t) = 1
           /\ s # {} /\ t = {} => FirstOrder(s, t) = -1
           /\ \A x \in s, y \in t : Min(s) = x /\ Min(t) = y => FirstOrder(s, t) = Sign(x - y)
           /\ \A x \in s : Min(s) = x /\ (\A y \in t : x < y) => FirstOrder(s, t) = -1
           /\ \A y \in t : Min(t) = y /\ (\A x \in s : y < x) => FirstOrder(s, t) = 1
<1>1. /\ s = {} /\ t = {} => FirstOrder(s, t) = 0
      /\ s = {} /\ t # {} => FirstOrder(s, t) = 1
      /\ s # {} /\ t = {} => FirstOrder(s, t) = -1
      /\ s # {} /\ t # {} => FirstOrder(s, t) = Sign(Min(s) - Min(t))
  BY DEF FirstOrder
<1>2. ASSUME NEW x \in s, Min(s) = x, \A y \in t : x < y PROVE FirstOrder(s, t) = -1
  <2>1. CASE t = {}
    BY <1>1, <2>1
  <2>2. CASE t # {}
    <3>1. Min(t) \in t
      BY <2>2, MinIs
    <3>2. x < Min(t) /\ Min(t) \in Nat
      BY <1>2, <3>1
    <3>3. x - Min(t) < 0
      BY <3>2
    <3>. QED  BY <1>1, <1>2, <2>2, <3>3 DEF Sign
  <2>. QED  BY <2>1, <2>2
<1>3. ASSUME NEW y \in t, Min(t) = y, \A x \in s : y < x PROVE FirstOrder(s, t) = 1
  <2>1. CASE s = {}
    BY <1>1, <2>1
  <2>2. CASE s # {}
    <3>1. Min(s) \in s
      BY <2>2, MinIs
    <3>2. y < Min(s) /\ Min(s) \in Nat
      BY <1>3, <3>1
    <3>3. Min(s) - y > 0 /\ ~(Min(s) - y < 0)
      BY <3>2
    <3>. QED  BY <1>1, <1>3, <2>2, <3>3 DEF Sign
  <2>. QED  BY <2>1, <2>2
<1>. QED  BY <1>1, <1>2, <1>3

\* A bitmap without members, as hwloc_bitmap_iszero sees it.
LEMMA ZeroMeans ==
    ASSUME NEW b \in Bitmaps
    PROVE  /\ NonZero(b.ulongs) = {} <=> \A j \in Nat : j < b.count => READULONG(b, j) = {}
           /\ IsZero(b) <=> Members(b) = {}
           /\ IsZero(b) <=> b.infinite = FALSE /\ NonZero(b.ulongs) = {}
<1>1. /\ b.count \in Nat /\ DOMAIN b.ulongs = Words(b.count) /\ b.infinite \in BOOLEAN
      /\ b.count <= MAX_ULONGS
  BY BitmapIs
<1>2. NonZero(b.ulongs) = {} <=> \A j \in Nat : j < b.count => READULONG(b, j) = {}
  BY <1>1 DEF NonZero, ZERO, READULONG, Words
<1>3. IsZero(b) <=> b.infinite = FALSE /\ NonZero(b.ulongs) = {}
  BY <1>1 DEF IsZero
<1>4. ASSUME IsZero(b) PROVE Members(b) = {}
  <2>. SUFFICES ASSUME NEW x \in Members(b) PROVE FALSE
    OBVIOUS
  <2>1. INDEX(x) >= b.count /\ INDEX(x) \in Nat /\ x \in Horizon
    BY <1>1, <1>2, <1>3, <1>4, NoneBefore, MembersInHorizon
  <2>2. ~(INDEX(x) < b.count)
    BY <1>1, <2>1
  <2>. QED  BY <1>3, <1>4, <2>1, <2>2, WordOf
<1>5. ASSUME Members(b) = {} PROVE IsZero(b)
  <2>1. b.infinite = FALSE
    BY <1>1, <1>5, TopIs
  <2>2. ASSUME NEW j \in Nat, j < b.count PROVE READULONG(b, j) = {}
    <3>1. READULONG(b, j) \in SUBSET Bit /\ j < MAX_ULONGS
      BY <1>1, <2>2, BitmapIs
    <3>2. \A bit \in READULONG(b, j) : At(j, bit) \in Members(b)
      BY <3>1, PlaceMember
    <3>. QED  BY <1>5, <3>2
  <2>. QED  BY <1>2, <1>3, <2>1, <2>2
<1>. QED  BY <1>2, <1>3, <1>4, <1>5

\* Two bitmaps that have no bit before some word, of which one has a bit in it.
LEMMA LeadsIs ==
    ASSUME NEW b1 \in Bitmaps, NEW b2 \in Bitmaps, NEW i \in Nat, i <= MAX_ULONGS,
           \A j \in Nat : j < i => READULONG(b1, j) = {} /\ READULONG(b2, j) = {},
           NEW w1, w1 = READULONG(b1, i), NEW w2, w2 = READULONG(b2, i), w1 # {},
           NEW s, s = Members(b1), NEW t, t = Members(b2)
    PROVE  /\ s # {}
           /\ w2 # {} => t # {} /\ FirstOrder(s, t) = Sign(Min(w1) - Min(w2))
           /\ (\A k \in w2 : Min(w1) < k) => FirstOrder(s, t) = -1 /\ FirstOrder(t, s) = 1
<1>. DEFINE k1 == Min(w1)
            y1 == At(i, k1)
<1>1. /\ k1 \in w1 /\ k1 \in Bit /\ k1 \in Nat /\ y1 \in s /\ Min(s) = y1
      /\ INDEX(y1) = i /\ CPU_ULBIT(y1) = k1
  BY LeastIs
<1>2. s \in SUBSET Nat /\ t \in SUBSET Nat
  BY MembersInHorizon, HorizonIs
<1>3. ASSUME w2 # {} PROVE t # {} /\ FirstOrder(s, t) = Sign(k1 - Min(w2))
  <2>. DEFINE k2 == Min(w2)
              y2 == At(i, k2)
  <2>1. k2 \in Nat /\ y2 \in t /\ Min(t) = y2
    BY <1>3, LeastIs
  <2>2. y1 - y2 = k1 - k2
    BY <1>1, <2>1, WidthIs DEF At
  <2>. HIDE DEF y1, y2, k1, k2
  <2>. QED  BY <1>1, <1>2, <2>1, <2>2, FirstOrderIs DEF k2
<1>. HIDE DEF y1
<1>4. ASSUME \A k \in w2 : k1 < k PROVE FirstOrder(s, t) = -1 /\ FirstOrder(t, s) = 1
  <2>1. ASSUME NEW x \in t PROVE y1 < x
    <3>1. /\ x \in Nat /\ INDEX(x) \in Nat /\ INDEX(x) >= i
          /\ CPU_ULBIT(x) \in READULONG(b2, INDEX(x)) /\ CPU_ULBIT(x) \in Nat
      BY NoneBefore, WidthIs
    <3>2. INDEX(x) = i => k1 < CPU_ULBIT(x)
      BY <1>4, <3>1
    <3>. QED  BY <1>1, <1>2, <3>1, <3>2, OrderIs
  <2>. QED  BY <1>1, <1>2, <2>1, FirstOrderIs
<1>. QED  BY <1>1, <1>3, <1>4

\* What hwloc_bitmap_compare_first answers when no word that both bitmaps have has
\* a bit: b is not the longer one.
LEMMA ShorterIs ==
    ASSUME NEW b \in Bitmaps, NEW l \in Bitmaps, b.count < l.count,
           \A j \in Nat : j < b.count => READULONG(b, j) = {} /\ READULONG(l, j) = {}
    PROVE  /\ b.infinite = TRUE /\ 0 \in l.ulongs[b.count] =>
                  /\ FirstOrder(Members(b), Members(l)) = 0
                  /\ FirstOrder(Members(l), Members(b)) = 0
           /\ b.infinite = TRUE /\ ~(0 \in l.ulongs[b.count]) =>
                  /\ FirstOrder(Members(b), Members(l)) = -1
                  /\ FirstOrder(Members(l), Members(b)) = 1
           /\ b.infinite = FALSE => Members(b) = {} /\ NonZero(b.ulongs) = {}
           /\ (\E i \in b.count .. l.count - 1 : l.ulongs[i] # {}) =>
                  NonZero(l.ulongs) # {} /\ Members(l) # {}
           /\ (\A i \in b.count .. l.count - 1 : l.ulongs[i] = {}) => NonZero(l.ulongs) = {}
<1>. DEFINE c == b.count
            w == l.ulongs[c]
            s == Members(b)
            t == Members(l)
<1>1. /\ c \in Nat /\ l.count \in Nat /\ c < MAX_ULONGS /\ MAX_ULONGS \in Nat
      /\ READULONG(l, c) = w /\ w \in SUBSET Bit
      /\ (b.infinite = TRUE => READULONG(b, c) = Bit)
      /\ \A i \in Nat : i < l.count => READULONG(l, i) = l.ulongs[i]
      /\ DOMAIN l.ulongs = Words(l.count)
  <2>1. c \in Nat /\ l.count \in Nat /\ l.count <= MAX_ULONGS /\ MAX_ULONGS \in Nat
        /\ DOMAIN l.ulongs = Words(l.count)
    BY BitmapIs
  <2>2. READULONG(l, c) \in SUBSET Bit
    BY <2>1, BitmapIs
  <2>. QED  BY <2>1, <2>2 DEF READULONG, Beyond, FULL
<1>2. Min(Bit) = 0
  <2>1. Bit \in SUBSET Nat /\ \A k \in Bit : 0 <= k
    BY WidthIs DEF Bit
  <2>. QED  BY <2>1, WidthIs, ExtremesAre
<1>. HIDE DEF c, w
<1>0. \A j \in Nat : j < c => READULONG(l, j) = {} /\ READULONG(b, j) = {}
  BY DEF c
<1>3. ASSUME b.infinite = TRUE, 0 \in w
      PROVE  FirstOrder(s, t) = 0 /\ FirstOrder(t, s) = 0
  <2>1. Min(w) = 0
    <3>1. w \in SUBSET Nat /\ \A k \in w : 0 <= k
      BY <1>1, WidthIs
    <3>. QED  BY <1>3, <3>1, ExtremesAre
  <2>2. c <= MAX_ULONGS /\ Bit # {} /\ w # {}
    BY <1>1, <1>3, WidthIs
  <2>3. FirstOrder(s, t) = Sign(Min(Bit) - Min(w))
    BY <1>0, <1>1, <1>3, <2>2, LeadsIs
  <2>4. FirstOrder(t, s) = Sign(Min(w) - Min(Bit))
    BY <1>0, <1>1, <1>3, <2>2, LeadsIs
  <2>. QED  BY <1>2, <2>1, <2>3, <2>4 DEF Sign
<1>4. ASSUME b.infinite = TRUE, ~(0 \in w)
      PROVE  FirstOrder(s, t) = -1 /\ FirstOrder(t, s) = 1
  <2>1. c <= MAX_ULONGS /\ Bit # {} /\ \A k \in w : Min(Bit) < k
    <3>1. \A k \in w : k \in Nat /\ k # 0
      BY <1>1, <1>4, WidthIs
    <3>. QED  BY <1>1, <1>2, <3>1, WidthIs
  <2>. QED  BY <1>0, <1>1, <1>4, <2>1, LeadsIs
<1>5. NonZero(b.ulongs) = {} /\ (b.infinite = FALSE => s = {})
  BY ZeroMeans
<1>6. ASSUME NEW i \in c .. l.count - 1, l.ulongs[i] # {} PROVE NonZero(l.ulongs) # {} /\ t # {}
  <2>1. i \in Words(l.count) /\ i \in Nat
    BY <1>1 DEF Words
  <2>2. NonZero(l.ulongs) # {}
    BY <1>1, <1>6, <2>1 DEF NonZero, ZERO
  <2>. QED  BY <2>2, ZeroMeans
<1>7. ASSUME \A i \in c .. l.count - 1 : l.ulongs[i] = {} PROVE NonZero(l.ulongs) = {}
  <2>1. ASSUME NEW j \in Nat, j < l.count PROVE READULONG(l, j) = {}
    <3>1. CASE j < c
      BY <3>1 DEF c
    <3>2. CASE ~(j < c)
      <4>1. j \in c .. l.count - 1
        BY <1>1, <2>1, <3>2
      <4>. QED  BY <1>1, <1>7, <2>1, <4>1
    <3>. QED  BY <3>1, <3>2
  <2>. QED  BY <2>1, ZeroMeans
<1>. QED  BY <1>3, <1>4, <1>5, <1>6, <1>7 DEF c, w, s, t

\* hwloc_bitmap_compare_first is the order of the smallest members, but for the
\* one case that ComparesTails names.
LEMMA CompareFirstIs ==
    ASSUME NEW b1 \in Bitmaps, NEW b2 \in Bitmaps,
           NEW s, s = Members(b1), NEW t, t = Members(b2)
    PROVE  CompareFirst(b1, b2) =
               IF ComparesTails(b1, b2) THEN -FirstOrder(s, t) ELSE FirstOrder(s, t)
<1>. DEFINE least == LeastCount(b1, b2)
            both == {i \in Words(least) : b1.ulongs[i] # ZERO \/ b2.ulongs[i] # ZERO}
            surplus1 == Surplus(b1, b2)
            surplus2 == Surplus(b2, b1)
            tails == ComparesTails(b1, b2)
            answer == CompareFirst(b1, b2)
<1>1. /\ least \in Nat /\ least <= MAX_ULONGS /\ MAX_ULONGS \in Nat
      /\ b1.count \in Nat /\ b2.count \in Nat /\ least <= b1.count /\ least <= b2.count
      /\ least = b1.count \/ least = b2.count
      /\ b1.count <= MAX_ULONGS /\ b2.count <= MAX_ULONGS
      /\ b1.infinite \in BOOLEAN /\ b2.infinite \in BOOLEAN
      /\ \A i \in Nat : i < least => READULONG(b1, i) = b1.ulongs[i] /\ READULONG(b2, i) = b2.ulongs[i]
  <2>1. /\ b1.count \in Nat /\ b2.count \in Nat /\ MAX_ULONGS \in Nat
        /\ b1.count <= MAX_ULONGS /\ b2.count <= MAX_ULONGS
        /\ b1.infinite \in BOOLEAN /\ b2.infinite \in BOOLEAN
    BY BitmapIs
  <2>. QED  BY <2>1 DEF LeastCount, READULONG
<1>2. /\ b1.count <= b2.count => surplus1 = {} /\ least = b1.count
      /\ b2.count <= b1.count => surplus2 = {} /\ least = b2.count
      /\ surplus1 = least .. b1.count - 1 /\ surplus2 = least .. b2.count - 1
      /\ least < b1.count => Min(surplus1) = least /\ surplus1 # {}
      /\ least < b2.count => Min(surplus2) = least /\ surplus2 # {}
  <2>1. least = IF b1.count < b2.count THEN b1.count ELSE b2.count
    BY DEF LeastCount
  <2>2. surplus1 = least .. b1.count - 1 /\ surplus2 = least .. b2.count - 1
    BY <1>1 DEF Surplus, LeastCount
  <2>3. ASSUME NEW n \in Nat, least < n PROVE Min(least .. n - 1) = least /\ least .. n - 1 # {}
    <3>. DEFINE S == least .. n - 1
    <3>1. S \in SUBSET Nat /\ least \in S /\ \A k \in S : least <= k
      BY <1>1, <2>3
    <3>. HIDE DEF S
    <3>2. Min(S) = least /\ S # {}
      BY <3>1, ExtremesAre
    <3>. QED  BY <3>2 DEF S
  <2>. HIDE DEF least, surplus1, surplus2
  <2>. QED  BY <1>1, <2>1, <2>2, <2>3
<1>3. tails <=> \/ /\ b1.infinite = FALSE /\ NonZero(b1.ulongs) = {}
                   /\ b2.infinite = TRUE /\ NonZero(b2.ulongs) = {} /\ b2.count >= b1.count
                \/ /\ b2.infinite = FALSE /\ NonZero(b2.ulongs) = {}
                   /\ b1.infinite = TRUE /\ NonZero(b1.ulongs) = {} /\ b1.count >= b2.count
  BY <1>1, ZeroMeans DEF ComparesTails
<1>. HIDE DEF least, surplus1, surplus2, tails
<1>4. CASE both # {}
  <2>. DEFINE i == Min(both)
              w1 == b1.ulongs[i]
              w2 == b2.ulongs[i]
  <2>1. answer = FirstOf(Ffsl(w1), Ffsl(w2))
    BY <1>4 DEF CompareFirst, least
  <2>2. i \in both /\ \A j \in both : i <= j
    <3>1. both \in SUBSET Nat
      BY DEF Words
    <3>. HIDE DEF both
    <3>. QED  BY <1>4, <3>1, MinIs
  <2>3. i \in Nat /\ i < least /\ i <= MAX_ULONGS /\ (w1 # {} \/ w2 # {})
    <3>. HIDE DEF i
    <3>1. i \in Words(least) /\ (w1 # {} \/ w2 # {})
      BY <2>2 DEF ZERO
    <3>. HIDE DEF w1, w2
    <3>. QED  BY <1>1, <3>1 DEF Words
  <2>4. \A j \in Nat : j < i => READULONG(b1, j) = {} /\ READULONG(b2, j) = {}
    <3>. SUFFICES ASSUME NEW j \in Nat, j < i PROVE READULONG(b1, j) = {} /\ READULONG(b2, j) = {}
      OBVIOUS
    <3>1. j \in Words(least) /\ ~(i <= j) /\ j < least
      BY <1>1, <2>3 DEF Words
    <3>. HIDE DEF i
    <3>. QED  BY <1>1, <2>2, <3>1 DEF ZERO
  <2>5. READULONG(b1, i) = w1 /\ READULONG(b2, i) = w2
    BY <1>1, <2>3
  <2>6. ~tails
    <3>1. ~(NonZero(b1.ulongs) = {} /\ NonZero(b2.ulongs) = {})
      <4>1. i < b1.count /\ i < b2.count
        BY <1>1, <2>3
      <4>. HIDE DEF i
      <4>. QED  BY <2>3, <2>5, <4>1, ZeroMeans
    <3>. QED  BY <1>3, <3>1
  <2>7. \A w \in {w1, w2} : w # {} => Min(w) \in Nat
    <3>. HIDE DEF i
    <3>0. READULONG(b1, i) \in SUBSET Bit /\ READULONG(b2, i) \in SUBSET Bit
      BY <2>3, BitmapIs
    <3>1. w1 \in SUBSET Bit /\ w2 \in SUBSET Bit
      BY <2>5, <3>0
    <3>. HIDE DEF w1, w2
    <3>2. w1 \in SUBSET Nat /\ w2 \in SUBSET Nat
      BY <3>1, WidthIs
    <3>. QED  BY <3>2, MinIs
  <2>. HIDE DEF i, w1, w2, both, answer
  <2>71. \A j \in Nat : j < i => READULONG(b2, j) = {} /\ READULONG(b1, j) = {}
    BY <2>4
  <2>8. CASE w1 # {} /\ w2 # {}
    <3>1. FirstOrder(s, t) = Sign(Min(w1) - Min(w2))
      BY <2>3, <2>4, <2>5, <2>8, LeadsIs
    <3>2. answer = Sign((Min(w1) + 1) - (Min(w2) + 1))
      BY <2>1, <2>7, <2>8 DEF FirstOf, Ffsl, ZERO
    <3>3. (Min(w1) + 1) - (Min(w2) + 1) = Min(w1) - Min(w2)
      BY <2>7, <2>8
    <3>. QED  BY <2>6, <3>1, <3>2, <3>3 DEF answer, tails
  <2>9. CASE w1 # {} /\ w2 = {}
    <3>1. FirstOrder(s, t) = -1
      BY <2>3, <2>4, <2>5, <2>9, LeadsIs
    <3>2. answer = -1
      <4>1. Ffsl(w1) = Min(w1) + 1 /\ Ffsl(w2) = 0 /\ Min(w1) \in Nat
        BY <2>7, <2>9 DEF Ffsl, ZERO
      <4>2. answer = Sign(0 - (Min(w1) + 1))
        BY <2>1, <4>1 DEF FirstOf
      <4>. QED  BY <4>1, <4>2 DEF Sign
    <3>. QED  BY <2>6, <3>1, <3>2 DEF answer, tails
  <2>10. CASE w1 = {} /\ w2 # {}
    <3>1. FirstOrder(s, t) = 1
      BY <2>3, <2>5, <2>71, <2>10, LeadsIs
    <3>2. answer = 1
      <4>1. Ffsl(w2) = Min(w2) + 1 /\ Ffsl(w1) = 0 /\ Min(w2) \in Nat
        BY <2>7, <2>10 DEF Ffsl, ZERO
      <4>2. answer = Sign(Min(w2) + 1 - 0)
        BY <2>1, <4>1 DEF FirstOf
      <4>. QED  BY <4>1, <4>2 DEF Sign
    <3>. QED  BY <2>6, <3>1, <3>2 DEF answer, tails
  <2>. QED  BY <2>3, <2>8, <2>9, <2>10
<1>5. CASE both = {}
  <2>1. \A j \in Nat : j < least => READULONG(b1, j) = {} /\ READULONG(b2, j) = {}
    <3>. SUFFICES ASSUME NEW j \in Nat, j < least PROVE READULONG(b1, j) = {} /\ READULONG(b2, j) = {}
      OBVIOUS
    <3>1. j \in Words(least)
      BY <1>1 DEF Words
    <3>. QED  BY <1>1, <1>5, <3>1 DEF ZERO
  <2>2. s \in SUBSET Nat /\ t \in SUBSET Nat
    BY MembersInHorizon, HorizonIs
  <2>3. /\ s = {} <=> b1.infinite = FALSE /\ NonZero(b1.ulongs) = {}
        /\ t = {} <=> b2.infinite = FALSE /\ NonZero(b2.ulongs) = {}
    BY ZeroMeans
  <2>4. /\ s = {} /\ t = {} => FirstOrder(s, t) = 0
        /\ s = {} /\ t # {} => FirstOrder(s, t) = 1
        /\ s # {} /\ t = {} => FirstOrder(s, t) = -1
    BY <2>2, FirstOrderIs
  <2>5. /\ surplus2 # {} /\ b1.infinite = TRUE =>
               answer = IF 0 \in b2.ulongs[Min(surplus2)] THEN 0 ELSE -1
        /\ b1.infinite = FALSE /\ (\E i \in surplus2 : b2.ulongs[i] # {}) => answer = 1
        /\ surplus2 = {} /\ surplus1 # {} /\ b2.infinite = TRUE =>
               answer = IF 0 \in b1.ulongs[Min(surplus1)] THEN 0 ELSE 1
        /\ surplus2 = {} /\ b2.infinite = FALSE /\ (\E i \in surplus1 : b1.ulongs[i] # {}) =>
               answer = -1
        /\ /\ ~(surplus2 # {} /\ b1.infinite = TRUE) /\ ~(surplus1 # {} /\ b2.infinite = TRUE)
           /\ \A i \in surplus2 : b2.ulongs[i] = {}
           /\ \A i \in surplus1 : b1.ulongs[i] = {}
           => answer = Infinity(b1) - Infinity(b2)
    <3>. DEFINE some1 == \E i \in surplus1 : b1.ulongs[i] # ZERO
                some2 == \E i \in surplus2 : b2.ulongs[i] # ZERO
    <3>0. answer = CASE both # {} -> FirstOf(Ffsl(b1.ulongs[Min(both)]), Ffsl(b2.ulongs[Min(both)]))
                     [] both = {} /\ surplus2 # {} /\ b1.infinite ->
                           IF 0 \in b2.ulongs[Min(surplus2)] THEN 0 ELSE -1
                     [] both = {} /\ ~b1.infinite /\ some2 -> 1
                     [] both = {} /\ surplus1 # {} /\ b2.infinite ->
                           IF 0 \in b1.ulongs[Min(surplus1)] THEN 0 ELSE 1
                     [] both = {} /\ ~b2.infinite /\ some1 -> -1
                     [] OTHER -> Infinity(b1) - Infinity(b2)
      BY DEF CompareFirst, least, surplus1, surplus2
    <3>6. /\ some1 <=> \E i \in surplus1 : b1.ulongs[i] # {}
          /\ some2 <=> \E i \in surplus2 : b2.ulongs[i] # {}
          /\ some1 => surplus1 # {}
          /\ some2 => surplus2 # {}
          /\ surplus1 = {} \/ surplus2 = {}
      BY <1>1, <1>2 DEF ZERO
    <3>. HIDE DEF answer, both, some1, some2
    <3>1. ASSUME surplus2 # {}, b1.infinite = TRUE
          PROVE  answer = IF 0 \in b2.ulongs[Min(surplus2)] THEN 0 ELSE -1
      BY <1>5, <3>0, <3>1, <3>6
    <3>2. ASSUME b1.infinite = FALSE, \E i \in surplus2 : b2.ulongs[i] # {} PROVE answer = 1
      BY <1>5, <3>0, <3>2, <3>6
    <3>3. ASSUME surplus2 = {}, surplus1 # {}, b2.infinite = TRUE
          PROVE  answer = IF 0 \in b1.ulongs[Min(surplus1)] THEN 0 ELSE 1
      BY <1>5, <3>0, <3>3, <3>6
    <3>4. ASSUME surplus2 = {}, b2.infinite = FALSE, \E i \in surplus1 : b1.ulongs[i] # {}
          PROVE  answer = -1
      BY <1>5, <3>0, <3>4, <3>6
    <3>5. ASSUME ~(surplus2 # {} /\ b1.infinite = TRUE), ~(surplus1 # {} /\ b2.infinite = TRUE),
                 \A i \in surplus2 : b2.ulongs[i] = {}, \A i \in surplus1 : b1.ulongs[i] = {}
          PROVE  answer = Infinity(b1) - Infinity(b2)
      BY <1>1, <1>5, <3>0, <3>5, <3>6
    <3>. QED  BY <3>1, <3>2, <3>3, <3>4, <3>5
  <2>6. Infinity(b1) = (IF b1.infinite = TRUE THEN 1 ELSE 0)
        /\ Infinity(b2) = (IF b2.infinite = TRUE THEN 1 ELSE 0)
    BY <1>1 DEF Infinity
  <2>. HIDE DEF answer, both
  <2>7. CASE b1.count = b2.count
    <3>1. surplus1 = {} /\ surplus2 = {} /\ least = b1.count /\ least = b2.count
      BY <1>1, <1>2, <2>7
    <3>2. answer = Infinity(b1) - Infinity(b2)
      BY <2>5, <3>1
    <3>3. NonZero(b1.ulongs) = {} /\ NonZero(b2.ulongs) = {}
      BY <2>1, <3>1, ZeroMeans
    <3>4. b1.infinite = TRUE /\ b2.infinite = TRUE => FirstOrder(s, t) = 0
      <4>. SUFFICES ASSUME b1.infinite = TRUE, b2.infinite = TRUE PROVE FirstOrder(s, t) = 0
        OBVIOUS
      <4>1. READULONG(b1, least) = Bit /\ READULONG(b2, least) = Bit /\ Bit # {}
        BY <1>1, <3>1, WidthIs DEF READULONG, Beyond, FULL
      <4>2. FirstOrder(s, t) = Sign(Min(Bit) - Min(Bit))
        BY <1>1, <2>1, <4>1, LeadsIs
      <4>3. Min(Bit) \in Nat
        BY <4>1, WidthIs, MinIs
      <4>. QED  BY <4>2, <4>3 DEF Sign
    <3>5. b1.count >= b2.count /\ b2.count >= b1.count
      BY <1>1, <2>7
    <3>6. FirstOrder(s, t) \in {-1, 0, 1}
      BY <1>1, <2>3, <2>4, <3>3, <3>4
    <3>. QED  BY <1>1, <1>3, <2>3, <2>4, <2>6, <3>2, <3>3, <3>4, <3>5, <3>6 DEF answer, tails
  <2>8. CASE b1.count < b2.count
    <3>1. surplus1 = {} /\ least = b1.count /\ Min(surplus2) = least /\ surplus2 # {}
          /\ surplus2 = b1.count .. b2.count - 1 /\ ~(b1.count >= b2.count) /\ b2.count >= b1.count
      BY <1>1, <1>2, <2>8
    <3>2. /\ b1.infinite = TRUE /\ 0 \in b2.ulongs[b1.count] => FirstOrder(s, t) = 0
          /\ b1.infinite = TRUE /\ ~(0 \in b2.ulongs[b1.count]) => FirstOrder(s, t) = -1
          /\ b1.infinite = FALSE => s = {} /\ NonZero(b1.ulongs) = {}
          /\ (\E i \in surplus2 : b2.ulongs[i] # {}) => NonZero(b2.ulongs) # {} /\ t # {}
          /\ (\A i \in surplus2 : b2.ulongs[i] = {}) => NonZero(b2.ulongs) = {}
      <4>1. \A j \in Nat : j < b1.count => READULONG(b1, j) = {} /\ READULONG(b2, j) = {}
        BY <2>1, <3>1
      <4>2. /\ b1.infinite = TRUE /\ 0 \in b2.ulongs[b1.count] =>
                      FirstOrder(Members(b1), Members(b2)) = 0 /\ FirstOrder(Members(b2), Members(b1)) = 0
            /\ b1.infinite = TRUE /\ ~(0 \in b2.ulongs[b1.count]) =>
                      FirstOrder(Members(b1), Members(b2)) = -1 /\ FirstOrder(Members(b2), Members(b1)) = 1
            /\ b1.infinite = FALSE => Members(b1) = {} /\ NonZero(b1.ulongs) = {}
            /\ (\E i \in b1.count .. b2.count - 1 : b2.ulongs[i] # {}) =>
                      NonZero(b2.ulongs) # {} /\ Members(b2) # {}
            /\ (\A i \in b1.count .. b2.count - 1 : b2.ulongs[i] = {}) => NonZero(b2.ulongs) = {}
        BY <2>8, <4>1, ShorterIs
      <4>. QED  BY <3>1, <4>2
    <3>3. CASE b1.infinite = TRUE
      BY <1>3, <2>5, <3>1, <3>2, <3>3 DEF answer, tails
    <3>4. CASE b1.infinite = FALSE /\ \E i \in surplus2 : b2.ulongs[i] # {}
      BY <1>3, <2>4, <2>5, <3>1, <3>2, <3>4 DEF answer, tails
    <3>5. CASE b1.infinite = FALSE /\ \A i \in surplus2 : b2.ulongs[i] = {}
      <4>1. answer = Infinity(b1) - Infinity(b2)
        BY <2>5, <3>1, <3>5
      <4>. QED  BY <1>1, <1>3, <2>3, <2>4, <2>6, <3>1, <3>2, <3>5, <4>1 DEF answer, tails
    <3>. QED  BY <1>1, <3>3, <3>4, <3>5
  <2>9. CASE b2.count < b1.count
    <3>1. surplus2 = {} /\ least = b2.count /\ Min(surplus1) = least /\ surplus1 # {}
          /\ surplus1 = b2.count .. b1.count - 1 /\ ~(b2.count >= b1.count) /\ b1.count >= b2.count
      BY <1>1, <1>2, <2>9
    <3>2. /\ b2.infinite = TRUE /\ 0 \in b1.ulongs[b2.count] => FirstOrder(s, t) = 0
          /\ b2.infinite = TRUE /\ ~(0 \in b1.ulongs[b2.count]) => FirstOrder(s, t) = 1
          /\ b2.infinite = FALSE => t = {} /\ NonZero(b2.ulongs) = {}
          /\ (\E i \in surplus1 : b1.ulongs[i] # {}) => NonZero(b1.ulongs) # {} /\ s # {}
          /\ (\A i \in surplus1 : b1.ulongs[i] = {}) => NonZero(b1.ulongs) = {}
      <4>1. \A j \in Nat : j < b2.count => READULONG(b2, j) = {} /\ READULONG(b1, j) = {}
        BY <2>1, <3>1
      <4>2. /\ b2.infinite = TRUE /\ 0 \in b1.ulongs[b2.count] =>
                      FirstOrder(Members(b2), Members(b1)) = 0 /\ FirstOrder(Members(b1), Members(b2)) = 0
            /\ b2.infinite = TRUE /\ ~(0 \in b1.ulongs[b2.count]) =>
                      FirstOrder(Members(b2), Members(b1)) = -1 /\ FirstOrder(Members(b1), Members(b2)) = 1
            /\ b2.infinite = FALSE => Members(b2) = {} /\ NonZero(b2.ulongs) = {}
            /\ (\E i \in b2.count .. b1.count - 1 : b1.ulongs[i] # {}) =>
                      NonZero(b1.ulongs) # {} /\ Members(b1) # {}
            /\ (\A i \in b2.count .. b1.count - 1 : b1.ulongs[i] = {}) => NonZero(b1.ulongs) = {}
        BY <2>9, <4>1, ShorterIs
      <4>. QED  BY <3>1, <4>2
    <3>3. CASE b2.infinite = TRUE
      BY <1>3, <2>5, <3>1, <3>2, <3>3 DEF answer, tails
    <3>4. CASE b2.infinite = FALSE /\ \E i \in surplus1 : b1.ulongs[i] # {}
      BY <1>3, <2>4, <2>5, <3>1, <3>2, <3>4 DEF answer, tails
    <3>5. CASE b2.infinite = FALSE /\ \A i \in surplus1 : b1.ulongs[i] = {}
      <4>1. answer = Infinity(b1) - Infinity(b2)
        BY <2>5, <3>1, <3>5
      <4>. QED  BY <1>1, <1>3, <2>3, <2>4, <2>6, <3>1, <3>2, <3>5, <4>1 DEF answer, tails
    <3>. QED  BY <1>1, <3>3, <3>4, <3>5
  <2>. QED  BY <1>1, <2>7, <2>8, <2>9
<1>. QED  BY <1>4, <1>5

\* hwloc_bitmap_compare is the order of the largest index that only one of two
\* sets has, and hwloc_bitmap_compare_first that of their smallest indices with
\* the empty set last but for ComparesTails, for bitmaps of any length.
THEOREM BitmapOrders == Spec => []OrdersBySets
<1>1. AllBitmaps => OrdersBySets
  <2>. SUFFICES ASSUME AllBitmaps, NEW m \in Owned, NEW n \in Owned
                PROVE  LET b1 == bitmap[m]
                           b2 == bitmap[n]
                           s == Members(b1)
                           t == Members(b2)
                           differ == (s \ t) \cup (t \ s)
                           first == FirstOrder(s, t)
                       IN  /\ Compare(b1, b2) =
                                  (IF differ = {} THEN 0 ELSE IF Max(differ) \in t THEN -1 ELSE 1)
                           /\ CompareFirst(b1, b2) =
                                  (IF ComparesTails(b1, b2) THEN -first ELSE first)
    BY Zenon DEF OrdersBySets, FirstOrder
  <2>1. bitmap[m] \in Bitmaps /\ bitmap[n] \in Bitmaps
    BY DEF AllBitmaps, Name
  <2>. HIDE DEF AllBitmaps
  <2>2. CompareFirst(bitmap[m], bitmap[n]) =
            IF ComparesTails(bitmap[m], bitmap[n])
            THEN -FirstOrder(Members(bitmap[m]), Members(bitmap[n]))
            ELSE FirstOrder(Members(bitmap[m]), Members(bitmap[n]))
    BY <2>1, CompareFirstIs
  <2>. QED  BY <2>1, <2>2, CompareIs
<1>. QED  BY <1>1, BitmapsStay, PTL

(***************************************************************************)
(* The questions about two bitmaps.                                        *)
(***************************************************************************)
\* Sets compare as all the words up to the horizon do.
LEMMA PairIs ==
    ASSUME NEW b1 \in Bitmaps, NEW b2 \in Bitmaps
    PROVE  /\ Members(b1) \subseteq Members(b2) <=>
                  \A i \in 0 .. MAX_ULONGS : READULONG(b1, i) \subseteq READULONG(b2, i)
           /\ Members(b1) \cap Members(b2) # {} <=>
                  \E i \in 0 .. MAX_ULONGS : READULONG(b1, i) \cap READULONG(b2, i) # {}
<1>. DEFINE s == Members(b1)
            t == Members(b2)
            R1(i) == READULONG(b1, i)
            R2(i) == READULONG(b2, i)
<1>1. /\ MAX_ULONGS \in Nat \ {0}
      /\ \A i \in 0 .. MAX_ULONGS : i \in Nat /\ R1(i) \in SUBSET Bit /\ R2(i) \in SUBSET Bit
  BY BitmapIs
<1>2. ASSUME NEW x \in Horizon
      PROVE  /\ INDEX(x) \in 0 .. MAX_ULONGS
             /\ x \in s <=> CPU_ULBIT(x) \in R1(INDEX(x))
             /\ x \in t <=> CPU_ULBIT(x) \in R2(INDEX(x))
  <2>1. x \in Nat /\ INDEX(x) \in Nat
    BY InHorizon
  <2>2. INDEX(x) <= MAX_ULONGS
    <3>1. CASE x \in Cpus
      BY <1>1, <2>1, <3>1, HorizonIs
    <3>2. CASE x = At(MAX_ULONGS, 0)
      BY <1>1, <3>2, HorizonIs
    <3>3. x \in Cpus \/ x = At(MAX_ULONGS, 0)
      BY HorizonIs
    <3>. QED  BY <3>1, <3>2, <3>3
  <2>3. /\ x \in Members(b1) <=> CPU_ULBIT(x) \in READULONG(b1, INDEX(x))
        /\ x \in Members(b2) <=> CPU_ULBIT(x) \in READULONG(b2, INDEX(x))
    BY MemberIs
  <2>4. INDEX(x) \in 0 .. MAX_ULONGS
    BY <1>1, <2>1, <2>2
  <2>. QED  BY <2>3, <2>4
\* A bit that the words have stands for a member that does the same.
<1>3. ASSUME NEW i \in 0 .. MAX_ULONGS, NEW bit \in Bit
      PROVE  \E x \in Horizon : (x \in s <=> bit \in R1(i)) /\ (x \in t <=> bit \in R2(i))
  <2>1. CASE i < MAX_ULONGS
    BY <1>1, <2>1, PlaceMember
  <2>2. CASE i = MAX_ULONGS
    <3>1. ~(i < b1.count) /\ ~(i < b2.count) /\ b1.infinite \in BOOLEAN /\ b2.infinite \in BOOLEAN
      BY <2>2, BitmapIs
    <3>2. /\ bit \in R1(i) <=> b1.infinite = TRUE
          /\ bit \in R2(i) <=> b2.infinite = TRUE
      BY <3>1 DEF READULONG, Beyond, FULL, ZERO
    <3>. QED  BY <3>2, TopIs
  <2>. QED  BY <1>1, <2>1, <2>2
<1>4. s \subseteq Horizon /\ t \subseteq Horizon
  BY MembersInHorizon
<1>. HIDE DEF s, t, R1, R2
<1>5. ASSUME s \subseteq t, NEW i \in 0 .. MAX_ULONGS, NEW bit \in R1(i) PROVE bit \in R2(i)
  BY <1>1, <1>3, <1>5
<1>6. ASSUME \A i \in 0 .. MAX_ULONGS : R1(i) \subseteq R2(i) PROVE s \subseteq t
  BY <1>2, <1>4, <1>6
<1>7. ASSUME s \cap t # {} PROVE \E i \in 0 .. MAX_ULONGS : R1(i) \cap R2(i) # {}
  BY <1>2, <1>4, <1>7
<1>8. ASSUME NEW i \in 0 .. MAX_ULONGS, NEW bit \in R1(i) \cap R2(i) PROVE s \cap t # {}
  BY <1>1, <1>3
<1>. QED  BY <1>5, <1>6, <1>7, <1>8 DEF s, t, R1, R2

\* The words of two bitmaps: those that both have, the surplus of the longer one,
\* and beyond.
LEMMA PairOfWords ==
    ASSUME NEW b1 \in Bitmaps, NEW b2 \in Bitmaps, NEW i \in 0 .. MAX_ULONGS
    PROVE  \/ /\ i \in Words(LeastCount(b1, b2))
              /\ READULONG(b1, i) = b1.ulongs[i] /\ READULONG(b2, i) = b2.ulongs[i]
           \/ /\ i \in Surplus(b1, b2)
              /\ READULONG(b1, i) = b1.ulongs[i] /\ READULONG(b2, i) = Beyond(b2)
           \/ /\ i \in Surplus(b2, b1)
              /\ READULONG(b1, i) = Beyond(b1) /\ READULONG(b2, i) = b2.ulongs[i]
           \/ /\ READULONG(b1, i) = Beyond(b1) /\ READULONG(b2, i) = Beyond(b2)
<1>1. /\ b1.count \in Nat /\ b2.count \in Nat /\ i \in Nat /\ LeastCount(b1, b2) \in Nat
      /\ LeastCount(b1, b2) = LeastCount(b2, b1)
      /\ LeastCount(b1, b2) = b1.count \/ LeastCount(b1, b2) = b2.count
      /\ LeastCount(b1, b2) <= b1.count /\ LeastCount(b1, b2) <= b2.count
  BY BitmapIs DEF LeastCount
<1>2. CASE i < b1.count /\ i < b2.count
  BY <1>1, <1>2 DEF READULONG, Words
<1>3. CASE i < b1.count /\ ~(i < b2.count)
  BY <1>1, <1>3 DEF READULONG, Surplus
<1>4. CASE ~(i < b1.count) /\ i < b2.count
  BY <1>1, <1>4 DEF READULONG, Surplus
<1>5. CASE ~(i < b1.count) /\ ~(i < b2.count)
  BY <1>5 DEF READULONG
<1>. QED  BY <1>2, <1>3, <1>4, <1>5

\* ... and each of them is one of the words up to the horizon.
LEMMA PairHasWords ==
    ASSUME NEW b1 \in Bitmaps, NEW b2 \in Bitmaps
    PROVE  /\ \A i \in Words(LeastCount(b1, b2)) :
                  /\ i \in 0 .. MAX_ULONGS
                  /\ READULONG(b1, i) = b1.ulongs[i] /\ READULONG(b2, i) = b2.ulongs[i]
           /\ \A i \in Surplus(b1, b2) :
                  /\ i \in 0 .. MAX_ULONGS
                  /\ READULONG(b1, i) = b1.ulongs[i] /\ READULONG(b2, i) = Beyond(b2)
           /\ \A i \in Surplus(b2, b1) :
                  /\ i \in 0 .. MAX_ULONGS
                  /\ READULONG(b1, i) = Beyond(b1) /\ READULONG(b2, i) = b2.ulongs[i]
           /\ MAX_ULONGS \in 0 .. MAX_ULONGS
           /\ READULONG(b1, MAX_ULONGS) = Beyond(b1) /\ READULONG(b2, MAX_ULONGS) = Beyond(b2)
<1>1. /\ b1.count \in Nat /\ b2.count \in Nat /\ MAX_ULONGS \in Nat
      /\ b1.count <= MAX_ULONGS /\ b2.count <= MAX_ULONGS
  BY BitmapIs
<1>. DEFINE least == LeastCount(b1, b2)
<1>2. /\ least \in Nat /\ least = LeastCount(b2, b1)
      /\ least = b1.count \/ least = b2.count
      /\ least <= b1.count /\ least <= b2.count
  BY <1>1 DEF LeastCount
<1>. HIDE DEF least
<1>3. ASSUME NEW i \in 0 .. least - 1 PROVE i \in 0 .. MAX_ULONGS /\ i < b1.count /\ i < b2.count
  BY <1>1, <1>2
<1>4. ASSUME NEW i \in least .. b1.count - 1 PROVE i \in 0 .. MAX_ULONGS /\ i < b1.count /\ ~(i < b2.count)
  BY <1>1, <1>2
<1>5. ASSUME NEW i \in least .. b2.count - 1 PROVE i \in 0 .. MAX_ULONGS /\ i < b2.count /\ ~(i < b1.count)
  BY <1>1, <1>2
<1>6. MAX_ULONGS \in 0 .. MAX_ULONGS /\ ~(MAX_ULONGS < b1.count) /\ ~(MAX_ULONGS < b2.count)
  BY <1>1
<1>7. /\ Words(least) = 0 .. least - 1
      /\ Surplus(b1, b2) = least .. b1.count - 1 /\ Surplus(b2, b1) = least .. b2.count - 1
  <2>1. Surplus(b2, b1) = least .. b2.count - 1
    BY <1>2, Zenon DEF Surplus
  <2>. QED  BY <2>1 DEF Words, Surplus, least
<1>. QED  BY <1>3, <1>4, <1>5, <1>6, <1>7 DEF READULONG, least

\* What is beyond a bitmap, as a word.
LEMMA BeyondWords ==
    ASSUME NEW b \in Bitmaps
    PROVE  /\ b.infinite \in BOOLEAN /\ Bit # {}
           /\ b.infinite = TRUE => Beyond(b) = Bit
           /\ b.infinite = FALSE => Beyond(b) = {}
           /\ \A i \in 0 .. MAX_ULONGS : READULONG(b, i) \subseteq Bit
BY BitmapIs, WidthIs DEF Beyond, FULL, ZERO

\* hwloc_bitmap_isequal.
LEMMA EqualIs ==
    ASSUME NEW b1 \in Bitmaps, NEW b2 \in Bitmaps
    PROVE  IsEqual(b1, b2) <=> Members(b1) = Members(b2)
<1>1. Members(b1) = Members(b2) <=>
          \A i \in 0 .. MAX_ULONGS : READULONG(b1, i) = READULONG(b2, i)
  <2>1. /\ Members(b1) \subseteq Members(b2) <=>
               \A i \in 0 .. MAX_ULONGS : READULONG(b1, i) \subseteq READULONG(b2, i)
        /\ Members(b2) \subseteq Members(b1) <=>
               \A i \in 0 .. MAX_ULONGS : READULONG(b2, i) \subseteq READULONG(b1, i)
    BY PairIs
  <2>. QED  BY <2>1
<1>2. b1.infinite = b2.infinite <=> Beyond(b1) = Beyond(b2)
  BY BeyondWords
<1>3. ASSUME IsEqual(b1, b2), NEW i \in 0 .. MAX_ULONGS PROVE READULONG(b1, i) = READULONG(b2, i)
  BY <1>2, <1>3, PairOfWords DEF IsEqual
<1>4. ASSUME \A i \in 0 .. MAX_ULONGS : READULONG(b1, i) = READULONG(b2, i) PROVE IsEqual(b1, b2)
  BY <1>2, <1>4, PairHasWords DEF IsEqual
<1>. QED  BY <1>1, <1>3, <1>4

\* hwloc_bitmap_intersects.
LEMMA IntersectsIs ==
    ASSUME NEW b1 \in Bitmaps, NEW b2 \in Bitmaps
    PROVE  Intersects(b1, b2) <=> Members(b1) \cap Members(b2) # {}
<1>. DEFINE meets(i) == READULONG(b1, i) \cap READULONG(b2, i) # {}
<1>1. ASSUME NEW i \in 0 .. MAX_ULONGS, meets(i) PROVE Intersects(b1, b2)
  <2>1. CASE i \in Words(LeastCount(b1, b2)) /\ b1.ulongs[i] \cap b2.ulongs[i] # {}
    BY <2>1 DEF Intersects, ZERO
  <2>2. CASE i \in Surplus(b1, b2) /\ b1.ulongs[i] \cap Beyond(b2) # {}
    BY <2>2 DEF Intersects, ZERO, Beyond
  <2>3. CASE i \in Surplus(b2, b1) /\ Beyond(b1) \cap b2.ulongs[i] # {}
    BY <2>3 DEF Intersects, ZERO, Beyond
  <2>4. CASE Beyond(b1) \cap Beyond(b2) # {}
    BY <2>4 DEF Intersects, ZERO, Beyond
  <2>. QED  BY <1>1, <2>1, <2>2, <2>3, <2>4, PairOfWords
<1>2. ASSUME Intersects(b1, b2) PROVE \E i \in 0 .. MAX_ULONGS : meets(i)
  <2>1. CASE \E i \in Words(LeastCount(b1, b2)) : b1.ulongs[i] \cap b2.ulongs[i] # {}
    BY <2>1, PairHasWords
  <2>2. CASE b2.infinite = TRUE /\ \E i \in Surplus(b1, b2) : b1.ulongs[i] # {}
    <3>1. PICK i \in Surplus(b1, b2) : b1.ulongs[i] # {}
      BY <2>2
    <3>2. /\ i \in 0 .. MAX_ULONGS /\ READULONG(b1, i) = b1.ulongs[i]
          /\ READULONG(b2, i) = Beyond(b2)
      BY PairHasWords
    <3>3. Beyond(b2) = Bit /\ READULONG(b1, i) \subseteq Bit
      BY <2>2, <3>2, BeyondWords
    <3>. QED  BY <3>1, <3>2, <3>3
  <2>3. CASE b1.infinite = TRUE /\ \E i \in Surplus(b2, b1) : b2.ulongs[i] # {}
    <3>1. PICK i \in Surplus(b2, b1) : b2.ulongs[i] # {}
      BY <2>3
    <3>2. /\ i \in 0 .. MAX_ULONGS /\ READULONG(b2, i) = b2.ulongs[i]
          /\ READULONG(b1, i) = Beyond(b1)
      BY PairHasWords
    <3>3. Beyond(b1) = Bit /\ READULONG(b2, i) \subseteq Bit
      BY <2>3, <3>2, BeyondWords
    <3>. QED  BY <3>1, <3>2, <3>3
  <2>4. CASE b1.infinite = TRUE /\ b2.infinite = TRUE
    <3>1. /\ MAX_ULONGS \in 0 .. MAX_ULONGS
          /\ READULONG(b1, MAX_ULONGS) = Beyond(b1) /\ READULONG(b2, MAX_ULONGS) = Beyond(b2)
      BY PairHasWords
    <3>2. Beyond(b1) = Bit /\ Beyond(b2) = Bit /\ Bit # {}
      BY <2>4, BeyondWords
    <3>. QED  BY <3>1, <3>2
  <2>. QED  BY <1>2, <2>1, <2>2, <2>3, <2>4 DEF Intersects, ZERO
<1>. QED  BY <1>1, <1>2, PairIs

\* hwloc_bitmap_isincluded.
LEMMA IncludedIs ==
    ASSUME NEW b1 \in Bitmaps, NEW b2 \in Bitmaps
    PROVE  IsIncluded(b1, b2) <=> Members(b1) \subseteq Members(b2)
<1>. DEFINE within(i) == READULONG(b1, i) \subseteq READULONG(b2, i)
<1>1. IsIncluded(b1, b2) <=>
          /\ \A i \in Words(LeastCount(b1, b2)) : b1.ulongs[i] \subseteq b2.ulongs[i]
          /\ b2.infinite = FALSE => \A i \in Surplus(b1, b2) : b1.ulongs[i] = {}
          /\ b1.infinite = TRUE => \A i \in Surplus(b2, b1) : b2.ulongs[i] = Bit
          /\ ~(b1.infinite = TRUE /\ b2.infinite = FALSE)
  <2>1. \A i : b2.ulongs[i] = b2.ulongs[i] \cup b1.ulongs[i] <=> b1.ulongs[i] \subseteq b2.ulongs[i]
    OBVIOUS
  <2>2. b1.infinite \in BOOLEAN /\ b2.infinite \in BOOLEAN
    BY BitmapIs
  <2>. QED  BY <2>1, <2>2 DEF IsIncluded, ZERO, FULL
<1>2. ASSUME IsIncluded(b1, b2), NEW i \in 0 .. MAX_ULONGS PROVE within(i)
  <2>1. READULONG(b1, i) \subseteq Bit /\ READULONG(b2, i) \subseteq Bit
    BY BeyondWords
  <2>2. Beyond(b1) \subseteq Beyond(b2)
    BY <1>1, <1>2, BeyondWords
  <2>3. CASE i \in Words(LeastCount(b1, b2)) /\ READULONG(b1, i) = b1.ulongs[i]
                                           /\ READULONG(b2, i) = b2.ulongs[i]
    BY <1>1, <1>2, <2>3
  <2>4. CASE i \in Surplus(b1, b2) /\ READULONG(b1, i) = b1.ulongs[i] /\ READULONG(b2, i) = Beyond(b2)
    <3>1. CASE b2.infinite = TRUE
      BY <2>1, <2>4, <3>1, BeyondWords
    <3>2. CASE b2.infinite = FALSE
      BY <1>1, <1>2, <2>4, <3>2
    <3>. QED  BY <3>1, <3>2, BeyondWords
  <2>5. CASE i \in Surplus(b2, b1) /\ READULONG(b1, i) = Beyond(b1) /\ READULONG(b2, i) = b2.ulongs[i]
    <3>1. CASE b1.infinite = TRUE
      BY <1>1, <1>2, <2>1, <2>5, <3>1
    <3>2. CASE b1.infinite = FALSE
      BY <2>5, <3>2, BeyondWords
    <3>. QED  BY <3>1, <3>2, BeyondWords
  <2>6. CASE READULONG(b1, i) = Beyond(b1) /\ READULONG(b2, i) = Beyond(b2)
    BY <2>2, <2>6
  <2>. QED  BY <2>3, <2>4, <2>5, <2>6, PairOfWords
<1>3. ASSUME \A i \in 0 .. MAX_ULONGS : within(i) PROVE IsIncluded(b1, b2)
  <2>1. \A i \in Words(LeastCount(b1, b2)) : b1.ulongs[i] \subseteq b2.ulongs[i]
    BY <1>3, PairHasWords
  <2>2. Beyond(b1) \subseteq Beyond(b2)
    BY <1>3, PairHasWords
  <2>3. ASSUME NEW i \in Surplus(b1, b2) PROVE b1.ulongs[i] \subseteq Beyond(b2)
    BY <1>3, PairHasWords
  <2>4. ASSUME NEW i \in Surplus(b2, b1) PROVE Beyond(b1) \subseteq b2.ulongs[i] /\ b2.ulongs[i] \subseteq Bit
    <3>1. /\ i \in 0 .. MAX_ULONGS
          /\ READULONG(b1, i) = Beyond(b1) /\ READULONG(b2, i) = b2.ulongs[i]
      BY PairHasWords
    <3>2. READULONG(b2, i) \subseteq Bit
      BY <3>1, BeyondWords
    <3>. QED  BY <1>3, <3>1, <3>2
  <2>5. b2.infinite = FALSE => \A i \in Surplus(b1, b2) : b1.ulongs[i] = {}
    BY <2>3, BeyondWords
  <2>6. b1.infinite = TRUE => \A i \in Surplus(b2, b1) : b2.ulongs[i] = Bit
    BY <2>4, BeyondWords
  <2>7. ~(b1.infinite = TRUE /\ b2.infinite = FALSE)
    BY <2>2, BeyondWords
  <2>. QED  BY <1>1, <2>1, <2>5, <2>6, <2>7
<1>. QED  BY <1>2, <1>3, PairIs

(***************************************************************************)
(* The searches.                                                           *)
(***************************************************************************)
\* What the searches for an unset index search is the bitmap of the unset ones.
NegationOf(b) == Record(b.count, Negated(b), ~b.infinite)

\* It is the bitmap of the complement.
LEMMA NegationIs ==
    ASSUME NEW b \in Bitmaps
    PROVE  /\ NegationOf(b) \in Bitmaps /\ Members(NegationOf(b)) = Horizon \ Members(b)
           /\ NegationOf(b).count = b.count /\ NegationOf(b).ulongs = Negated(b)
           /\ NegationOf(b).infinite = ~b.infinite /\ b.infinite \in BOOLEAN
<1>1. /\ b.count \in 1 .. MAX_ULONGS /\ b.count \in Nat /\ b.infinite \in BOOLEAN
      /\ Negated(b) \in [Words(b.count) -> SUBSET Bit]
      /\ \A i \in Words(b.count) : Negated(b)[i] = Bit \ b.ulongs[i]
  BY BitmapIs DEF Negated, FULL
<1>. DEFINE u == Negated(b)
            f == ~b.infinite
            set == Horizon \ Members(b)
<1>2. f \in BOOLEAN /\ (f = TRUE <=> ~(b.infinite = TRUE))
  BY <1>1
<1>3. ASSUME NEW x \in Horizon
      PROVE  x \in set <=> IF INDEX(x) < b.count THEN CPU_ULBIT(x) \in u[INDEX(x)] ELSE f = TRUE
  <2>1. CASE INDEX(x) < b.count
    <3>1. INDEX(x) \in Words(b.count) /\ CPU_ULBIT(x) \in Bit
      BY <2>1, WordOf, InHorizon
    <3>2. u[INDEX(x)] = Bit \ b.ulongs[INDEX(x)]
      BY <1>1, <3>1
    <3>. QED  BY <2>1, <3>1, <3>2, WordOf
  <2>2. CASE ~(INDEX(x) < b.count)
    BY <1>2, <2>2, WordOf
  <2>. QED  BY <2>1, <2>2
<1>. HIDE DEF u, f, set
<1>4. set \in SUBSET Horizon
  BY DEF set
<1>5. u \in [Words(b.count) -> SUBSET Bit]
  BY <1>1 DEF u
<1>6. Is(Record(b.count, u, f), set)
  BY <1>1, <1>2, <1>3, <1>4, <1>5, BuiltIs
<1>. QED  BY <1>1, <1>6, FieldsAre DEF Is, NegationOf, u, f, set

\* hwloc_bitmap_isfull looks for an index that is not set.
LEMMA FullIs ==
    ASSUME NEW b \in Bitmaps
    PROVE  IsFull(b) <=> Horizon \ Members(b) = {}
<1>1. /\ b.count \in Nat /\ b.infinite \in BOOLEAN
      /\ \A i \in Words(b.count) : b.ulongs[i] \in SUBSET Bit
  BY BitmapIs
<1>2. NonZero(Negated(b)) = {} <=> \A i \in Words(b.count) : b.ulongs[i] = Bit
  BY <1>1 DEF NonZero, Negated, ZERO, FULL
<1>3. IsZero(NegationOf(b)) <=> b.infinite = TRUE /\ NonZero(Negated(b)) = {}
  BY <1>1, NegationIs DEF IsZero
<1>4. IsZero(NegationOf(b)) <=> Members(NegationOf(b)) = {}
  BY NegationIs, ZeroMeans
<1>5. IsFull(b) <=> b.infinite = TRUE /\ \A i \in Words(b.count) : b.ulongs[i] = Bit
  BY <1>1 DEF IsFull, FULL
<1>. QED  BY <1>2, <1>3, <1>4, <1>5, NegationIs

\* A search over words from some one on finds the least index that is set.
LEMMA FirstInIs ==
    ASSUME NEW lo \in Nat, NEW count \in Nat, count <= MAX_ULONGS, lo <= count,
           NEW u \in [lo .. count - 1 -> SUBSET Bit], NEW infinite \in BOOLEAN,
           NEW s, s = MembersBy(lo, count, u, infinite)
    PROVE  FirstIn(u, infinite, count) = First0(s)
<1>1. Found(lo, count, u, infinite, s)
  BY FirstIs
<1>2. CASE NonZero(u) # {}
  <2>1. FirstIn(u, infinite, count) = HitAt(u)
    BY <1>2 DEF FirstIn, HitAt, Hit, At
  <2>. QED  BY <1>1, <1>2, <2>1 DEF Found, First0
<1>3. CASE NonZero(u) = {} /\ infinite = TRUE
  BY <1>1, <1>3 DEF Found, FirstIn, First0
<1>4. CASE NonZero(u) = {} /\ infinite = FALSE
  BY <1>1, <1>4 DEF Found, FirstIn, First0
<1>. QED  BY <1>2, <1>3, <1>4

\* hwloc_bitmap_first is the least member.
LEMMA FirstAnswer ==
    ASSUME NEW b \in Bitmaps
    PROVE  First(b) = First0(Members(b))
<1>1. 0 \in Nat /\ b.count \in Nat /\ 0 <= b.count
  BY BitmapIs
<1>. QED  BY <1>1, SearchedIs, FirstInIs DEF First

\* The search for the last member, which a bitmap with an infinite tail has not.
LEMMA LastAnswer ==
    ASSUME NEW b \in Bitmaps
    PROVE  Last(b) = IF b.infinite = TRUE THEN -1 ELSE Last0(Members(b))
<1>. DEFINE u == b.ulongs
            count == b.count
            s == Members(b)
<1>1. /\ count \in Nat /\ count <= MAX_ULONGS /\ b.infinite \in BOOLEAN /\ 0 \in Nat
      /\ u \in [0 .. count - 1 -> SUBSET Bit] /\ s = MembersBy(0, count, u, b.infinite)
      /\ s \in SUBSET Nat
  BY SearchedIs, MembersInHorizon, HorizonIs
<1>2. CASE b.infinite = TRUE
  BY <1>2 DEF Last, LastIn
<1>3. CASE b.infinite = FALSE /\ NonZero(u) = {}
  <2>1. s = {}
    BY <1>3, ZeroMeans
  <2>. QED  BY <1>3, <2>1 DEF Last, LastIn, Last0
<1>4. CASE b.infinite = FALSE /\ NonZero(u) # {}
  <2>. DEFINE hit == Max(NonZero(u))
              m == Max(u[hit])
              last == At(hit, m)
  <2>1. Last(b) = last
    BY <1>4 DEF Last, LastIn, At
  <2>2. NonZero(u) \in SUBSET (0 .. count - 1) /\ \A i \in 0 .. count - 1 : i \in NonZero(u) <=> u[i] # {}
    BY <1>1, NonZeroIs
  <2>3. hit \in NonZero(u) /\ \A i \in NonZero(u) : i <= hit
    <3>. DEFINE N == NonZero(u)
    <3>1. N \in SUBSET Nat /\ N # {} /\ \A i \in N : i <= count
      BY <1>1, <1>4, <2>2
    <3>. HIDE DEF N
    <3>2. Max(N) \in N /\ \A i \in N : i <= Max(N)
      BY <1>1, <3>1, MaxIs
    <3>. QED  BY <3>2 DEF N
  <2>. HIDE DEF hit
  <2>4. hit \in 0 .. count - 1 /\ u[hit] # {} /\ u[hit] \in SUBSET Nat /\ u[hit] \in SUBSET Bit
    BY <1>1, <2>2, <2>3, WidthIs
  <2>5. m \in u[hit] /\ \A bit \in u[hit] : bit <= m
    <3>. DEFINE N == u[hit]
    <3>1. N \in SUBSET Nat /\ N # {} /\ BITS_PER_LONG \in Nat /\ \A i \in N : i <= BITS_PER_LONG
      BY <2>4, WidthIs DEF Bit
    <3>. HIDE DEF N
    <3>2. Max(N) \in N /\ \A i \in N : i <= Max(N)
      BY <3>1, MaxIs
    <3>. QED  BY <3>2 DEF N
  <2>. HIDE DEF m
  <2>6. last \in Horizon /\ last \in Nat /\ INDEX(last) = hit /\ CPU_ULBIT(last) = m
    <3>1. hit \in Nat /\ m \in Bit /\ hit \in Words(MAX_ULONGS)
      BY <1>1, <2>4, <2>5, HorizonIs DEF Words
    <3>. QED  BY <3>1, AtIs, HorizonIs
  <2>. HIDE DEF last
  <2>7. last \in s
    BY <1>1, <2>4, <2>5, <2>6 DEF MembersBy
  <2>8. ASSUME NEW x \in s PROVE x <= last
    <3>0. x \in Nat /\ INDEX(x) \in Nat /\ CPU_ULBIT(x) \in Bit
      BY <1>1, PlaceIs
    <3>1. x \in Nat /\ INDEX(x) \in Nat /\ CPU_ULBIT(x) \in Nat /\ m \in Nat /\ hit \in Nat
      <4>1. hit \in Nat
        BY <1>1, <2>4
      <4>2. m \in Nat
        BY <2>4, <2>5
      <4>. QED  BY <3>0, <4>1, <4>2, WidthIs
    <3>2. INDEX(x) \in 0 .. count - 1 /\ CPU_ULBIT(x) \in u[INDEX(x)]
      BY <1>1, <1>4 DEF MembersBy
    <3>3. INDEX(x) <= hit
      BY <2>2, <2>3, <3>2
    <3>4. INDEX(x) = hit => CPU_ULBIT(x) <= m
      BY <2>5, <3>2
    <3>5. ~(last < x)
      BY <2>6, <3>1, <3>3, <3>4, OrderIs
    <3>. QED  BY <2>6, <3>1, <3>5
  <2>9. Max(s) = last /\ s # {}
    BY <1>1, <2>7, <2>8, ExtremesAre
  <2>. QED  BY <1>4, <2>1, <2>9 DEF Last0
<1>. QED  BY <1>1, <1>2, <1>3, <1>4

\* hwloc_bitmap_nr_ulongs: the members lie in that many words.
LEMMA NrUlongsIs ==
    ASSUME NEW b \in Bitmaps, b.infinite = FALSE
    PROVE  Members(b) \subseteq 0 .. NrUlongs(b) * BITS_PER_LONG - 1
<1>. DEFINE s == Members(b)
<1>. SUFFICES ASSUME NEW x \in s PROVE x \in 0 .. NrUlongs(b) * BITS_PER_LONG - 1
  OBVIOUS
<1>. DEFINE m == Max(s)
            words == INDEX(m) + 1
<1>1. s \in SUBSET Nat /\ \A y \in s : y <= Top
  BY MembersInHorizon, HorizonIs, TopIs
<1>2. Top \in Nat
  BY TopIs, HorizonIs
<1>. HIDE DEF s
<1>3. m \in s /\ x <= m /\ m \in Nat /\ x \in Nat
  BY <1>1, <1>2, MaxIs
<1>. HIDE DEF m
<1>4. Last(b) = m
  BY LastAnswer DEF Last0, s, m
<1>5. INDEX(m) \in Nat /\ CPU_ULBIT(m) \in Bit /\ m = At(INDEX(m), CPU_ULBIT(m))
  BY <1>3, PlaceIs
<1>6. NrUlongs(b) = words
  <2>1. m + BITS_PER_LONG = At(words, CPU_ULBIT(m))
    <3>1. (INDEX(m) + 1) * BITS_PER_LONG = INDEX(m) * BITS_PER_LONG + BITS_PER_LONG
      BY <1>5, WidthIs
    <3>2. m = INDEX(m) * BITS_PER_LONG + CPU_ULBIT(m)
      BY <1>5 DEF At
    <3>3. INDEX(m) * BITS_PER_LONG \in Nat /\ CPU_ULBIT(m) \in Nat
      BY <1>5, EndIs, WidthIs
    <3>. QED  BY <3>1, <3>2, <3>3, WidthIs DEF At
  <2>2. INDEX(m + BITS_PER_LONG) = words
    BY <1>5, <2>1, AtIs
  <2>. QED  BY <1>4, <2>2 DEF NrUlongs, INDEX
<1>7. m < words * BITS_PER_LONG
  <2>1. words \in Nat /\ INDEX(m) < words
    BY <1>5
  <2>. HIDE DEF words
  <2>2. At(INDEX(m), CPU_ULBIT(m)) < words * BITS_PER_LONG
    BY <1>5, <2>1, WordsInOrder
  <2>. QED  BY <1>5, <2>2
<1>8. words * BITS_PER_LONG \in Nat
  BY <1>5, EndIs
<1>. HIDE DEF words
<1>. QED  BY <1>3, <1>6, <1>7, <1>8

\* The search for the next member after an index, or for the first one.
LEMMA NextAnswer ==
    ASSUME NEW b \in Bitmaps, NEW prev \in Cpus \cup {-1}
    PROVE  NextSet(b, prev) = First0({x \in Members(b) : x > prev})
<1>. DEFINE u == b.ulongs
            count == b.count
            infinite == b.infinite
            s == {x \in Members(b) : x > prev}
            begin == INDEX(prev + 1)
            word == [i \in begin .. count - 1 |->
                        IF prev >= 0 /\ INDEX(prev) = i THEN u[i] \ ULBIT_TO(CPU_ULBIT(prev)) ELSE u[i]]
<1>1. /\ count \in Nat /\ count <= MAX_ULONGS /\ infinite \in BOOLEAN
      /\ u \in [0 .. count - 1 -> SUBSET Bit]
  BY SearchedIs
<1>2. prev + 1 \in Nat /\ begin \in Nat /\ prev + 1 \in Horizon /\ prev \in Int
  <2>1. MAX_ULONGS * BITS_PER_LONG \in Nat
    BY HorizonIs, EndIs
  <2>2. prev + 1 \in Nat /\ prev + 1 \in Horizon /\ prev \in Int
    BY <2>1 DEF Cpus, Horizon
  <2>. QED  BY <2>2, PlaceIs
<1>3. ASSUME NEW x \in Horizon
      PROVE  /\ x \in Nat /\ INDEX(x) \in Nat /\ CPU_ULBIT(x) \in Bit /\ CPU_ULBIT(x) \in Nat
             /\ INDEX(x) < count => (x \in Members(b) <=> CPU_ULBIT(x) \in u[INDEX(x)])
             /\ ~(INDEX(x) < count) => (x \in Members(b) <=> infinite = TRUE)
             /\ x > prev <=> prev + 1 <= x
  <2>1. x \in Nat /\ INDEX(x) \in Nat /\ CPU_ULBIT(x) \in Bit /\ CPU_ULBIT(x) \in Nat
    BY InHorizon, WidthIs
  <2>2. x > prev <=> prev + 1 <= x
    BY <1>2, <2>1
  <2>. QED  BY <2>1, <2>2, WordOf
<1>5. s \subseteq Horizon /\ \A x \in Horizon : x \in s <=> x \in Members(b) /\ x > prev
  BY MembersInHorizon
<1>. HIDE DEF begin, s, count, u, infinite
<1>4. ASSUME NEW x \in Horizon PROVE x > prev => INDEX(x) >= begin
  <2>1. x \in Nat /\ INDEX(x) \in Nat /\ (x > prev <=> prev + 1 <= x)
    BY <1>3
  <2>2. INDEX(x) < begin => x < prev + 1
    BY <1>2, <2>1, OrderIs DEF begin
  <2>. QED  BY <1>2, <2>1, <2>2
<1>6. CASE begin >= count
  <2>1. NextSet(b, prev) = IF infinite = TRUE THEN prev + 1 ELSE -1
    BY <1>1, <1>6 DEF NextSet, NextIn, begin, count, infinite, u
  <2>2. ASSUME NEW x \in Horizon, x > prev PROVE x \in s <=> infinite = TRUE
    <3>1. INDEX(x) \in Nat /\ INDEX(x) >= begin
      BY <1>3, <1>4, <2>2
    <3>2. ~(INDEX(x) < count)
      BY <1>1, <1>2, <1>6, <3>1
    <3>. QED  BY <1>3, <1>5, <2>2, <3>2
  <2>3. CASE infinite = TRUE
    <3>0. prev + 1 > prev
      BY <1>2
    <3>1. prev + 1 \in s /\ \A x \in s : prev + 1 <= x
      BY <1>2, <1>3, <1>5, <2>2, <2>3, <3>0
    <3>2. s \in SUBSET Nat
      BY <1>3, <1>5
    <3>3. Min(s) = prev + 1 /\ s # {}
      BY <3>1, <3>2, ExtremesAre
    <3>. QED  BY <2>1, <2>3, <3>3 DEF First0, s
  <2>4. CASE infinite = FALSE
    <3>1. s = {}
      BY <1>5, <2>2, <2>4
    <3>. QED  BY <2>1, <2>4, <3>1 DEF First0, s
  <2>. QED  BY <1>1, <2>3, <2>4
<1>7. CASE ~(begin >= count)
  <2>1. NextSet(b, prev) = FirstIn(word, infinite, count)
    BY <1>7 DEF NextSet, NextIn, begin, count, infinite, u
  <2>2. word \in [begin .. count - 1 -> SUBSET Bit]
    BY <1>1, <1>2
  <2>3. ASSUME NEW x \in Horizon PROVE x \in s <=> x \in MembersBy(begin, count, word, infinite)
    <3>0. INDEX(x) \in Nat /\ CPU_ULBIT(x) \in Nat /\ x \in Nat
      BY <1>3
    <3>1. CASE INDEX(x) >= count
      <4>1. ~(INDEX(x) < count) /\ INDEX(x) \notin begin .. count - 1 /\ begin < INDEX(x)
        BY <1>1, <1>2, <1>7, <3>0, <3>1
      <4>2. prev + 1 < x
        BY <1>2, <3>0, <4>1, OrderIs DEF begin
      <4>3. x > prev
        BY <1>2, <3>0, <4>2
      <4>. QED  BY <1>3, <1>5, <3>1, <4>1, <4>3 DEF MembersBy
    <3>2. CASE ~(INDEX(x) >= count) /\ ~(INDEX(x) >= begin)
      <4>1. INDEX(x) \notin begin .. count - 1
        BY <1>2, <3>2
      <4>. QED  BY <1>4, <1>5, <3>2, <4>1 DEF MembersBy
    <3>3. CASE INDEX(x) < count /\ INDEX(x) >= begin
      <4>1. INDEX(x) \in begin .. count - 1 /\ ~(INDEX(x) >= count)
        BY <1>1, <1>2, <3>0, <3>3
      <4>2. CASE prev >= 0 /\ INDEX(prev) = INDEX(x)
        <5>1. x > prev <=> CPU_ULBIT(x) > CPU_ULBIT(prev)
          <6>1. prev \in Nat
            BY <1>2, <4>2
          <6>2. prev < x <=> CPU_ULBIT(prev) < CPU_ULBIT(x)
            <7>1. INDEX(prev) \in Nat
              BY <6>1, PlaceIs
            <7>2. ~(INDEX(prev) < INDEX(x))
              BY <3>0, <4>2, <7>1
            <7>. QED  BY <3>0, <4>2, <6>1, <7>2, OrderIs
          <6>3. CPU_ULBIT(prev) \in Nat
            BY <6>1, PlaceIs, WidthIs
          <6>. QED  BY <3>0, <6>1, <6>2, <6>3
        <5>2. CPU_ULBIT(x) \in ULBIT_TO(CPU_ULBIT(prev)) <=> ~(CPU_ULBIT(x) > CPU_ULBIT(prev))
          <6>1. CPU_ULBIT(x) \in Nat /\ CPU_ULBIT(prev) \in Nat
            <7>1. prev \in Nat
              BY <1>2, <4>2
            <7>. QED  BY <3>0, <7>1, PlaceIs, WidthIs
          <6>. QED  BY <6>1 DEF ULBIT_TO
        <5>3. word[INDEX(x)] = u[INDEX(x)] \ ULBIT_TO(CPU_ULBIT(prev))
          BY <4>1, <4>2
        <5>. QED  BY <1>3, <1>5, <3>3, <4>1, <5>1, <5>2, <5>3 DEF MembersBy
      <4>3. CASE ~(prev >= 0 /\ INDEX(prev) = INDEX(x))
        <5>1. x > prev
          <6>1. CASE prev = -1
            BY <3>0, <6>1
          <6>2. CASE prev \in Nat
            <7>1. INDEX(prev) # INDEX(x) /\ INDEX(prev) \in Nat
              BY <4>3, <6>2, PlaceIs
            <7>2. begin = INDEX(prev) \/ begin = INDEX(prev) + 1
              BY <6>2, WidthIs, Division DEF begin, INDEX
            <7>3. INDEX(prev) < INDEX(x)
              BY <3>0, <3>3, <7>1, <7>2
            <7>4. prev < x
              BY <3>0, <6>2, <7>3, OrderIs
            <7>. QED  BY <3>0, <6>2, <7>4
          <6>. QED  BY <6>1, <6>2 DEF Cpus
        <5>2. word[INDEX(x)] = u[INDEX(x)]
          BY <4>1, <4>3
        <5>. QED  BY <1>3, <1>5, <3>3, <4>1, <5>1, <5>2 DEF MembersBy
      <4>. QED  BY <4>2, <4>3
    <3>. QED  BY <1>1, <1>2, <3>0, <3>1, <3>2, <3>3
  <2>4. s = MembersBy(begin, count, word, infinite)
    BY <1>5, <2>3 DEF MembersBy
  <2>5. begin <= count
    BY <1>1, <1>2, <1>7
  <2>. HIDE DEF word
  <2>6. FirstIn(word, infinite, count) = First0(s)
    BY <1>1, <1>2, <2>2, <2>4, <2>5, FirstInIs
  <2>. QED  BY <2>1, <2>6 DEF s
<1>. QED  BY <1>6, <1>7

(***************************************************************************)
(* The weight.                                                             *)
(***************************************************************************)
\* The element of a set that a sum takes next, and the sums over all sets.
Taken(set) == CHOOSE x \in set : TRUE

IsSum(D, f, sum) ==
    sum = [set \in SUBSET D |-> IF set = {} THEN 0 ELSE f[Taken(set)] + sum[set \ {Taken(set)}]]

Total(f) == FoldFunction(+, 0, f)

\* A measure of sets that grows, element by element, as a function says.
Measures(g, f, D) ==
    /\ g = [set \in SUBSET D |-> g[set]] /\ g[{}] = 0
    /\ \A set \in SUBSET D : \A x \in set : g[set] = f[x] + g[set \ {x}]

\* A sum does not depend on the order in which it takes the indices.
LEMMA SumIs ==
    ASSUME NEW D, IsFiniteSet(D), NEW f, DOMAIN f = D, NEW g, Measures(g, f, D)
    PROVE  Total(f) = g[D]
<1>. DEFINE sum == CHOOSE h : IsSum(D, f, h)
<1>0. /\ g = [set \in SUBSET D |-> g[set]] /\ g[{}] = 0
      /\ \A set \in SUBSET D : \A x \in set : g[set] = f[x] + g[set \ {x}]
  BY DEF Measures
<1>1. Total(f) = sum[D]
  BY DEF Total, FoldFunction, FoldFunctionOnSet, MapThenFoldSet, IsSum, Taken
<1>2. \A set : set # {} => Taken(set) \in set
  BY DEF Taken
<1>3. IsSum(D, f, g)
  <2>. DEFINE h == [set \in SUBSET D |-> IF set = {} THEN 0 ELSE f[Taken(set)] + g[set \ {Taken(set)}]]
  <2>1. ASSUME NEW set \in SUBSET D PROVE g[set] = h[set]
    BY <1>0, <1>2
  <2>. HIDE DEF h
  <2>2. [set \in SUBSET D |-> g[set]] = [set \in SUBSET D |-> h[set]]
    BY <2>1
  <2>3. g = h
    BY <1>0, <2>2 DEF h
  <2>. QED  BY <2>3 DEF IsSum, h
<1>4. IsSum(D, f, sum)
  BY <1>3
<1>. HIDE DEF sum
<1>5. /\ {} \in SUBSET D => sum[{}] = 0
      /\ \A set \in SUBSET D : set # {} => sum[set] = f[Taken(set)] + sum[set \ {Taken(set)}]
  BY <1>4 DEF IsSum
<1>6. ASSUME NEW set \in SUBSET D, sum[set] # g[set] PROVE FALSE
  <2>. DEFINE Bad == {other \in SUBSET D : sum[other] # g[other]}
              sizes == {Cardinality(other) : other \in Bad}
  <2>1. sizes \in SUBSET Nat /\ sizes # {}
    <3>1. \A other \in Bad : IsFiniteSet(other)
      BY FS_Subset
    <3>2. \A other \in Bad : Cardinality(other) \in Nat
      BY <3>1, FS_CardinalityType
    <3>. QED  BY <1>6, <3>2
  <2>2. PICK n \in sizes : \A k \in sizes : n <= k
    <3>. HIDE DEF sizes
    <3>. QED  BY <2>1, LeastNat
  <2>3. PICK least \in Bad : n = Cardinality(least)
    OBVIOUS
  <2>4. least # {}
    BY <1>0, <1>5
  <2>. DEFINE rest == least \ {Taken(least)}
  <2>5. rest \in SUBSET D /\ Taken(least) \in least
    BY <1>2, <2>4
  <2>6. Cardinality(rest) = Cardinality(least) - 1 /\ Cardinality(least) \in Nat
    BY <2>5, FS_Subset, FS_RemoveElement, FS_CardinalityType
  <2>7. rest \notin Bad
    <3>1. rest \in Bad => n <= Cardinality(rest)
      BY <2>2
    <3>. HIDE DEF rest, Bad
    <3>. QED  BY <2>3, <2>6, <3>1
  <2>8. sum[rest] = g[rest]
    BY <2>5, <2>7
  <2>9. sum[least] = f[Taken(least)] + sum[rest] /\ g[least] = f[Taken(least)] + g[rest]
    BY <1>0, <1>5, <2>4, <2>5
  <2>. HIDE DEF rest
  <2>. QED  BY <2>8, <2>9
<1>. QED  BY <1>1, <1>6

\* The bits of a word are as many as the members in it.
LEMMA WordCounts ==
    ASSUME NEW b \in Bitmaps, NEW i \in Words(b.count)
    PROVE  /\ IsFiniteSet(Within(Members(b), i))
           /\ Cardinality(Within(Members(b), i)) = Cardinality(b.ulongs[i])
<1>. DEFINE w == b.ulongs[i]
            d == Within(Members(b), i)
            f == [bit \in w |-> At(i, bit)]
<1>1. i \in Nat /\ i < MAX_ULONGS /\ i < b.count /\ w \in SUBSET Bit /\ READULONG(b, i) = w
  BY BitmapIs DEF Words, READULONG
<1>2. \A bit \in w : At(i, bit) \in d /\ CPU_ULBIT(At(i, bit)) = bit
  BY <1>1, PlaceMember DEF Within
<1>3. ASSUME NEW x \in d PROVE CPU_ULBIT(x) \in w /\ x = At(i, CPU_ULBIT(x))
  <2>1. x \in Horizon /\ x \in Members(b) /\ INDEX(x) = i
    BY MembersInHorizon DEF Within
  <2>. QED  BY <1>1, <2>1, InHorizon, MemberIs
<1>. HIDE DEF w, d
<1>4. f \in Bijection(w, d)
  <2>1. f \in [w -> d] /\ \A p, q \in w : f[p] = f[q] => p = q
    BY <1>2
  <2>2. \A x \in d : \E bit \in w : f[bit] = x
    BY <1>3
  <2>. HIDE DEF f
  <2>. QED  BY <2>1, <2>2 DEF Bijection, Injection, Surjection, IsInjective
<1>5. IsFiniteSet(w)
  <2>1. BITS_PER_LONG - 1 \in Int /\ 0 \in Int /\ IsFiniteSet(Bit)
    BY WidthIs, FS_Interval DEF Bit
  <2>. QED  BY <1>1, <2>1, FS_Subset
<1>6. ExistsBijection(w, d)
  BY <1>4 DEF ExistsBijection
<1>. QED  BY <1>5, <1>6, FS_Bijection DEF w, d

\* hwloc_bitmap_weight adds up the bits of the words: it counts the members.
LEMMA WeightIs ==
    ASSUME NEW b \in Bitmaps
    PROVE  Weight(b) = IF b.infinite = TRUE THEN -1 ELSE Cardinality(Members(b))
<1>1. b.count \in Nat /\ b.infinite \in BOOLEAN
  BY BitmapIs
<1>2. CASE b.infinite = TRUE
  BY <1>2 DEF Weight
<1>3. CASE b.infinite = FALSE
  <2>. DEFINE D == Words(b.count)
              s == Members(b)
              part(set) == {x \in s : INDEX(x) \in set}
              f == [i \in D |-> Cardinality(b.ulongs[i])]
              g == [set \in SUBSET D |-> Cardinality(part(set))]
  <2>1. Weight(b) = Total(f)
    BY <1>3 DEF Weight, Total
  <2>2. IsFiniteSet(D) /\ IsFiniteSet(s)
    <3>1. IsFiniteSet(D)
      BY <1>1, FS_Interval DEF Words
    <3>2. IsFiniteSet(Horizon)
      <4>1. MAX_ULONGS * BITS_PER_LONG \in Nat
        BY HorizonIs, EndIs
      <4>. QED  BY <4>1, FS_Interval DEF Horizon
    <3>. QED  BY <3>1, <3>2, MembersInHorizon, FS_Subset
  <2>3. \A x \in s : INDEX(x) \in D
    BY <1>3, MembersInHorizon, WordOf
  <2>4. ASSUME NEW set \in SUBSET D, NEW i \in set
        PROVE  Cardinality(part(set)) = Cardinality(b.ulongs[i]) + Cardinality(part(set \ {i}))
    <3>1. part(set) = Within(s, i) \cup part(set \ {i}) /\ Within(s, i) \cap part(set \ {i}) = {}
      BY DEF Within
    <3>2. /\ IsFiniteSet(Within(s, i)) /\ Cardinality(Within(s, i)) = Cardinality(b.ulongs[i])
      BY WordCounts
    <3>3. IsFiniteSet(part(set \ {i}))
      BY <2>2, FS_Subset
    <3>. DEFINE p == part(set \ {i})
                v == Within(s, i)
    <3>4. Cardinality(v) \in Nat /\ Cardinality(p) \in Nat
      BY <3>2, <3>3, FS_CardinalityType
    <3>. HIDE DEF p, v
    <3>5. Cardinality(v \cup p) = Cardinality(v) + Cardinality(p) - Cardinality(v \cap p)
      BY <3>2, <3>3, FS_Union DEF p, v
    <3>6. Cardinality(v \cap p) = 0
      BY <3>1, FS_EmptySet DEF p, v
    <3>7. Cardinality(v \cup p) = Cardinality(v) + Cardinality(p)
      BY <3>4, <3>5, <3>6
    <3>. QED  BY <3>1, <3>2, <3>7 DEF p, v
  <2>5. g[{}] = 0
    <3>1. part({}) = {} /\ {} \in SUBSET D
      OBVIOUS
    <3>. QED  BY <3>1, FS_EmptySet
  <2>6. \A set \in SUBSET D : \A i \in set : g[set] = f[i] + g[set \ {i}]
    <3>. SUFFICES ASSUME NEW set \in SUBSET D, NEW i \in set PROVE g[set] = f[i] + g[set \ {i}]
      OBVIOUS
    <3>1. set \ {i} \in SUBSET D /\ i \in D
      OBVIOUS
    <3>. HIDE DEF part, D
    <3>2. g[set] = Cardinality(part(set)) /\ g[set \ {i}] = Cardinality(part(set \ {i}))
          /\ f[i] = Cardinality(b.ulongs[i])
      BY <3>1
    <3>. HIDE DEF f, g
    <3>. QED  BY <2>4, <3>2
  <2>7. DOMAIN f = D /\ g = [set \in SUBSET D |-> g[set]]
    <3>. HIDE DEF part, D
    <3>. QED  OBVIOUS
  <2>8. g[D] = Cardinality(s)
    <3>1. part(D) = s
      BY <2>3
    <3>. HIDE DEF part
    <3>. QED  BY <3>1
  <2>. HIDE DEF D, f, g, s
  <2>9. Total(f) = g[D]
    <3>1. Measures(g, f, D)
      BY <2>5, <2>6, <2>7 DEF Measures
    <3>. QED  BY <2>2, <2>7, <3>1, SumIs
  <2>. QED  BY <1>3, <2>1, <2>8, <2>9 DEF s
<1>. QED  BY <1>1, <1>2, <1>3

\* Every question about bitmaps of any length is answered for the sets that they
\* stand for: equal, intersecting and included sets are recognised whatever the
\* numbers of words, and the searches find the next member, also in the tail.
THEOREM BitmapAnswers == Spec => []AnswersExact
<1>1. ASSUME AllBitmaps, NEW m \in Owned
      PROVE  LET b == bitmap[m]
                 s == Members(b)
                 rest == Horizon \ s
             IN  /\ \A n \in Owned :
                       LET t == Members(bitmap[n])
                       IN  /\ IsEqual(b, bitmap[n]) <=> s = t
                           /\ Intersects(b, bitmap[n]) <=> s \cap t # {}
                           /\ IsIncluded(b, bitmap[n]) <=> s \subseteq t
                 /\ \A cpu \in Horizon : IsSet(b, cpu) <=> cpu \in s
                 /\ IsZero(b) <=> s = {}
                 /\ IsFull(b) <=> rest = {}
                 /\ First(b) = First0(s) /\ FirstUnset(b) = First0(rest)
                 /\ Last(b) = (IF b.infinite THEN -1 ELSE Last0(s))
                 /\ LastUnset(b) = (IF b.infinite THEN Last0(rest) ELSE -1)
                 /\ Weight(b) = (IF b.infinite THEN -1 ELSE Cardinality(s))
                 /\ ~b.infinite => s \subseteq 0 .. NrUlongs(b) * BITS_PER_LONG - 1
                 /\ \A prev \in Cpus \cup {-1} :
                       /\ NextSet(b, prev) = First0({cpu \in s : cpu > prev})
                       /\ NextUnset(b, prev) = First0({cpu \in rest : cpu > prev})
  <2>. DEFINE b == bitmap[m]
              s == Members(b)
              rest == Horizon \ s
              c == NegationOf(b)
  <2>1. \A n \in Owned : bitmap[n] \in Bitmaps
    BY <1>1 DEF AllBitmaps, Name
  <2>2. /\ b \in Bitmaps /\ b.infinite \in BOOLEAN /\ c \in Bitmaps /\ Members(c) = rest
        /\ c.count = b.count /\ c.ulongs = Negated(b) /\ c.infinite = ~b.infinite
    BY <2>1, NegationIs
  <2>3. \A n \in Owned :
            /\ IsEqual(b, bitmap[n]) <=> s = Members(bitmap[n])
            /\ Intersects(b, bitmap[n]) <=> s \cap Members(bitmap[n]) # {}
            /\ IsIncluded(b, bitmap[n]) <=> s \subseteq Members(bitmap[n])
    BY <2>1, EqualIs, IntersectsIs, IncludedIs
  <2>. HIDE DEF b, c
  <2>4. \A cpu \in Horizon : IsSet(b, cpu) <=> cpu \in s
    BY <2>2, MembersAre
  <2>5. (IsZero(b) <=> s = {}) /\ (IsFull(b) <=> rest = {})
    BY <2>2, ZeroMeans, FullIs
  <2>6. First(b) = First0(s) /\ FirstUnset(b) = First0(rest)
    <3>1. First(b) = First0(s) /\ First(c) = First0(Members(c))
      BY <2>2, FirstAnswer
    <3>. QED  BY <2>2, <3>1 DEF First, FirstUnset
  <2>7. /\ Last(b) = (IF b.infinite = TRUE THEN -1 ELSE Last0(s))
        /\ LastUnset(b) = (IF b.infinite = TRUE THEN Last0(rest) ELSE -1)
    <3>1. /\ Last(b) = (IF b.infinite = TRUE THEN -1 ELSE Last0(s))
          /\ Last(c) = (IF c.infinite = TRUE THEN -1 ELSE Last0(Members(c)))
      BY <2>2, LastAnswer
    <3>2. LastUnset(b) = Last(c)
      BY <2>2 DEF Last, LastUnset
    <3>. QED  BY <2>2, <3>1, <3>2
  <2>8. Weight(b) = (IF b.infinite = TRUE THEN -1 ELSE Cardinality(s))
    BY <2>2, WeightIs
  <2>9. b.infinite = FALSE => s \subseteq 0 .. NrUlongs(b) * BITS_PER_LONG - 1
    BY <2>2, NrUlongsIs
  <2>10. ASSUME NEW prev \in Cpus \cup {-1}
         PROVE  /\ NextSet(b, prev) = First0({cpu \in s : cpu > prev})
                /\ NextUnset(b, prev) = First0({cpu \in rest : cpu > prev})
    <3>1. /\ NextSet(b, prev) = First0({cpu \in s : cpu > prev})
          /\ NextSet(c, prev) = First0({cpu \in Members(c) : cpu > prev})
      BY <2>2, NextAnswer
    <3>2. NextUnset(b, prev) = NextSet(c, prev)
      BY <2>2 DEF NextSet, NextUnset
    <3>. QED  BY <2>2, <3>1, <3>2
  <2>. HIDE DEF s, rest
  <2>. QED  BY <2>2, <2>3, <2>4, <2>5, <2>6, <2>7, <2>8, <2>9, <2>10 DEF b, s, rest
<1>2. AllBitmaps => AnswersExact
  BY <1>1, Zenon DEF AnswersExact
<1>. QED  BY <1>2, BitmapsStay, PTL

===============================================================================
