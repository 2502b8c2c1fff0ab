--------------------------------- MODULE Bitmap ---------------------------------
(***************************************************************************)
(* The bitmaps that hold all cpusets (hwloc/bitmap.c): an array of words   *)
(* that grows and shrinks with the calls, and a flag that says whether all *)
(* indices beyond the array are members.                                   *)
(*                                                                         *)
(* Abstractions: a word is the set of its bits; memory allocation          *)
(* succeeds; a temporary bitmap is freed after one operation.              *)
(***************************************************************************)
EXTENDS Integers, FiniteSets, FiniteSetsExt, Functions

CONSTANTS
    BITS_PER_LONG,
    MAX_ULONGS,     \* bound: no call names an index beyond this many words
    Owned,          \* the bitmaps that the caller keeps
    Temporary       \* the one it allocates for a single result

ASSUME BitmapAssumption ==
    /\ BITS_PER_LONG \in Nat \ {0}
    /\ MAX_ULONGS \in Nat \ {0}
    /\ Temporary \notin Owned

VARIABLES
    bitmap,     \* name -> its state
    call        \* history: the latest call

vars == <<bitmap, call>>

Name == Owned \cup {Temporary}

(***************************************************************************)
(* Words                                                                   *)
(***************************************************************************)
Bit == 0 .. BITS_PER_LONG - 1
ZERO == {}
FULL == Bit

\* The contents of a word that was never written.
Stale == {BITS_PER_LONG}

ULBIT_TO(bit) == 0 .. bit
ULBIT_FROM(bit) == bit .. BITS_PER_LONG - 1

INDEX(cpu) == cpu \div BITS_PER_LONG
CPU_ULBIT(cpu) == cpu % BITS_PER_LONG

\* The bits of word i that lie between two indices, i being no further out.
FromTo(i, begincpu, endcpu) ==
    (IF i = INDEX(begincpu) THEN ULBIT_FROM(CPU_ULBIT(begincpu)) ELSE FULL)
        \cap (IF i = INDEX(endcpu) THEN ULBIT_TO(CPU_ULBIT(endcpu)) ELSE FULL)

\* <, on words as the numbers they are.
Below(val1, val2) ==
    LET differ == (val1 \ val2) \cup (val2 \ val1)
    IN  differ # {} /\ Max(differ) \in val2

(***************************************************************************)
(* Bitmaps: b.ulongs[i] for i < b.count, and b.infinite for all beyond.    *)
(***************************************************************************)
Words(count) == 0 .. count - 1

NewBitmap == [count |-> 1, ulongs |-> [i \in Words(1) |-> ZERO], infinite |-> FALSE]

Beyond(b) == IF b.infinite THEN FULL ELSE ZERO

READULONG(b, i) == IF i < b.count THEN b.ulongs[i] ELSE Beyond(b)

\* hwloc_bitmap_realloc_by_ulongs: at least so many words, with the same members.
Realloc(b, needed) ==
    IF needed <= b.count THEN b
    ELSE [b EXCEPT !.count = needed,
                   !.ulongs = [i \in Words(needed) |-> READULONG(b, i)]]

\* hwloc_bitmap_reset_by_ulongs: exactly so many words, for the caller to set.
Reset(b, needed) ==
    [b EXCEPT !.count = needed,
              !.ulongs = [i \in Words(needed) |-> IF i < b.count THEN b.ulongs[i] ELSE Stale]]

ReallocByCpu(b, cpu) == Realloc(b, INDEX(cpu) + 1)
ResetByCpu(b, cpu) == Reset(b, INDEX(cpu) + 1)

\* Mutant: the loop ends one word early.
ZeroedShort(b) ==
    [b EXCEPT !.ulongs = [i \in DOMAIN @ |-> IF i + 1 < b.count THEN ZERO ELSE @[i]],
              !.infinite = FALSE]

Zeroed(b) == [b EXCEPT !.ulongs = [i \in DOMAIN @ |-> ZERO], !.infinite = FALSE]
Filled(b) == [b EXCEPT !.ulongs = [i \in DOMAIN @ |-> FULL], !.infinite = TRUE]

\* An index in the part of the bitmap that has no words.
InBeyond(b, cpu) == cpu >= b.count * BITS_PER_LONG

(***************************************************************************)
(* The calls that change one bitmap                                        *)
(***************************************************************************)
Cpus == 0 .. MAX_ULONGS * BITS_PER_LONG - 1

\* Where a range may end, one that is empty included.
Ends(begincpu) == {endcpu \in Cpus : endcpu >= begincpu - 1}

\* No temporary is in use.
Idle == bitmap[Temporary] = NewBitmap

Store(op, res, args, b) ==
    /\ bitmap' = [bitmap EXCEPT ![res] = b]
    /\ call' = [op |-> op, res |-> res, args |-> args]

Init ==
    /\ bitmap = [n \in Name |-> NewBitmap]
    /\ call = [op |-> "none"]

\* hwloc_bitmap_free and hwloc_bitmap_alloc
Renew(n) == Store("renew", n, <<>>, NewBitmap)

Zero(n) == Store("zero", n, <<>>, Zeroed(Reset(bitmap[n], 1)))

Fill(n) == Store("fill", n, <<>>, Filled(Reset(bitmap[n], 1)))

Only(n, cpu) ==
    Store("only", n, <<cpu>>,
          [Zeroed(ResetByCpu(bitmap[n], cpu)) EXCEPT !.ulongs[INDEX(cpu)] = @ \cup {CPU_ULBIT(cpu)}])

AllBut(n, cpu) ==
    Store("allbut", n, <<cpu>>,
          [Filled(ResetByCpu(bitmap[n], cpu)) EXCEPT !.ulongs[INDEX(cpu)] = @ \ {CPU_ULBIT(cpu)}])

WithCpu(b, cpu) ==
    IF b.infinite /\ InBeyond(b, cpu) THEN b
    ELSE [ReallocByCpu(b, cpu) EXCEPT !.ulongs[INDEX(cpu)] = @ \cup {CPU_ULBIT(cpu)}]

Set(n, cpu) == Store("set", n, <<cpu>>, WithCpu(bitmap[n], cpu))

WithoutCpu(b, cpu) ==
    IF ~b.infinite /\ InBeyond(b, cpu) THEN b
    ELSE [ReallocByCpu(b, cpu) EXCEPT !.ulongs[INDEX(cpu)] = @ \ {CPU_ULBIT(cpu)}]

Clr(n, cpu) == Store("clr", n, <<cpu>>, WithoutCpu(bitmap[n], cpu))

\* Mutant: the end of the range is cut one index too early.
CutShort(b, endcpu, infinite) ==
    IF infinite /\ InBeyond(b, endcpu) THEN b.count * BITS_PER_LONG - 2 ELSE endcpu

\* The part of a range beyond the words has nothing to change there.
Cut(b, endcpu, infinite) ==
    IF infinite /\ InBeyond(b, endcpu) THEN b.count * BITS_PER_LONG - 1 ELSE endcpu

SetRange(n, begincpu, endcpu) ==
    LET b == bitmap[n]
        end == Cut(b, endcpu, b.infinite)
    IN  Store("set_range", n, <<begincpu, endcpu>>,
              IF endcpu < begincpu \/ (b.infinite /\ InBeyond(b, begincpu)) THEN b
              ELSE [ReallocByCpu(b, end) EXCEPT !.ulongs =
                       [i \in DOMAIN @ |->
                           IF i \in INDEX(begincpu) .. INDEX(end)
                           THEN @[i] \cup FromTo(i, begincpu, end) ELSE @[i]]])

ClrRange(n, begincpu, endcpu) ==
    LET b == bitmap[n]
        end == Cut(b, endcpu, ~b.infinite)
    IN  Store("clr_range", n, <<begincpu, endcpu>>,
              IF endcpu < begincpu \/ (~b.infinite /\ InBeyond(b, begincpu)) THEN b
              ELSE [ReallocByCpu(b, end) EXCEPT !.ulongs =
                       [i \in DOMAIN @ |->
                           IF i \in INDEX(begincpu) .. INDEX(end)
                           THEN @[i] \ FromTo(i, begincpu, end) ELSE @[i]]])

\* hwloc_bitmap_set_range and hwloc_bitmap_clr_range without an end (-1).
SetFrom(n, begincpu) ==
    LET b == bitmap[n]
    IN  Store("set_from", n, <<begincpu>>,
              IF b.infinite /\ InBeyond(b, begincpu) THEN b
              ELSE [ReallocByCpu(b, begincpu) EXCEPT
                       !.infinite = TRUE,
                       !.ulongs =
                           [i \in DOMAIN @ |->
                               CASE i < INDEX(begincpu) -> @[i]
                                 [] i = INDEX(begincpu) -> @[i] \cup ULBIT_FROM(CPU_ULBIT(begincpu))
                                 [] i > INDEX(begincpu) -> FULL]])

ClrFrom(n, begincpu) ==
    LET b == bitmap[n]
    IN  Store("clr_from", n, <<begincpu>>,
              IF ~b.infinite /\ InBeyond(b, begincpu) THEN b
              ELSE [ReallocByCpu(b, begincpu) EXCEPT
                       !.infinite = FALSE,
                       !.ulongs =
                           [i \in DOMAIN @ |->
                               CASE i < INDEX(begincpu) -> @[i]
                                 [] i = INDEX(begincpu) -> @[i] \ ULBIT_FROM(CPU_ULBIT(begincpu))
                                 [] i > INDEX(begincpu) -> ZERO]])

\* The indices of the bits of word i.
Indices(i, word) == {i * BITS_PER_LONG + bit : bit \in word}

FromIthUlong(n, i, mask) ==
    Store("assign", n, <<Indices(i, mask)>>,
          [Reset(bitmap[n], i + 1) EXCEPT
              !.infinite = FALSE,
              !.ulongs = [j \in DOMAIN @ |-> IF j = i THEN mask ELSE ZERO]])

SetIthUlong(n, i, mask) ==
    Store("replace", n, <<Indices(i, FULL), Indices(i, mask)>>,
          [Realloc(bitmap[n], i + 1) EXCEPT !.ulongs[i] = mask])

\* The words with a bit set, which all the searches for one look at in order.
NonZero(ulongs) == {i \in DOMAIN ulongs : ulongs[i] # ZERO}

Singlified(b) ==
    LET hit == Min(NonZero(b.ulongs))
    IN  IF NonZero(b.ulongs) # {}
        THEN [b EXCEPT
                 !.infinite = FALSE,
                 !.ulongs = [i \in DOMAIN @ |-> IF i = hit THEN {Min(@[i])} ELSE ZERO]]
        ELSE IF b.infinite
        THEN WithCpu([b EXCEPT !.infinite = FALSE], b.count * BITS_PER_LONG)
        ELSE b

Singlify(n) ==
    /\ Singlified(bitmap[n]).count <= MAX_ULONGS
    /\ Store("singlify", n, <<>>, Singlified(bitmap[n]))

(***************************************************************************)
(* The calls that combine bitmaps.  The result is written where the caller *)
(* says, and that may be an operand: its words are reset, and those of the *)
(* operands are read after that.                                           *)
(***************************************************************************)
Copy(dst, src) ==
    LET count == bitmap[src].count
        reset == [bitmap EXCEPT ![dst] = Reset(@, count)]
    IN  Store("copy", dst, <<src>>,
              [reset[dst] EXCEPT !.ulongs = [i \in DOMAIN @ |-> reset[src].ulongs[i]],
                                 !.infinite = reset[src].infinite])

Not(res, set) ==
    LET count == bitmap[set].count
        reset == [bitmap EXCEPT ![res] = Reset(@, count)]
    IN  Store("not", res, <<set>>,
              [reset[res] EXCEPT !.ulongs = [i \in DOMAIN @ |-> FULL \ reset[set].ulongs[i]],
                                 !.infinite = ~reset[set].infinite])

XorWord(w1, w2) == (w1 \ w2) \cup (w2 \ w1)

\* The operands of a combination: their words after the result was reset, but
\* their counts from before that.
Operands(res, set1, set2) ==
    LET count1 == bitmap[set1].count
        count2 == bitmap[set2].count
        most == IF count1 > count2 THEN count1 ELSE count2
        reset == [bitmap EXCEPT ![res] = Reset(@, most)]
    IN  [words1   |-> reset[set1].ulongs,
         words2   |-> reset[set2].ulongs,
         most     |-> most,
         least    |-> count1 + count2 - most,
         longest1 |-> count1 > count2,
         longest2 |-> count2 > count1]

\* The result: the words that both operands have, and then the rest of the
\* longer one unless it would equal what is beyond it.
Combined(o, both, rest, dropped) ==
    [i \in Words(IF dropped THEN o.least ELSE o.most) |-> IF i < o.least THEN both[i] ELSE rest[i]]

StoreWords(op, res, set1, set2, ulongs, infinite) ==
    Store(op, res, <<set1, set2>>,
          [count |-> Cardinality(DOMAIN ulongs), ulongs |-> ulongs, infinite |-> infinite])

Or(res, set1, set2) ==
    LET o == Operands(res, set1, set2)
        infinite1 == bitmap[set1].infinite
        infinite2 == bitmap[set2].infinite
    IN  StoreWords("or", res, set1, set2,
            Combined(o, [i \in Words(o.least) |-> o.words1[i] \cup o.words2[i]],
                        IF o.longest1 THEN o.words1 ELSE o.words2,
                        (o.longest1 /\ infinite2) \/ (o.longest2 /\ infinite1)),
            infinite1 \/ infinite2)

And(res, set1, set2) ==
    LET o == Operands(res, set1, set2)
        infinite1 == bitmap[set1].infinite
        infinite2 == bitmap[set2].infinite
    IN  StoreWords("and", res, set1, set2,
            Combined(o, [i \in Words(o.least) |-> o.words1[i] \cap o.words2[i]],
                        IF o.longest1 THEN o.words1 ELSE o.words2,
                        (o.longest1 /\ ~infinite2) \/ (o.longest2 /\ ~infinite1)),
            infinite1 /\ infinite2)

Andnot(res, set1, set2) ==
    LET o == Operands(res, set1, set2)
        infinite1 == bitmap[set1].infinite
        infinite2 == bitmap[set2].infinite
    IN  StoreWords("andnot", res, set1, set2,
            Combined(o, [i \in Words(o.least) |-> o.words1[i] \ o.words2[i]],
                        IF o.longest1 THEN o.words1
                        ELSE [i \in DOMAIN o.words2 |-> FULL \ o.words2[i]],
                        (o.longest1 /\ infinite2) \/ (o.longest2 /\ ~infinite1)),
            infinite1 /\ ~infinite2)

Xor(res, set1, set2) ==
    LET o == Operands(res, set1, set2)
        b1 == bitmap[set1]
        b2 == bitmap[set2]
    IN  StoreWords("xor", res, set1, set2,
            Combined(o, [i \in Words(o.least) |-> XorWord(o.words1[i], o.words2[i])],
                        IF o.longest1
                        THEN [i \in DOMAIN o.words1 |-> XorWord(o.words1[i], Beyond(b2))]
                        ELSE [i \in DOMAIN o.words2 |-> XorWord(o.words2[i], Beyond(b1))],
                        FALSE),
            b1.infinite # b2.infinite)

Combine(res, set1, set2) ==
    \/ Or(res, set1, set2) \/ And(res, set1, set2)
    \/ Andnot(res, set1, set2) \/ Xor(res, set1, set2)

Change(n) ==
    \/ Renew(n) \/ Zero(n) \/ Fill(n) \/ Singlify(n)
    \/ \E cpu \in Cpus :
          \/ Only(n, cpu) \/ AllBut(n, cpu) \/ Set(n, cpu) \/ Clr(n, cpu)
          \/ SetFrom(n, cpu) \/ ClrFrom(n, cpu)
          \/ \E endcpu \in Ends(cpu) : SetRange(n, cpu, endcpu) \/ ClrRange(n, cpu, endcpu)
    \/ \E i \in Words(MAX_ULONGS), mask \in SUBSET Bit :
          FromIthUlong(n, i, mask) \/ SetIthUlong(n, i, mask)

Next ==
    \/ Renew(Temporary)
    \/ /\ Idle
       /\ \/ \E n \in Owned : Change(n)
          \/ \E res, set1 \in Owned : Copy(res, set1) \/ Not(res, set1)
          \/ \E res, set1, set2 \in Owned : Combine(res, set1, set2)
          \/ \E set1 \in Owned : \E set2 \in Owned \ {set1} : Combine(Temporary, set1, set2)

Spec == Init /\ [][Next]_vars

(***************************************************************************)
(* The calls that only look                                                *)
(***************************************************************************)
IsSet(b, cpu) == CPU_ULBIT(cpu) \in READULONG(b, INDEX(cpu))

IsZero(b) == ~b.infinite /\ NonZero(b.ulongs) = {}

IsFull(b) == b.infinite /\ \A i \in Words(b.count) : b.ulongs[i] = FULL

LeastCount(b1, b2) == IF b1.count < b2.count THEN b1.count ELSE b2.count

\* The words that only the longer of two bitmaps has.
Surplus(b, other) == LeastCount(b, other) .. b.count - 1

IsEqual(b1, b2) ==
    /\ \A i \in Words(LeastCount(b1, b2)) : b1.ulongs[i] = b2.ulongs[i]
    /\ \A i \in Surplus(b1, b2) : b1.ulongs[i] = Beyond(b2)
    /\ \A i \in Surplus(b2, b1) : b2.ulongs[i] = Beyond(b1)
    /\ b1.infinite = b2.infinite

Intersects(b1, b2) ==
    \/ \E i \in Words(LeastCount(b1, b2)) : b1.ulongs[i] \cap b2.ulongs[i] # ZERO
    \/ b2.infinite /\ \E i \in Surplus(b1, b2) : b1.ulongs[i] # ZERO
    \/ b1.infinite /\ \E i \in Surplus(b2, b1) : b2.ulongs[i] # ZERO
    \/ b1.infinite /\ b2.infinite

\* Mutant: what the longer of the two has to itself is not looked at.
IsIncludedShort(sub, super) ==
    /\ \A i \in Words(LeastCount(sub, super)) :
          super.ulongs[i] = super.ulongs[i] \cup sub.ulongs[i]
    /\ ~(sub.infinite /\ ~super.infinite)

IsIncluded(sub, super) ==
    /\ \A i \in Words(LeastCount(sub, super)) :
          super.ulongs[i] = super.ulongs[i] \cup sub.ulongs[i]
    /\ ~super.infinite => \A i \in Surplus(sub, super) : sub.ulongs[i] = ZERO
    /\ sub.infinite => \A i \in Surplus(super, sub) : super.ulongs[i] = FULL
    /\ ~(sub.infinite /\ ~super.infinite)

FirstIn(ulongs, infinite, count) ==
    LET hit == Min(NonZero(ulongs))
    IN  IF NonZero(ulongs) # {} THEN hit * BITS_PER_LONG + Min(ulongs[hit])
        ELSE IF infinite THEN count * BITS_PER_LONG ELSE -1

LastIn(ulongs, infinite) ==
    LET hit == Max(NonZero(ulongs))
    IN  IF infinite \/ NonZero(ulongs) = {} THEN -1
        ELSE hit * BITS_PER_LONG + Max(ulongs[hit])

\* The search begins in the word of the next index, and only there does it
\* leave out the bits up to the previous one.
NextIn(ulongs, infinite, count, prev) ==
    LET begin == INDEX(prev + 1)
        word == [i \in begin .. count - 1 |->
                    IF prev >= 0 /\ INDEX(prev) = i
                    THEN ulongs[i] \ ULBIT_TO(CPU_ULBIT(prev)) ELSE ulongs[i]]
    IN  IF begin >= count THEN (IF infinite THEN prev + 1 ELSE -1)
        ELSE FirstIn(word, infinite, count)

Negated(b) == [i \in Words(b.count) |-> FULL \ b.ulongs[i]]

First(b) == FirstIn(b.ulongs, b.infinite, b.count)
FirstUnset(b) == FirstIn(Negated(b), ~b.infinite, b.count)
Last(b) == LastIn(b.ulongs, b.infinite)
LastUnset(b) == LastIn(Negated(b), ~b.infinite)
NextSet(b, prev) == NextIn(b.ulongs, b.infinite, b.count, prev)
NextUnset(b, prev) == NextIn(Negated(b), ~b.infinite, b.count, prev)

Weight(b) ==
    IF b.infinite THEN -1
    ELSE FoldFunction(+, 0, [i \in Words(b.count) |-> Cardinality(b.ulongs[i])])

NrUlongs(b) ==
    IF b.infinite THEN -1 ELSE (Last(b) + BITS_PER_LONG) \div BITS_PER_LONG

Sign(n) == IF n < 0 THEN -1 ELSE IF n > 0 THEN 1 ELSE 0

Infinity(b) == IF b.infinite THEN 1 ELSE 0

\* ffsl(): bits are numbered from 1, and there is none in a zero word.
Ffsl(word) == IF word = ZERO THEN 0 ELSE Min(word) + 1

\* Mutant: a word without bits comes before all others.
FirstOfPlain(ffs1, ffs2) == Sign(ffs1 - ffs2)

\* The word with the lower first bit comes first, and one without bits last.
FirstOf(ffs1, ffs2) == Sign(IF ffs1 # 0 /\ ffs2 # 0 THEN ffs1 - ffs2 ELSE ffs2 - ffs1)

\* hwloc_bitmap_compare_first: the first word that either bitmap has a bit in,
\* among those that both have, then the surplus of the longer one.
CompareFirst(b1, b2) ==
    LET both == {i \in Words(LeastCount(b1, b2)) : b1.ulongs[i] # ZERO \/ b2.ulongs[i] # ZERO}
        surplus1 == Surplus(b1, b2)
        surplus2 == Surplus(b2, b1)
    IN  CASE both # {} ->
                FirstOf(Ffsl(b1.ulongs[Min(both)]), Ffsl(b2.ulongs[Min(both)]))
          [] both = {} /\ surplus2 # {} /\ b1.infinite ->
                IF 0 \in b2.ulongs[Min(surplus2)] THEN 0 ELSE -1
          [] both = {} /\ ~b1.infinite /\ (\E i \in surplus2 : b2.ulongs[i] # ZERO) -> 1
          [] both = {} /\ surplus1 # {} /\ b2.infinite ->
                IF 0 \in b1.ulongs[Min(surplus1)] THEN 0 ELSE 1
          [] both = {} /\ ~b2.infinite /\ (\E i \in surplus1 : b1.ulongs[i] # ZERO) -> -1
          [] OTHER -> Infinity(b1) - Infinity(b2)

\* hwloc_bitmap_compare: from the last word down, as numbers.
Compare(b1, b2) ==
    LET most == IF b1.count > b2.count THEN b1.count ELSE b2.count
        differ == {i \in Words(most) : READULONG(b1, i) # READULONG(b2, i)}
    IN  CASE b1.infinite # b2.infinite -> Infinity(b1) - Infinity(b2)
          [] b1.infinite = b2.infinite /\ differ = {} -> 0
          [] b1.infinite = b2.infinite /\ differ # {} ->
                IF Below(READULONG(b1, Max(differ)), READULONG(b2, Max(differ))) THEN -1 ELSE 1

(***************************************************************************)
(* hwloc_bitmap_compare_inclusion: one pass over the words, with what is   *)
(* known so far and whether either bitmap had a bit yet.                   *)
(***************************************************************************)
NothingYet == [result |-> "EQUAL", empty1 |-> TRUE, empty2 |-> TRUE]

\* What is known after a word pair, or a tail, of which only the second, or only
\* the first, has bits.
OnlySecond(known) ==
    CASE known.result = "CONTAINS" -> IF known.empty2 THEN "DIFFERENT" ELSE "INTERSECTS"
      [] known.result = "EQUAL" -> "INCLUDED"
      [] OTHER -> known.result

OnlyFirst(known) ==
    CASE known.result = "INCLUDED" -> IF known.empty1 THEN "DIFFERENT" ELSE "INTERSECTS"
      [] known.result = "EQUAL" -> "CONTAINS"
      [] OTHER -> known.result

\* ... of which both have bits.
BothHave(known, val1, val2) ==
    CASE val1 = val2 ->
            IF known.result = "DIFFERENT" THEN "INTERSECTS" ELSE known.result
      [] val1 # val2 /\ val1 \cap val2 = val1 ->
            IF known.result \in {"CONTAINS", "DIFFERENT"} THEN "INTERSECTS" ELSE "INCLUDED"
      [] val1 # val2 /\ val1 \cap val2 = val2 ->
            IF known.result \in {"INCLUDED", "DIFFERENT"} THEN "INTERSECTS" ELSE "CONTAINS"
      [] val1 \cap val2 \notin {val1, val2, ZERO} -> "INTERSECTS"
      [] val1 \cap val2 = ZERO ->
            IF \/ known.result \in {"EQUAL", "INCLUDED"} /\ ~known.empty1
               \/ known.result = "CONTAINS" /\ ~known.empty2
            THEN "INTERSECTS" ELSE "DIFFERENT"

Learn(known, val1, val2) ==
    IF known.result = "INTERSECTS" THEN known
    ELSE [result |-> CASE val1 = ZERO /\ val2 = ZERO -> known.result
                       [] val1 = ZERO /\ val2 # ZERO -> OnlySecond(known)
                       [] val1 # ZERO /\ val2 = ZERO -> OnlyFirst(known)
                       [] val1 # ZERO /\ val2 # ZERO -> BothHave(known, val1, val2),
          empty1 |-> known.empty1 /\ val1 = ZERO,
          empty2 |-> known.empty2 /\ val2 = ZERO]

\* Mutant: a bitmap of which only the tail has bits is not told apart.
TailsIgnored(known, b1, b2) == known.result

Tails(known, b1, b2) ==
    CASE known.result = "INTERSECTS" -> "INTERSECTS"
      [] known.result # "INTERSECTS" /\ ~b1.infinite /\ ~b2.infinite -> known.result
      [] known.result # "INTERSECTS" /\ ~b1.infinite /\ b2.infinite -> OnlySecond(known)
      [] known.result # "INTERSECTS" /\ b1.infinite /\ ~b2.infinite -> OnlyFirst(known)
      [] known.result # "INTERSECTS" /\ b1.infinite /\ b2.infinite ->
            IF known.result = "DIFFERENT" THEN "INTERSECTS" ELSE known.result

CompareInclusion(b1, b2) ==
    LET most == IF b1.count > b2.count THEN b1.count ELSE b2.count
        known[i \in 0 .. most] ==
            IF i = 0 THEN NothingYet
            ELSE Learn(known[i - 1], READULONG(b1, i - 1), READULONG(b2, i - 1))
    IN  Tails(known[most], b1, b2)

(***************************************************************************)
(* Properties                                                              *)
(***************************************************************************)
\* The indices that a call can name, and one that stands for all beyond.
Horizon == 0 .. MAX_ULONGS * BITS_PER_LONG

Members(b) ==
    (UNION {Indices(i, b.ulongs[i]) : i \in DOMAIN b.ulongs})
        \cup (IF b.infinite THEN b.count * BITS_PER_LONG .. MAX_ULONGS * BITS_PER_LONG ELSE {})

Last0(set) == IF set = {} THEN -1 ELSE Max(set)
First0(set) == IF set = {} THEN -1 ELSE Min(set)

\* Every bitmap has at least one word, as many as its count says, and each of
\* them was written: no call leaves a word of a grown result as the allocator,
\* or an earlier and longer value, had left it.
TypeOK ==
    \A n \in Name :
        /\ bitmap[n].count \in 1 .. MAX_ULONGS
        /\ bitmap[n].ulongs \in [Words(bitmap[n].count) -> SUBSET Bit]
        /\ bitmap[n].infinite \in BOOLEAN

\* A bitmap is the set that CpuSet promises after every sequence of calls:
\* whatever the counts and the tails of the operands, and when the result is
\* written over one or both of them.
Sets ==
    INSTANCE CpuSet WITH
        Cpu   <- Horizon,
        value <- [n \in Name |-> Members(bitmap[n])],
        call  <- call

Implements == Sets!Spec

\* In the properties of the questions, Idle leaves out the states in which the
\* Owned bitmaps are those of another state that has no temporary.

\* Every question about bitmaps is answered for the sets that they stand for:
\* equal, intersecting and included sets are recognised whatever the numbers of
\* words, and the searches find the next member, also in the infinite tail.
AnswersExact ==
    Idle => \A m \in Owned :
        LET b == bitmap[m]
            s == Members(b)
            rest == Horizon \ s
        IN  /\ \A n \in Owned :
                  LET t == Members(bitmap[n])
                  IN  /\ IsEqual(b, bitmap[n]) <=> s = t
                      /\ Intersects(b, bitmap[n]) <=> s \cap t # {}
                      /\ IsIncluded(b, bitmap[n]) <=> s \subseteq t
            /\ \A cpu \in Horizon : IsSet(b, cpu) <=> cpu \in s
            /\ IsZero(b) <=> s = {}
            /\ IsFull(b) <=> rest = {}
            /\ First(b) = First0(s) /\ FirstUnset(b) = First0(rest)
            /\ Last(b) = (IF b.infinite THEN -1 ELSE Last0(s))
            /\ LastUnset(b) = (IF b.infinite THEN Last0(rest) ELSE -1)
            /\ Weight(b) = (IF b.infinite THEN -1 ELSE Cardinality(s))
            /\ ~b.infinite => s \subseteq 0 .. NrUlongs(b) * BITS_PER_LONG - 1
            /\ \A prev \in Cpus \cup {-1} :
                  /\ NextSet(b, prev) = First0({cpu \in s : cpu > prev})
                  /\ NextUnset(b, prev) = First0({cpu \in rest : cpu > prev})

\* One set is empty and the other one has all its members beyond its words, which
\* are not fewer: hwloc_bitmap_compare_first then takes the empty one for the
\* smaller one, against "the empty bitmap is considered higher than anything".
ComparesTails(b1, b2) ==
    \/ IsZero(b1) /\ b2.infinite /\ NonZero(b2.ulongs) = {} /\ b2.count >= b1.count
    \/ IsZero(b2) /\ b1.infinite /\ NonZero(b1.ulongs) = {} /\ b1.count >= b2.count

\* hwloc_bitmap_compare is the order of the largest index that only one of two
\* sets has, and hwloc_bitmap_compare_first that of their smallest indices with
\* the empty set last (but for ComparesTails): neither depends on how many words
\* the bitmaps have.
OrdersBySets ==
    Idle => \A m, n \in Owned :
        LET b1 == bitmap[m]
            b2 == bitmap[n]
            s == Members(b1)
            t == Members(b2)
            differ == (s \ t) \cup (t \ s)
            first == CASE s = {} /\ t = {} -> 0
                       [] s = {} /\ t # {} -> 1
                       [] s # {} /\ t = {} -> -1
                       [] s # {} /\ t # {} -> Sign(Min(s) - Min(t))
        IN  /\ Compare(b1, b2) = (IF differ = {} THEN 0 ELSE IF Max(differ) \in t THEN -1 ELSE 1)
            /\ CompareFirst(b1, b2) = (IF ComparesTails(b1, b2) THEN -first ELSE first)

\* hwloc_bitmap_compare_inclusion, which decides where an object belongs in the
\* tree, tells the five relations of two sets apart in one pass.
InclusionExact ==
    Idle => \A m, n \in Owned :
        LET s == Members(bitmap[m])
            t == Members(bitmap[n])
        IN  CompareInclusion(bitmap[m], bitmap[n]) =
                CASE s = t -> "EQUAL"
                  [] s # t /\ s \subseteq t -> "INCLUDED"
                  [] s # t /\ t \subseteq s -> "CONTAINS"
                  [] ~(s \subseteq t) /\ ~(t \subseteq s) /\ s \cap t # {} -> "INTERSECTS"
                  [] ~(s \subseteq t) /\ ~(t \subseteq s) /\ s \cap t = {} -> "DIFFERENT"
===============================================================================
