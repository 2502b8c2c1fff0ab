---------------------------- MODULE KSetIntersection ----------------------------
(***************************************************************************)
(* quo_set_get_k_set_intersection() of quo-set.c: the elements that are in *)
(* at least two of k sorted lists.  Every ordered pair of lists is merged; *)
(* a merge that finds two different heads skips both of them, so a single  *)
(* merge can miss a common element.                                        *)
(*                                                                         *)
(* Abstractions: memory allocation succeeds.  Indices are from 1; one      *)
(* action is one iteration of the merge's outer loop.                      *)
(***************************************************************************)
EXTENDS Integers, Sequences, SequencesExt

CONSTANT Inputs    \* the argument lists: a set of sequences of sequences of integers

ASSUME InputsAssumption == Inputs \subseteq Seq(Seq(Int))

VARIABLES
    sets,      \* the argument; never changes
    pc,        \* "check", "merge" or "done"
    seta, setb,    \* the pair of lists being merged ...
    i, j,          \* ... and the position in each
    htab,      \* the elements found in two lists so far
    rc         \* the result code, once done

vars == <<sets, pc, seta, setb, i, j, htab, rc>>

Elements == UNION {Range(sets[k]) : k \in DOMAIN sets}

TypeOK ==
    /\ sets \in Inputs
    /\ pc \in {"check", "merge", "done"}
    /\ pc = "merge" => seta \in DOMAIN sets /\ setb \in DOMAIN sets
    /\ i \in Nat \ {0} /\ j \in Nat \ {0}
    /\ htab \subseteq Elements
    /\ rc \in {"SUCCESS", "INVLD_ARG"}

Init ==
    /\ sets \in Inputs
    /\ pc = "check"
    /\ seta = 1 /\ setb = 1
    /\ i = 1 /\ j = 1
    /\ htab = {}
    /\ rc = "SUCCESS"

\* Strictly increasing and non-negative.
SaneList(s) ==
    \A k \in DOMAIN s : s[k] >= 0 /\ (k > 1 => s[k - 1] < s[k])

Sane == \A k \in DOMAIN sets : SaneList(sets[k])

\* Return with an empty result: an insane argument, or no lists at all.
Refuse ==
    /\ pc = "check"
    /\ ~Sane \/ sets = <<>>
    /\ pc' = "done"
    /\ rc' = IF Sane THEN "SUCCESS" ELSE "INVLD_ARG"
    /\ UNCHANGED <<sets, seta, setb, i, j, htab>>

Accept ==
    /\ pc = "check"
    /\ Sane /\ sets # <<>>
    /\ pc' = "merge"
    /\ UNCHANGED <<sets, seta, setb, i, j, htab, rc>>

\* Mutant: the bound itself is skipped too.
SkipUpTo(list, k, bound) ==
    CHOOSE m \in k .. Len(list) + 1 :
        /\ \A n \in k .. m - 1 : list[n] <= bound
        /\ m <= Len(list) => list[m] > bound

\* while (k < len && list[k] < bound) ++k;
SkipBelow(list, k, bound) ==
    CHOOSE m \in k .. Len(list) + 1 :
        /\ \A n \in k .. m - 1 : list[n] < bound
        /\ m <= Len(list) => list[m] >= bound

PairOver == seta = setb \/ i > Len(sets[seta]) \/ j > Len(sets[setb])

\* Mutant: the next iteration is left to move the positions.
StayAt(m, n) ==
    /\ i' = m
    /\ j' = n

\* Both heads are passed, whether they are equal or not.
StepPast(m, n) ==
    /\ i' = m + 1
    /\ j' = n + 1

\* The outer loop body, to its end or to one of its two breaks.
Merge ==
    /\ pc = "merge"
    /\ ~PairOver
    /\ LET m == SkipBelow(sets[seta], i, sets[setb][j])
       IN  IF m > Len(sets[seta])
           THEN i' = m /\ UNCHANGED <<j, htab>>
           ELSE LET n == SkipBelow(sets[setb], j, sets[seta][m])
                IN  IF n > Len(sets[setb])
                    THEN i' = m /\ j' = n /\ UNCHANGED htab
                    ELSE /\ StepPast(m, n)
                         /\ htab' = IF sets[seta][m] = sets[setb][n]
                                    THEN htab \cup {sets[seta][m]} ELSE htab
    /\ UNCHANGED <<sets, pc, seta, setb, rc>>

\* Mutant: each unordered pair of lists is merged once.
FirstPartnerAfter(k) == k

\* The first list that the list k is merged with.
FirstPartner(k) == 1

\* Mutant: one list too many.
LastListPassed(k) == k <= Len(sets)

MoreLists(k) == k < Len(sets)

NextPair ==
    /\ pc = "merge"
    /\ PairOver
    /\ i' = 1 /\ j' = 1
    /\ IF MoreLists(setb)
       THEN setb' = setb + 1 /\ UNCHANGED <<seta, pc>>
       ELSE /\ seta' = seta + 1
            /\ setb' = FirstPartner(seta')
            /\ pc' = IF MoreLists(seta) THEN "merge" ELSE "done"
    /\ UNCHANGED <<sets, htab, rc>>

\* A returned call stays returned.
Returned == pc = "done" /\ UNCHANGED vars

Next == Refuse \/ Accept \/ Merge \/ NextPair \/ Returned

Spec == Init /\ [][Next]_vars /\ WF_vars(Next)

(***************************************************************************)
(* Properties                                                              *)
(***************************************************************************)
\* The elements of two lists or more.
Shared(lists) ==
    {x \in UNION {Range(lists[k]) : k \in DOMAIN lists} :
        \E k, l \in DOMAIN lists : k # l /\ x \in Range(lists[k]) \cap Range(lists[l])}

\* What the function returns is what its caller takes it for, the ranks that
\* share a resource with another list: nothing is missed although each merge
\* skips elements, and nothing is added.
FindsAllShared ==
    pc = "done" => /\ rc = "SUCCESS" <=> Sane
                   /\ Sane => htab = Shared(sets)

\* The merges of a pair in its two orders together miss nothing: what
\* FindsAllShared needs of every pair already behind the loops.
MergedBothWays(k, l) ==
    \/ pc = "done"
    \/ /\ \/ k < seta
          \/ k = seta /\ l < setb
       /\ \/ l < seta
          \/ l = seta /\ k < setb

PairsComplete ==
    (pc # "check" /\ Sane) =>
        \A k, l \in DOMAIN sets :
            (k # l /\ MergedBothWays(k, l)) => Range(sets[k]) \cap Range(sets[l]) \subseteq htab

\* The loops end: the positions only move forward.
Terminates == <>(pc = "done")
===============================================================================
