--------------------------- MODULE MCKSetIntersection ---------------------------
(***************************************************************************)
(* Instances of KSetIntersection for TLC: two lists over 0 .. 4, three     *)
(* over 0 .. 2, and lists that must be refused.                            *)
(***************************************************************************)
EXTENDS KSetIntersection, FiniteSets

SortedLists(max) == {SetToSortSeq(set, <) : set \in SUBSET (0 .. max)}

Insane == {<<1, 0>>, <<2, 2>>, <<-1>>}

MCInputs ==
    {<<>>}
        \cup {<<p, q>> : p, q \in SortedLists(4)}
        \cup {<<p, q, r>> : p, q, r \in SortedLists(2)}
        \cup {<<p, q>> : p \in SortedLists(1), q \in Insane}
        \cup {<<p>> : p \in Insane}
===============================================================================
