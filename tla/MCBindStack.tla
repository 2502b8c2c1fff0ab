------------------------------ MODULE MCBindStack ------------------------------
(***************************************************************************)
(* Instances of BindStack for TLC: a node of two packages, each with one   *)
(* core of two hardware threads whose OS numbers are adjacent, one NUMA    *)
(* node with all the processing units and one that has only memory.        *)
(***************************************************************************)
EXTENDS BindStack

MCPU == 0 .. 3

MCLevels ==
    [MACHINE  |-> <<{0, 1, 2, 3}>>,
     NUMANODE |-> <<{0, 1, 2, 3}, {}>>,
     PACKAGE  |-> <<{0, 1}, {2, 3}>>,
     CORE     |-> <<{0, 1}, {2, 3}>>,
     PU       |-> <<{0}, {1}, {2}, {3}>>]

MCInitBindings == {{0, 1, 2, 3}, {2, 3}, {3}}
MCUnbound == {{0, 1, 2, 3}}

Provided(t, i) == [policy |-> "PROVIDED", type |-> t, idx |-> i]
Closest(t) == [policy |-> "OBJ", type |-> t, idx |-> 0]

\* Every way a request can be answered, and targets of three widths.
MCRequests ==
    {Provided("SOCKET", 0), Provided("SOCKET", 1), Provided("PU", 3), Provided("CORE", 9),
     Provided("NUMANODE", 1), Closest("MACHINE"), Closest("PACKAGE"), Closest("PU"),
     [policy |-> "none", type |-> "PU", idx |-> 0], Closest("bogus")}

\* Enough for two contexts to leave each other's record stale: a fixed target
\* and one that depends on the binding in force.
MCFewRequests == {Provided("SOCKET", 0), Closest("CORE")}

MCPlain == {FALSE}
MCNoMT == {TRUE}
MCAlwaysSets == {TRUE}
===============================================================================
