----------------------------- MODULE MCCreateContext -----------------------------
(***************************************************************************)
(* Instances of CreateContext for TLC: three ranks on one host, on two and *)
(* on three; cores of two hardware threads.                                *)
(***************************************************************************)
EXTENDS CreateContext

MCPU == 0 .. 3

MCLevels ==
    [MACHINE  |-> <<{0, 1, 2, 3}>>,
     NUMANODE |-> <<{0, 1, 2, 3}, {}>>,
     PACKAGE  |-> <<{0, 1, 2, 3}>>,
     CORE     |-> <<{0, 2}, {1, 3}>>,
     PU       |-> <<{0}, {2}, {1}, {3}>>]

MCNetNums ==
    {[r \in Rank |-> 1], [r \in Rank |-> r % 2], [r \in Rank |-> r]}

MCFlags == BOOLEAN
MCFailing == FailureKinds
===============================================================================
