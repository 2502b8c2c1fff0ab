------------------------------ MODULE MCBindGuard ------------------------------
(***************************************************************************)
(* Two contexts on one affinity mask, each used through guards or through  *)
(* the C interface, on the node of MCBindStack.                            *)
(***************************************************************************)
EXTENDS BindGuard

MCPU == 0 .. 3

MCLevels ==
    [MACHINE  |-> <<{0, 1, 2, 3}>>,
     NUMANODE |-> <<{0, 1, 2, 3}, {}>>,
     PACKAGE  |-> <<{0, 1}, {2, 3}>>,
     CORE     |-> <<{0, 1}, {2, 3}>>,
     PU       |-> <<{0}, {1}, {2}, {3}>>]

MCTwoBindings == {{0, 1, 2, 3}, {1, 3}}
MCSymmetry == Permutations(Ctx)

\* Enough for two contexts to leave each other's record stale: a fixed target
\* and one that depends on the binding in force.
MCFewRequests ==
    {[policy |-> "PROVIDED", type |-> "SOCKET", idx |-> 0],
     [policy |-> "OBJ", type |-> "CORE", idx |-> 0]}

MCEitherFlag == BOOLEAN
MCMayRefuse == BOOLEAN
===============================================================================
