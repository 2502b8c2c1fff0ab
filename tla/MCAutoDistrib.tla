------------------------------ MODULE MCAutoDistrib ------------------------------
(***************************************************************************)
(* Instances of AutoDistrib for TLC: a node of three processing units, two *)
(* packages, and no NUMA node; affinities that leave some ranks alone on a *)
(* resource and make others share.                                         *)
(***************************************************************************)
EXTENDS AutoDistrib

MCPU == 0 .. 2

MCLevels ==
    [MACHINE  |-> <<{0, 1, 2}>>,
     NUMANODE |-> <<>>,
     PACKAGE  |-> <<{0}, {1, 2}>>,
     CORE     |-> <<{0}, {1, 2}>>,
     PU       |-> <<{0}, {1}, {2}>>]

MCAffinities == {{0}, {1, 2}, {0, 1, 2}}
MCTwoAffinities == {{0}, {1, 2}}

MCOverPU == <<[type |-> "PU", max |-> 1]>>
MCTwoCalls == <<[type |-> "SOCKET", max |-> 1], [type |-> "PU", max |-> 1]>>
MCEarlyReturns == <<[type |-> "NUMANODE", max |-> 1], [type |-> "PU", max |-> 2],
                    [type |-> "bogus", max |-> 1], [type |-> "SOCKET", max |-> 1]>>

MCNever == {}
MCOpenFails == {"open"}
MCAnyFails == FailureKinds
===============================================================================
