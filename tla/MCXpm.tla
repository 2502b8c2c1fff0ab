--------------------------------- MODULE MCXpm ---------------------------------
(***************************************************************************)
(* An instance of Xpm for TLC: three ranks, a size_t of four bits.  The    *)
(* sizes of the first allocation can add up to zero, to what fits, to what *)
(* is negative as an off_t and to what wraps around.                       *)
(***************************************************************************)
EXTENDS Xpm

MCSizes == <<{0, 1, 6}, {2}>>
MCAnyFails == FailureKinds
===============================================================================
