--------------------------------- MODULE CpuSet ---------------------------------
(***************************************************************************)
(* What hwloc/bitmap.h promises of its bitmaps, with no words in sight: a  *)
(* bitmap is a set of indices, and every call sets one of them to the      *)
(* result of the set operation it is named for, also when the bitmap for   *)
(* the result is an operand.                                               *)
(*                                                                         *)
(* A set may hold all indices from some one on.  The last element of Cpu   *)
(* stands for all the indices that no call names.                          *)
(***************************************************************************)
EXTENDS Integers, FiniteSets, FiniteSetsExt

CONSTANTS
    Name,   \* the bitmaps
    Cpu     \* the indices, and the one that stands for all others

VARIABLES
    value,  \* bitmap -> the set that it is
    call    \* the latest call: its name, the bitmap it sets, its other arguments

vars == <<value, call>>

Init ==
    /\ value = [n \in Name |-> {}]
    /\ call = [op |-> "none"]

\* What the bitmap named first is set to.
Meaning(op, res, args) ==
    CASE op \in {"zero", "renew"} -> {}
      [] op = "fill"      -> Cpu
      [] op = "only"      -> {args[1]}
      [] op = "allbut"    -> Cpu \ {args[1]}
      [] op = "set"       -> value[res] \cup {args[1]}
      [] op = "clr"       -> value[res] \ {args[1]}
      [] op = "set_range" -> value[res] \cup args[1] .. args[2]
      [] op = "clr_range" -> value[res] \ args[1] .. args[2]
      [] op = "set_from"  -> value[res] \cup {cpu \in Cpu : cpu >= args[1]}
      [] op = "clr_from"  -> {cpu \in value[res] : cpu < args[1]}
      [] op = "assign"    -> args[1]
      [] op = "replace"   -> (value[res] \ args[1]) \cup args[2]
      [] op = "singlify"  -> IF value[res] = {} THEN {} ELSE {Min(value[res])}
      [] op = "copy"      -> value[args[1]]
      [] op = "not"       -> Cpu \ value[args[1]]
      [] op = "or"        -> value[args[1]] \cup value[args[2]]
      [] op = "and"       -> value[args[1]] \cap value[args[2]]
      [] op = "andnot"    -> value[args[1]] \ value[args[2]]
      [] op = "xor"       -> (value[args[1]] \ value[args[2]]) \cup (value[args[2]] \ value[args[1]])

Next ==
    \E n \in Name :
        /\ call'.res = n
        /\ value' = [value EXCEPT ![n] = Meaning(call'.op, n, call'.args)]

Spec == Init /\ [][Next]_vars
===============================================================================
