-------------------------------- MODULE Publish --------------------------------
(***************************************************************************)
(* What handing shared-memory segments to processes should amount to, with *)
(* no barrier, broadcast or file in sight: each segment is made and        *)
(* completed, then every reader it is meant for maps it complete, and it   *)
(* is withdrawn only when they all have.  A participant may fail, and then *)
(* the rest of the steps need not happen; none may happen out of order.    *)
(***************************************************************************)
CONSTANTS Segments,   \* the segments that are ever published
          Processes

VARIABLES readers,    \* segment -> the processes that it is for
          stage,      \* segment -> how far the process that makes it has come
          mapped      \* segment -> the readers that have it

vars == <<readers, stage, mapped>>

Stages == {"none", "made", "complete", "withdrawn"}

Init ==
    /\ readers \in [Segments -> SUBSET Processes]
    /\ stage = [s \in Segments |-> "none"]
    /\ mapped = [s \in Segments |-> {}]

Move(s, from, to) ==
    /\ stage[s] \in from
    /\ stage' = [stage EXCEPT ![s] = to]
    /\ UNCHANGED <<readers, mapped>>

Make(s) == Move(s, {"none"}, "made")

Complete(s) == Move(s, {"none", "made"}, "complete")

Map(s, r) ==
    /\ stage[s] = "complete"
    /\ mapped' = [mapped EXCEPT ![s] = @ \cup {r}]
    /\ UNCHANGED <<readers, stage>>

Withdraw(s) == mapped[s] = readers[s] /\ Move(s, {"complete"}, "withdrawn")

Next ==
    \E s \in Segments :
        Make(s) \/ Complete(s) \/ Withdraw(s) \/ \E r \in readers[s] : Map(s, r)

Spec == Init /\ [][Next]_vars
===============================================================================
