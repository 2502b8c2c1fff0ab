------------------------------- MODULE BindScope -------------------------------
(***************************************************************************)
(* What one QUO context promises about the affinity of its process, with   *)
(* no bind stack in sight: a scope remembers the bindings that were in     *)
(* force before each push, and leaving the scope brings the latest of them *)
(* back.  The two exceptions are part of the promise:                      *)
(*                                                                         *)
(*   - entering at the nesting limit changes the binding and remembers     *)
(*     nothing (the caller gets QUO_ERR_OOR);                              *)
(*   - leaving a scope that was never entered changes nothing but loses    *)
(*     the anchor (QUO_ERR_POP): the next entry becomes the new outermost  *)
(*     binding and cannot be left.                                         *)
(***************************************************************************)
EXTENDS Integers, Sequences, SequencesExt

CONSTANTS Bindings,   \* the affinities a process can have
          Limit       \* how many bindings a context can hold, the current one included

VARIABLES cur,        \* the binding in force
          saved,      \* the bindings to return to, the latest last
          anchored    \* whether the context holds its outermost binding

vars == <<cur, saved, anchored>>

TypeOK == /\ cur \in Bindings
          /\ saved \in Seq(Bindings)
          /\ anchored \in BOOLEAN

Init == /\ cur \in Bindings
        /\ saved = <<>>
        /\ anchored = FALSE

\* A new context anchors itself at the binding it finds.
Open == /\ ~anchored /\ saved = <<>>
        /\ anchored' = TRUE
        /\ UNCHANGED <<cur, saved>>

\* Freeing a context forgets what it holds and leaves the binding alone.
Close == /\ saved' = <<>>
         /\ anchored' = FALSE
         /\ UNCHANGED cur

Enter(b) == /\ anchored
            /\ Len(saved) + 1 < Limit
            /\ cur' = b
            /\ saved' = Append(saved, cur)
            /\ UNCHANGED anchored

Reanchor(b) == /\ ~anchored
               /\ cur' = b
               /\ anchored' = TRUE
               /\ UNCHANGED saved

Overrun(b) == /\ Len(saved) + 1 = Limit
              /\ cur' = b
              /\ UNCHANGED <<saved, anchored>>

Leave == /\ saved # <<>>
         /\ cur' = Last(saved)
         /\ saved' = Front(saved)
         /\ UNCHANGED anchored

LoseAnchor == /\ saved = <<>>
              /\ anchored' = FALSE
              /\ UNCHANGED <<cur, saved>>

Next == \/ Open \/ Close \/ Leave \/ LoseAnchor
        \/ \E b \in Bindings : Enter(b) \/ Reanchor(b) \/ Overrun(b)

Spec == Init /\ [][Next]_vars
===============================================================================
