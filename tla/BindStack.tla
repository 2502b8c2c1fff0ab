------------------------------- MODULE BindStack -------------------------------
(***************************************************************************)
(* The bind stacks of one process (quo-hwloc.c).  Every QUO context of the *)
(* process has a stack of its own, but all of them change the one affinity *)
(* mask that the operating system keeps for the process.                   *)
(*                                                                         *)
(* Abstractions: memory allocation succeeds; reading the affinity          *)
(* succeeds; the process is single-threaded inside libquo (the library has *)
(* no locks) and nothing but libquo changes its affinity.                  *)
(***************************************************************************)
EXTENDS Topology

CONSTANTS
    Ctx,            \* the contexts the process can create
    BIND_STACK_SIZE,
    CreateFlags,    \* the values of QUO_CREATE_NO_MT the application passes
    InitBindings,   \* the affinities the process may be launched with
    Requests,       \* the [policy, type, idx] arguments of QUO_bind_push
    SetOutcomes     \* {TRUE}: the OS never refuses a bindable set; BOOLEAN: it may

ASSUME BindStackAssumption ==
    /\ BIND_STACK_SIZE \in Nat \ {0}
    /\ CreateFlags \subseteq BOOLEAN
    /\ InitBindings \subseteq (SUBSET PU) \ {{}}
    /\ SetOutcomes \subseteq BOOLEAN

VARIABLES
    os,     \* the affinity mask of the process
    ctx,    \* context -> its state
    rc,     \* what the last call returned
    undo    \* history: context -> for each entry that a push put on the stack,
            \* the mask before that push and whether the top recorded it then

vars == <<os, ctx, rc, undo>>

Bindings == (SUBSET PU) \ {{}}

ReturnCode == {"SUCCESS", "INVLD_ARG", "NOT_FOUND", "NOT_SUPPORTED", "OOR", "POP"}

Undo == [before : Bindings, recorded : BOOLEAN]

TypeOK ==
    /\ os \in Bindings
    /\ ctx \in [Ctx -> [live : BOOLEAN, noMT : BOOLEAN, bstack : Seq(SUBSET PU)]]
    /\ \A c \in Ctx : Len(ctx[c].bstack) <= BIND_STACK_SIZE
    /\ rc \in ReturnCode
    /\ undo \in [Ctx -> Seq(Undo)]

NoContext == [live |-> FALSE, noMT |-> FALSE, bstack |-> <<>>]

Init ==
    /\ os \in InitBindings
    /\ ctx = [c \in Ctx |-> NoContext]
    /\ rc = "SUCCESS"
    /\ undo = [c \in Ctx |-> <<>>]

Topo(c) == TopoOf(ctx[c].noMT)

\* Mutant: one place is kept in reserve.
FullTooEarly(c) == Len(ctx[c].bstack) >= BIND_STACK_SIZE - 1

Full(c) == Len(ctx[c].bstack) >= BIND_STACK_SIZE

SetStack(c, s) == ctx' = [ctx EXCEPT ![c].bstack = s]

(***************************************************************************)
(* QUO_create_with_flags, seen from the bind stack: init_cached_attrs()    *)
(* pushes the binding the new context finds.                               *)
(***************************************************************************)
Create(c, noMT) ==
    /\ ~ctx[c].live
    /\ ctx' = [ctx EXCEPT ![c] =
                  [live |-> TRUE, noMT |-> noMT,
                   bstack |-> <<VisibleBinding(TopoOf(noMT), os)>>]]
    /\ undo' = [undo EXCEPT ![c] = <<>>]
    /\ rc' = "SUCCESS"
    /\ UNCHANGED os

\* QUO_free: the stack goes with the context and the affinity stays.
Free(c) ==
    /\ ctx[c].live
    /\ ctx' = [ctx EXCEPT ![c] = NoContext]
    /\ undo' = [undo EXCEPT ![c] = <<>>]
    /\ rc' = "SUCCESS"
    /\ UNCHANGED os

(***************************************************************************)
(* rebind(): the cpuset a request asks for, or why it is refused.  The     *)
(* policy PROVIDED names an object; OBJ takes the first object of the type *)
(* that touches the current binding and ignores the index.                 *)
(***************************************************************************)
RebindError(c, r) ==
    LET topo == Topo(c)
        seen == VisibleBinding(topo, os)
    IN  CASE r.policy \notin {"PROVIDED", "OBJ"} -> "INVLD_ARG"
          [] r.policy = "PROVIDED" /\ ~HasObject(topo, r.type, r.idx) -> "INVLD_ARG"
          [] r.policy = "OBJ" /\ ~KnownType(r.type) -> "INVLD_ARG"
          [] r.policy = "OBJ" /\ KnownType(r.type) /\ Touching(topo, r.type, seen) = {}
                -> "NOT_FOUND"
          [] OTHER -> "SUCCESS"

Target(c, r) ==
    IF r.policy = "PROVIDED" THEN ObjectSet(Topo(c), r.type, r.idx)
    ELSE CoveringSet(Topo(c), r.type, VisibleBinding(Topo(c), os))

\* The request has no target: nothing changes.
PushRejected(c, r) ==
    /\ RebindError(c, r) # "SUCCESS"
    /\ rc' = RebindError(c, r)
    /\ UNCHANGED <<os, ctx, undo>>

\* hwloc_set_cpubind() fails, for an unbindable set or because the OS refuses.
PushRefused(c, r) ==
    /\ RebindError(c, r) = "SUCCESS"
    /\ ~Bindable(Topo(c), Target(c, r)) \/ FALSE \in SetOutcomes
    /\ rc' = "NOT_SUPPORTED"
    /\ UNCHANGED <<os, ctx, undo>>

Rebinds(c, r) ==
    /\ RebindError(c, r) = "SUCCESS"
    /\ Bindable(Topo(c), Target(c, r))
    /\ TRUE \in SetOutcomes
    /\ os' = Target(c, r)

\* Mutant: bind_stack_push() does not look at the limit.
PushUnchecked(c, r) ==
    /\ Rebinds(c, r)
    /\ SetStack(c, Append(ctx[c].bstack, VisibleBinding(Topo(c), os')))
    /\ undo' = [undo EXCEPT ![c] = Append(@, [before |-> os, recorded |-> FALSE])]
    /\ rc' = "SUCCESS"

\* The new binding is in force and push_cur_bind() records what the OS reports.
PushDone(c, r) ==
    /\ Rebinds(c, r)
    /\ ~Full(c)
    /\ SetStack(c, Append(ctx[c].bstack, VisibleBinding(Topo(c), os')))
    /\ undo' = [undo EXCEPT ![c] = Append(@,
                   [before |-> os,
                    recorded |-> ctx[c].bstack # <<>> /\ Last(ctx[c].bstack) = os])]
    /\ rc' = "SUCCESS"

\* Mutant: a full stack forgets its oldest entry to make room.
PushOverwrites(c, r) ==
    /\ Rebinds(c, r)
    /\ Full(c)
    /\ SetStack(c, Append(Tail(ctx[c].bstack), VisibleBinding(Topo(c), os')))
    /\ rc' = "OOR"
    /\ UNCHANGED undo

\* The new binding is in force and there is no room to record it.
PushOverrun(c, r) ==
    /\ Rebinds(c, r)
    /\ Full(c)
    /\ rc' = "OOR"
    /\ UNCHANGED <<ctx, undo>>

(***************************************************************************)
(* quo_hwloc_bind_pop(): the top entry goes first, whatever happens next.  *)
(***************************************************************************)
DropTop(c) ==
    /\ SetStack(c, Front(ctx[c].bstack))
    /\ undo' = [undo EXCEPT ![c] = IF @ = <<>> THEN <<>> ELSE Front(@)]

PopEmpty(c) ==
    /\ ctx[c].bstack = <<>>
    /\ rc' = "POP"
    /\ UNCHANGED <<os, ctx, undo>>

\* The initial binding was the only entry: it is gone and the call fails.
PopLast(c) ==
    /\ Len(ctx[c].bstack) = 1
    /\ DropTop(c)
    /\ rc' = "POP"
    /\ UNCHANGED os

\* Mutant: the entry that was popped instead of the one below it.
PoppedTop(c) == Last(ctx[c].bstack)

PreviousTop(c) == Last(Front(ctx[c].bstack))

PopRefused(c) ==
    /\ Len(ctx[c].bstack) > 1
    /\ ~Bindable(Topo(c), PreviousTop(c)) \/ FALSE \in SetOutcomes
    /\ DropTop(c)
    /\ rc' = "NOT_SUPPORTED"
    /\ UNCHANGED os

PopDone(c) ==
    /\ Len(ctx[c].bstack) > 1
    /\ Bindable(Topo(c), PreviousTop(c))
    /\ TRUE \in SetOutcomes
    /\ DropTop(c)
    /\ os' = PreviousTop(c)
    /\ rc' = "SUCCESS"

\* QUO_bind_push and QUO_bind_pop: the library answers for a context that exists.
Push(c, r) ==
    /\ ctx[c].live
    /\ PushRejected(c, r) \/ PushRefused(c, r) \/ PushDone(c, r) \/ PushOverrun(c, r)

Pop(c) ==
    /\ ctx[c].live
    /\ PopEmpty(c) \/ PopLast(c) \/ PopRefused(c) \/ PopDone(c)

Next ==
    \E c \in Ctx :
        \/ \E noMT \in CreateFlags : Create(c, noMT)
        \/ Free(c)
        \/ \E r \in Requests : Push(c, r)
        \/ Pop(c)

Spec == Init /\ [][Next]_vars

(***************************************************************************)
(* Properties                                                              *)
(***************************************************************************)
\* The entries u of a history and the entries s of its stack end together, and
\* an entry whose mask was recorded sits right above that mask.
Aligned(s, u) ==
    LET d == Len(s) - Len(u)
    IN  /\ d \in {0, 1}
        /\ \A i \in DOMAIN u :
              u[i].recorded => /\ d + i - 1 \in DOMAIN s
                               /\ s[d + i - 1] = u[i].before

\* Every entry a push added sits right above the mask that the process had
\* before the push, when the stack recorded that mask: quo_hwloc_bind_push()
\* and quo_hwloc_bind_pop() keep the stack a faithful log, whatever other
\* contexts do to the same mask and whichever calls fail in between.
UndoAligned ==
    \A c \in Ctx :
        \/ ~ctx[c].live /\ undo[c] = <<>>
        \/ Aligned(ctx[c].bstack, undo[c])

\* A pop that succeeds brings back the mask that was in force before the push
\* it undoes, provided that the context had recorded that mask: nested pushes
\* and pops of several contexts, overruns and refused calls included.
PopReverts ==
    [][\A c \in Ctx :
         (PopDone(c) /\ undo[c] # <<>> /\ Last(undo[c]).recorded)
            => os' = Last(undo[c]).before]_vars

\* What quo.h says of QUO_bind_push: "To revert to the previous binding policy
\* call QUO_bind_pop."  A pop that reports success has restored the mask that
\* was in force before the push it undoes.
RevertsToPrevious ==
    [][\A c \in Ctx :
         (PopDone(c) /\ undo[c] # <<>>) => os' = Last(undo[c]).before]_vars

\* The same sentence for a context whose every pop follows a push of its own:
\* when the OS refuses nothing, the pop succeeds and restores the mask.
PopUndoesPush ==
    [][\A c \in Ctx :
         (Pop(c) /\ undo[c] # <<>> /\ Len(undo[c]) < Len(ctx[c].bstack))
            => rc' = "SUCCESS" /\ os' = Last(undo[c]).before]_vars

\* With one context, all processing units and an OS that never refuses, the
\* top of the stack is the binding in force, except that an overrun leaves a
\* full stack behind and an excess pop an empty one.
TopInForce ==
    \A c \in Ctx :
        \/ ctx[c].bstack = <<>>
        \/ Last(ctx[c].bstack) = os
        \/ Full(c)

\* ... and then the context keeps the promise of BindScope: the stack below
\* the top is the list of bindings to return to.
TheContext == CHOOSE c \in Ctx : TRUE

TheStack == ctx[TheContext].bstack

Scope == INSTANCE BindScope WITH
            cur      <- os,
            saved    <- IF TheStack = <<>> THEN <<>> ELSE Front(TheStack),
            anchored <- TheStack # <<>>,
            Limit    <- BIND_STACK_SIZE

KeepsScope == Scope!Spec
===============================================================================
