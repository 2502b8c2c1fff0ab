---------------------------- MODULE BindGuardProofs ----------------------------
(***************************************************************************)
(* Proofs about BindGuard, for any node, number of contexts, stack size,   *)
(* requests and refusals of the operating system: the guards do nothing    *)
(* that the C interface does not allow, so that what BindStackProofs shows *)
(* of it carries over, and the guards alive are in step with the stacks.   *)
(***************************************************************************)
EXTENDS BindGuard, BindStackProofs

allVars == <<vars, guardVars>>

(***************************************************************************)
(* Refinement: a step of the guards is a step of the stacks.               *)
(***************************************************************************)
LEMMA GuardStep == [GuardNext]_allVars => [Next]_vars
<1>. SUFFICES ASSUME [GuardNext]_allVars PROVE [Next]_vars
  OBVIOUS
<1>1. CxxRequests \subseteq Requests
  BY DEF CxxRequests
<1>2. GuardNext => Next
  BY <1>1 DEF GuardNext, Next, Construct, Destroy, Enter, Exit, Plain
<1>3. UNCHANGED allVars => UNCHANGED vars
  BY DEF allVars
<1>. QED  BY <1>2, <1>3

\* Every behaviour of the C++ classes is one of the C interface: guards only
\* push and pop, and only what their contexts can push and pop.
THEOREM GuardsRefine == GuardSpec => RefinesBindStack
<1>1. GuardInit => Init
  BY DEF GuardInit
<1>. QED  BY <1>1, GuardStep, PTL DEF GuardSpec, Spec, RefinesBindStack, allVars

\* The stacks stay well-formed and a faithful log under guards, too.
THEOREM GuardFaithfulLog == GuardSpec => [](TypeOK /\ UndoAligned)
BY GuardsRefine, Typing, FaithfulLog, PTL DEF RefinesBindStack

(***************************************************************************)
(* Types of the guards' state                                              *)
(***************************************************************************)
LEMMA GuardInitTyped == GuardInit => GuardTypeOK
<1>1. <<>> \in Seq(Bindings)
  BY EmptySeq
<1>. QED  BY <1>1 DEF GuardInit, GuardTypeOK

\* Constructing and destroying guards keeps the types.
LEMMA GuardNextTyped ==
    TypeOK /\ GuardTypeOK /\ [GuardNext]_allVars => GuardTypeOK'
<1>. SUFFICES ASSUME TypeOK, GuardTypeOK, [GuardNext]_allVars PROVE GuardTypeOK'
  OBVIOUS
<1>1. ASSUME NEW c \in Ctx, NEW noMT \in CreateFlags, Construct(c, noMT)
      PROVE  GuardTypeOK'
  <2>1. VisibleBinding(TopoOf(noMT), os) \in SUBSET PU
    BY DEF TypeOK, Bindings, VisibleBinding
  <2>. QED  BY <1>1, <2>1 DEF Construct, GuardTypeOK
<1>2. ASSUME NEW c \in Ctx, Destroy(c) \/ Plain(c)
      PROVE  GuardTypeOK'
  BY <1>2 DEF Destroy, Plain, GuardTypeOK, guardVars
<1>3. ASSUME NEW c \in Ctx, NEW r \in CxxRequests, Enter(c, r)
      PROVE  GuardTypeOK'
  <2>1. Append(guards[c], os) \in Seq(Bindings)
    BY AppendProperties DEF TypeOK, GuardTypeOK
  <2>. QED  BY <1>3, <2>1 DEF Enter, GuardTypeOK
<1>4. ASSUME NEW c \in Ctx, Exit(c)
      PROVE  GuardTypeOK'
  <2>1. Front(guards[c]) \in Seq(Bindings)
    BY <1>4, FrontOfSeq DEF Exit, GuardTypeOK
  <2>. QED  BY <1>4, <2>1 DEF Exit, GuardTypeOK
<1>5. CASE UNCHANGED allVars
  BY <1>5 DEF allVars, guardVars, GuardTypeOK
<1>. QED  BY <1>1, <1>2, <1>3, <1>4, <1>5 DEF GuardNext

(***************************************************************************)
(* The guards alive and the stack of their context grow and shrink         *)
(* together.                                                               *)
(***************************************************************************)
\* The masks that a history of pushes holds.
Masks(u) == [i \in DOMAIN u |-> u[i].before]

\* A guard constructed above a push remembers the binding that the push
\* covered.
LEMMA MasksAppend ==
    ASSUME NEW u \in Seq(Undo), NEW e \in Undo, NEW g \in Seq(Bindings), g = Masks(u)
    PROVE  Append(g, e.before) = Masks(Append(u, e))
<1>1. DOMAIN g = DOMAIN u /\ Len(g) = Len(u) /\ Len(u) \in Nat /\ DOMAIN u = 1 .. Len(u)
  BY LenProperties DEF Masks
<1>2. /\ DOMAIN Append(u, e) = 1 .. Len(u) + 1
      /\ \A i \in 1 .. Len(u) : Append(u, e)[i] = u[i]
      /\ Append(u, e)[Len(u) + 1] = e
  BY <1>1, AppendProperties, LenProperties
<1>3. e.before \in Bindings
  BY DEF Undo
<1>4. /\ Append(g, e.before) \in Seq(Bindings)
      /\ Len(Append(g, e.before)) = Len(u) + 1
      /\ \A i \in 1 .. Len(u) : Append(g, e.before)[i] = u[i].before
      /\ Append(g, e.before)[Len(u) + 1] = e.before
  BY <1>1, <1>3, AppendProperties, LenProperties DEF Masks
<1>5. Append(g, e.before) = [i \in 1 .. Len(u) + 1 |-> Append(g, e.before)[i]]
  BY <1>4, LenProperties
<1>6. \A i \in 1 .. Len(u) + 1 : Append(g, e.before)[i] = Append(u, e)[i].before
  BY <1>1, <1>2, <1>4
<1>. QED  BY <1>2, <1>5, <1>6 DEF Masks

\* A guard destroyed takes the last of the remembered bindings with it.
LEMMA MasksFront ==
    ASSUME NEW u \in Seq(Undo), NEW g \in Seq(Bindings), g = Masks(u), g # <<>>
    PROVE  u # <<>> /\ Front(g) = Masks(Front(u))
<1>1. DOMAIN g = DOMAIN u /\ Len(g) = Len(u) /\ Len(u) \in Nat /\ DOMAIN u = 1 .. Len(u)
  BY LenProperties DEF Masks
<1>2. u # <<>>
  BY <1>1, EmptySeq
<1>3. /\ Front(u) \in Seq(Undo) /\ Len(Front(u)) = Len(u) - 1
      /\ \A i \in 1 .. Len(u) - 1 : Front(u)[i] = u[i]
  BY <1>2, FrontOfSeq
<1>4. /\ Front(g) \in Seq(Bindings) /\ Len(Front(g)) = Len(u) - 1
      /\ \A i \in 1 .. Len(u) - 1 : Front(g)[i] = g[i]
  BY <1>1, FrontOfSeq
<1>5. DOMAIN Front(u) = 1 .. Len(u) - 1
  BY <1>3, LenProperties
<1>6. Front(g) = [i \in 1 .. Len(u) - 1 |-> Front(g)[i]]
  BY <1>4, LenProperties
<1>7. \A i \in 1 .. Len(u) - 1 : Front(g)[i] = Front(u)[i].before
  <2>. SUFFICES ASSUME NEW i \in 1 .. Len(u) - 1
                PROVE  Front(g)[i] = Front(u)[i].before
    OBVIOUS
  <2>1. g[i] = u[i].before
    BY <1>1 DEF Masks
  <2>2. Front(g)[i] = g[i] /\ Front(u)[i] = u[i]
    BY <1>3, <1>4
  <2>. QED  BY <2>1, <2>2
<1>. QED  BY <1>2, <1>5, <1>6, <1>7 DEF Masks

\* What BalancedScopes says of one context.
InStep(c) ==
    /\ Len(ctx[c].bstack) = Len(guards[c]) + 1
    /\ ctx[c].bstack[1] = found[c]
    /\ guards[c] = Masks(undo[c])

\* Contexts that a step leaves alone stay as they are.
Untouched(d) ==
    /\ ctx'[d] = ctx[d] /\ undo'[d] = undo[d]
    /\ guards'[d] = guards[d] /\ found'[d] = found[d]

\* What holds of one context: only when it exists and is used through guards does
\* it have any.
Holds(c) ==
    /\ c \notin scoped \/ ~ctx[c].live => guards[c] = <<>>
    /\ c \in scoped /\ ~terminated /\ ctx[c].live => InStep(c)

GuardInv == \A c \in Ctx : Holds(c)

\* A context that a step does not touch keeps its guards' account.
LEMMA UntouchedHolds ==
    ASSUME NEW d \in Ctx, Holds(d), Untouched(d), scoped' = scoped, ~terminated
    PROVE  Holds(d)'
BY DEF Holds, Untouched, InStep, Masks

\* A step on one context touches no other context.
LEMMA OthersUntouched ==
    ASSUME TypeOK, GuardTypeOK, NEW c \in Ctx,
           \/ \E noMT \in CreateFlags : Construct(c, noMT)
           \/ Destroy(c)
           \/ \E r \in CxxRequests : Enter(c, r)
           \/ Exit(c)
           \/ Plain(c)
    PROVE  scoped' = scoped /\ \A d \in Ctx \ {c} : Untouched(d)
<1>1. ASSUME NEW noMT \in CreateFlags, Construct(c, noMT)
      PROVE  scoped' = scoped /\ \A d \in Ctx \ {c} : Untouched(d)
  BY <1>1 DEF Construct, Create, Untouched, TypeOK, GuardTypeOK
<1>2. ASSUME Destroy(c)
      PROVE  scoped' = scoped /\ \A d \in Ctx \ {c} : Untouched(d)
  BY <1>2 DEF Destroy, Free, guardVars, Untouched, TypeOK, GuardTypeOK
<1>3. ASSUME NEW r, Push(c, r)
      PROVE  \A d \in Ctx \ {c} : ctx'[d] = ctx[d] /\ undo'[d] = undo[d]
  BY <1>3 DEF Push, PushRejected, PushRefused, PushDone, PushOverrun, SetStack, TypeOK
<1>4. ASSUME Pop(c)
      PROVE  \A d \in Ctx \ {c} : ctx'[d] = ctx[d] /\ undo'[d] = undo[d]
  BY <1>4 DEF Pop, PopEmpty, PopLast, PopRefused, PopDone, DropTop, SetStack, TypeOK
<1>5. ASSUME NEW r \in CxxRequests, Enter(c, r)
      PROVE  scoped' = scoped /\ \A d \in Ctx \ {c} : Untouched(d)
  BY <1>3, <1>5 DEF Enter, Untouched, GuardTypeOK
<1>6. ASSUME Exit(c)
      PROVE  scoped' = scoped /\ \A d \in Ctx \ {c} : Untouched(d)
  BY <1>4, <1>6 DEF Exit, Untouched, GuardTypeOK
<1>7. ASSUME Plain(c)
      PROVE  scoped' = scoped /\ \A d \in Ctx \ {c} : Untouched(d)
  BY <1>3, <1>4, <1>7 DEF Plain, guardVars, Untouched, GuardTypeOK
<1>. QED  BY <1>1, <1>2, <1>5, <1>6, <1>7

\* A guard's constructor: pushed and alive, or neither.
LEMMA EnterHolds ==
    ASSUME TypeOK, GuardTypeOK, ~terminated, NEW c \in Ctx, Holds(c),
           NEW r \in CxxRequests, Enter(c, r)
    PROVE  Holds(c)'
<1>1. c \in scoped /\ ctx[c].live /\ InStep(c)
  BY DEF Enter, Push, PushRejected, PushRefused, PushDone, PushOverrun, Rebinds, Holds
<1>2. /\ scoped' = scoped /\ terminated' = terminated /\ found' = found
      /\ guards' = [guards EXCEPT ![c] = IF rc' = "SUCCESS" THEN Append(@, os) ELSE @]
  BY DEF Enter
<1>3. CASE PushRejected(c, r) \/ PushRefused(c, r) \/ PushOverrun(c, r)
  <2>1. rc' # "SUCCESS" /\ ctx' = ctx /\ undo' = undo
    BY <1>3 DEF PushRejected, PushRefused, PushOverrun
  <2>2. guards' = guards
    BY <1>2, <2>1 DEF GuardTypeOK
  <2>. QED  BY <1>1, <1>2, <2>1, <2>2 DEF Holds, InStep, Masks
<1>4. CASE PushDone(c, r)
  <2>. DEFINE x == VisibleBinding(Topo(c), os')
              e == [before |-> os,
                    recorded |-> ctx[c].bstack # <<>> /\ Last(ctx[c].bstack) = os]
              s == ctx[c].bstack
  <2>1. /\ ctx'[c].bstack = Append(s, x) /\ ctx'[c].live
        /\ undo'[c] = Append(undo[c], e)
        /\ guards'[c] = Append(guards[c], os)
    BY <1>1, <1>2, <1>4 DEF PushDone, SetStack, TypeOK, GuardTypeOK
  <2>2. e \in Undo /\ e.before = os
    BY DEF TypeOK, Undo
  <2>3. s \in Seq((SUBSET PU) \cup {x}) /\ undo[c] \in Seq(Undo) /\ guards[c] \in Seq(Bindings)
    BY SeqMonotonic DEF TypeOK, GuardTypeOK
  <2>4. Append(guards[c], os) = Masks(Append(undo[c], e))
    <3>. HIDE DEF e
    <3>. QED  BY <1>1, <2>2, <2>3, MasksAppend DEF InStep
  <2>5. Len(Append(s, x)) = Len(Append(guards[c], os)) + 1 /\ Append(s, x)[1] = found[c]
    <3>. HIDE DEF s, x
    <3>1. Len(guards[c]) \in Nat /\ Len(s) = Len(guards[c]) + 1 /\ s[1] = found[c]
      BY <1>1, <2>3, LenProperties DEF InStep, s
    <3>2. os \in Bindings
      BY DEF TypeOK
    <3>3. Len(Append(guards[c], os)) = Len(guards[c]) + 1
      BY <2>3, <3>2, AppendProperties
    <3>4. Len(Append(s, x)) = Len(s) + 1 /\ Append(s, x)[1] = s[1]
      <4>1. 1 \in 1 .. Len(s)
        BY <3>1
      <4>. QED  BY <2>3, <4>1, AppendProperties
    <3>. QED  BY <3>1, <3>3, <3>4
  <2>6. guards'[c] = Masks(undo'[c]) /\ found'[c] = found[c]
    BY <1>2, <2>1, <2>4
  <2>. HIDE DEF s, x, e
  <2>7. Len(ctx'[c].bstack) = Len(guards'[c]) + 1 /\ ctx'[c].bstack[1] = found'[c]
    BY <2>1, <2>5, <2>6
  <2>. QED  BY <1>1, <1>2, <2>1, <2>6, <2>7 DEF Holds, InStep, Masks
<1>. QED  BY <1>3, <1>4 DEF Enter, Push

\* A guard's destructor: both are gone, or the process is.
LEMMA ExitHolds ==
    ASSUME TypeOK, GuardTypeOK, ~terminated, NEW c \in Ctx, Holds(c), Exit(c)
    PROVE  Holds(c)'
<1>1. c \in scoped /\ ctx[c].live /\ InStep(c) /\ guards[c] # <<>>
  BY DEF Exit, Holds
<1>2. /\ scoped' = scoped /\ found' = found
      /\ guards'[c] = Front(guards[c])
      /\ terminated' = (rc' # "SUCCESS")
  BY DEF Exit, GuardTypeOK
<1>. DEFINE s == ctx[c].bstack
            g == guards[c]
<1>3. /\ s \in Seq(SUBSET PU) /\ undo[c] \in Seq(Undo) /\ g \in Seq(Bindings)
      /\ g = Masks(undo[c]) /\ Len(s) = Len(g) + 1 /\ s[1] = found[c]
  BY <1>1 DEF TypeOK, GuardTypeOK, InStep
<1>4. undo[c] # <<>> /\ Front(g) = Masks(Front(undo[c]))
  BY <1>1, <1>3, MasksFront
<1>5. /\ Len(g) \in Nat \ {0} /\ Len(Front(g)) = Len(g) - 1
  BY <1>1, <1>3, FrontOfSeq
<1>6. s # <<>> /\ Len(Front(s)) = Len(s) - 1 /\ Front(s)[1] = s[1]
  <2>1. s # <<>>
    BY <1>3, <1>5, EmptySeq
  <2>2. 1 \in 1 .. Len(s) - 1
    BY <1>3, <1>5
  <2>. QED  BY <1>3, <2>1, <2>2, FrontOfSeq
<1>7. CASE terminated'
  <2>1. ctx'[c].live
    BY <1>1 DEF Exit, Pop, PopEmpty, PopLast, PopRefused, PopDone, DropTop, SetStack, TypeOK
  <2>. QED  BY <1>1, <1>2, <1>7, <2>1 DEF Holds
<1>8. CASE ~terminated'
  <2>1. PopDone(c)
    BY <1>2, <1>8 DEF Exit, Pop, PopEmpty, PopLast, PopRefused
  <2>2. /\ ctx'[c].bstack = Front(s) /\ ctx'[c].live
        /\ undo'[c] = Front(undo[c])
    BY <1>1, <1>4, <2>1 DEF PopDone, DropTop, SetStack, TypeOK
  <2>3. Len(ctx'[c].bstack) = Len(guards'[c]) + 1 /\ ctx'[c].bstack[1] = found'[c]
    BY <1>2, <1>3, <1>5, <1>6, <2>2
  <2>4. guards'[c] = Masks(undo'[c])
    BY <1>2, <1>4, <2>2
  <2>. QED  BY <1>1, <1>2, <2>2, <2>3, <2>4 DEF Holds, InStep, Masks
<1>. QED  BY <1>7, <1>8

\* Every step keeps the account of the guards.
LEMMA GuardInvNext ==
    TypeOK /\ GuardTypeOK /\ GuardInv /\ [GuardNext]_allVars => GuardInv'
<1>. SUFFICES ASSUME TypeOK, GuardTypeOK, GuardInv, [GuardNext]_allVars PROVE GuardInv'
  OBVIOUS
<1>1. ASSUME NEW c \in Ctx, NEW noMT \in CreateFlags, Construct(c, noMT)
      PROVE  Holds(c)'
  <2>. DEFINE first == VisibleBinding(TopoOf(noMT), os)
  <2>1. /\ guards' = guards /\ scoped' = scoped /\ terminated' = terminated
        /\ guards[c] = <<>>
        /\ ctx'[c].live /\ ctx'[c].bstack = <<first>> /\ undo'[c] = <<>>
        /\ found'[c] = first
    BY <1>1 DEF Construct, Create, GuardInv, Holds, TypeOK, GuardTypeOK
  <2>2. Len(<<first>>) = 1 /\ <<first>>[1] = first /\ Len(<<>>) = 0 /\ DOMAIN <<>> = {}
    BY EmptySeq
  <2>3. <<>> = Masks(<<>>)
    BY <2>2 DEF Masks
  <2>. HIDE DEF first
  <2>. QED  BY <2>1, <2>2, <2>3 DEF Holds, InStep, Masks
<1>2. ASSUME NEW c \in Ctx, Destroy(c)
      PROVE  Holds(c)'
  BY <1>2 DEF Destroy, Free, NoContext, guardVars, Holds, TypeOK
<1>3. ASSUME NEW c \in Ctx, Plain(c)
      PROVE  Holds(c)'
  BY <1>3 DEF Plain, guardVars, GuardInv, Holds
<1>4. CASE UNCHANGED allVars
  BY <1>4 DEF allVars, vars, guardVars, GuardInv, Holds, InStep, Masks
<1>5. ASSUME NEW c \in Ctx, Holds(c)', ~terminated,
             scoped' = scoped, \A d \in Ctx \ {c} : Untouched(d)
      PROVE  GuardInv'
  <2>1. ASSUME NEW d \in Ctx PROVE Holds(d)'
    BY <1>5, UntouchedHolds DEF GuardInv
  <2>. QED  BY <2>1 DEF GuardInv
<1>. QED
  BY <1>1, <1>2, <1>3, <1>4, <1>5, EnterHolds, ExitHolds, OthersUntouched
     DEF GuardNext, GuardInv

\* The invariant that the theorems below rest on.
LEMMA GuardInvariant == GuardSpec => [](TypeOK /\ GuardTypeOK /\ GuardInv)
<1>1. GuardInit => GuardInv
  BY DEF GuardInit, Init, NoContext, GuardInv, Holds
<1>2. GuardInit /\ [][GuardNext]_allVars /\ []TypeOK => [](GuardTypeOK /\ GuardInv)
  BY <1>1, GuardInitTyped, GuardNextTyped, GuardInvNext, PTL
<1>. QED  BY <1>2, GuardFaithfulLog, PTL DEF GuardSpec, allVars

\* Every guard alive has its entry in the stack of its context, in the order of
\* the scopes, and there are no others: the C++ classes keep what BindGuard.hpp
\* says, when constructors throw, the OS refuses and stacks overflow, too.
THEOREM BalancedScopesThm == GuardSpec => []BalancedScopes
<1>1. TypeOK /\ GuardTypeOK /\ GuardInv => BalancedScopes
  BY DEF GuardInv, Holds, InStep, Masks, BalancedScopes, GuardTypeOK
<1>. QED  BY <1>1, GuardInvariant, PTL

(***************************************************************************)
(* What leaving a scope does                                               *)
(***************************************************************************)
\* The stack below the entry of a guard that is alive.
LEMMA BelowGuard ==
    ASSUME TypeOK, GuardTypeOK, GuardInv, ~terminated, NEW c \in Ctx, Exit(c)
    PROVE  /\ c \in scoped /\ ctx[c].live
           /\ Len(ctx[c].bstack) \in Nat /\ Len(ctx[c].bstack) > 1
           /\ Len(ctx[c].bstack) = Len(guards[c]) + 1
           /\ PreviousTop(c) = ctx[c].bstack[Len(guards[c])]
<1>. DEFINE s == ctx[c].bstack
            g == guards[c]
<1>1. c \in scoped /\ ctx[c].live /\ InStep(c) /\ g # <<>>
  BY DEF Exit, GuardInv, Holds
<1>2. s \in Seq(SUBSET PU) /\ g \in Seq(Bindings) /\ Len(s) = Len(g) + 1
  BY <1>1 DEF TypeOK, GuardTypeOK, InStep
<1>3. Len(g) \in Nat \ {0}
  BY <1>1, <1>2, FrontOfSeq
<1>4. s # <<>>
  BY <1>2, <1>3, EmptySeq
<1>5. Len(Front(s)) = Len(g) /\ Front(s)[Len(g)] = s[Len(g)]
  <2>1. Len(g) \in 1 .. Len(s) - 1 /\ Len(s) - 1 = Len(g)
    BY <1>2, <1>3
  <2>2. Len(Front(s)) = Len(s) - 1 /\ \A i \in 1 .. Len(s) - 1 : Front(s)[i] = s[i]
    BY <1>2, <1>4, FrontOfSeq
  <2>. QED  BY <2>1, <2>2
<1>. QED  BY <1>1, <1>2, <1>3, <1>5 DEF PreviousTop, Last

\* The last scope to be left brings back what the context found, whatever other
\* contexts of the process did to the mask and whichever constructors have
\* thrown inside.
THEOREM OutermostRestoresThm == GuardSpec => OutermostRestores
<1>1. ASSUME TypeOK, GuardTypeOK, GuardInv, GuardNext,
             NEW c \in Ctx, Len(guards[c]) = 1, Exit(c), ~terminated'
      PROVE  os' = found[c]
  <2>1. ~terminated
    BY <1>1 DEF GuardNext
  <2>2. PopDone(c)
    BY <1>1 DEF Exit, Pop, PopEmpty, PopLast, PopRefused
  <2>3. PreviousTop(c) = ctx[c].bstack[1] /\ c \in scoped /\ ctx[c].live
    BY <1>1, <2>1, BelowGuard
  <2>4. ctx[c].bstack[1] = found[c]
    BY <1>1, <2>1, <2>3 DEF GuardInv, Holds, InStep
  <2>. QED  BY <2>2, <2>3, <2>4 DEF PopDone
<1>2. TypeOK /\ GuardTypeOK /\ GuardInv /\ [GuardNext]_allVars =>
        [\A c \in Ctx :
           (Len(guards[c]) = 1 /\ Exit(c) /\ ~terminated') => os' = found[c]]_allVars
  BY <1>1
<1>. QED  BY <1>2, GuardInvariant, PTL DEF GuardSpec, OutermostRestores, allVars

\* What the contexts with guards have recorded are bindings of the process, and
\* they see the whole node, so that any of these can be bound to.
ScopedBindings ==
    \A c \in Ctx : c \in scoped => ~ctx[c].noMT /\ ctx[c].bstack \in Seq(Bindings)

\* Every step keeps the bindings scoped: a guard's scope ends with the
\* binding it began with.
LEMMA ScopedBindingsNext ==
    ASSUME TypeOK, TypeOK', GuardTypeOK, GuardInv, ScopedBindings, [GuardNext]_allVars
    PROVE  ScopedBindings'
<1>1. ASSUME NEW c \in Ctx, NEW noMT \in CreateFlags, Construct(c, noMT), c \in scoped
      PROVE  ~ctx'[c].noMT /\ ctx'[c].bstack \in Seq(Bindings)
  <2>1. noMT = FALSE
    BY <1>1, BindStackAssumption DEF Construct
  <2>2. VisibleBinding(TopoOf(noMT), os) = os /\ os \in Bindings
    BY <2>1, WholeNodeVisible DEF TypeOK
  <2>3. ctx'[c] = [live |-> TRUE, noMT |-> FALSE, bstack |-> <<os>>]
    BY <1>1, <2>1, <2>2 DEF Construct, Create, TypeOK
  <2>. QED  BY <2>2, <2>3
<1>2. ASSUME NEW c \in Ctx, Destroy(c)
      PROVE  ~ctx'[c].noMT /\ ctx'[c].bstack \in Seq(Bindings)
  <2>1. <<>> \in Seq(Bindings)
    BY EmptySeq
  <2>. QED  BY <1>2, <2>1 DEF Destroy, Free, NoContext, TypeOK
<1>3. ASSUME NEW c \in Ctx, NEW r \in CxxRequests, Enter(c, r)
      PROVE  ~ctx'[c].noMT /\ ctx'[c].bstack \in Seq(Bindings)
  <2>1. ~ctx[c].noMT /\ ctx[c].bstack \in Seq(Bindings)
    BY <1>3 DEF Enter, ScopedBindings
  <2>2. CASE PushDone(c, r)
    <3>1. Topo(c) = TopoOf(FALSE)
      BY <2>1 DEF Topo, TypeOK
    <3>2. os' \in Bindings
      BY DEF TypeOK
    <3>3. VisibleBinding(Topo(c), os') = os'
      BY <3>1, <3>2, WholeNodeVisible
    <3>4. Append(ctx[c].bstack, os') \in Seq(Bindings)
      BY <2>1, <3>2, AppendProperties
    <3>5. ctx' = [ctx EXCEPT ![c].bstack = Append(ctx[c].bstack, os')]
      BY <2>2, <3>3 DEF PushDone, SetStack
    <3>. QED  BY <2>1, <3>4, <3>5 DEF TypeOK
  <2>3. CASE PushRejected(c, r) \/ PushRefused(c, r) \/ PushOverrun(c, r)
    BY <2>1, <2>3 DEF PushRejected, PushRefused, PushOverrun
  <2>. QED  BY <1>3, <2>2, <2>3 DEF Enter, Push
<1>4. ASSUME NEW c \in Ctx, Exit(c), ~terminated
      PROVE  ~ctx'[c].noMT /\ ctx'[c].bstack \in Seq(Bindings)
  <2>1. c \in scoped /\ Len(ctx[c].bstack) > 1
    BY <1>4, BelowGuard
  <2>2. ~ctx[c].noMT /\ ctx[c].bstack \in Seq(Bindings) /\ ctx[c].bstack # <<>>
    BY <2>1, EmptySeq DEF ScopedBindings
  <2>3. Front(ctx[c].bstack) \in Seq(Bindings)
    BY <2>2, FrontOfSeq
  <2>4. ctx' = [ctx EXCEPT ![c].bstack = Front(ctx[c].bstack)]
    BY <1>4, <2>2 DEF Exit, Pop, PopEmpty, PopLast, PopRefused, PopDone, DropTop, SetStack
  <2>. QED  BY <2>2, <2>3, <2>4 DEF TypeOK
<1>5. ASSUME NEW c \in Ctx, scoped' = scoped, \A d \in Ctx \ {c} : Untouched(d),
             c \in scoped => ~ctx'[c].noMT /\ ctx'[c].bstack \in Seq(Bindings)
      PROVE  ScopedBindings'
  BY <1>5 DEF ScopedBindings, Untouched
<1>6. CASE UNCHANGED allVars
  BY <1>6 DEF allVars, vars, guardVars, ScopedBindings
<1>7. ASSUME NEW c \in Ctx, Plain(c) PROVE c \notin scoped
  BY <1>7 DEF Plain
<1>. QED
  BY <1>1, <1>2, <1>3, <1>4, <1>5, <1>6, <1>7, OthersUntouched DEF GuardNext

\* A destructor ends the process only because the OS refuses a binding that the
\* process may have: never because there is nothing to pop.
THEOREM TerminatesOnlyIfRefusedThm == GuardSpec => TerminatesOnlyIfRefused
<1>1. GuardInit => ScopedBindings
  <2>1. <<>> \in Seq(Bindings)
    BY EmptySeq
  <2>2. GuardInit => \A c \in Ctx : ctx[c].noMT = FALSE /\ ctx[c].bstack = <<>>
    BY DEF GuardInit, Init, NoContext
  <2>. QED  BY <2>1, <2>2 DEF ScopedBindings
<1>2. ASSUME TypeOK, GuardTypeOK, GuardInv, ScopedBindings, GuardNext, terminated'
      PROVE  rc' = "NOT_SUPPORTED" /\ \E c \in Ctx : Exit(c) /\ Bindable(Topo(c), PreviousTop(c))
  <2>1. ~terminated
    BY <1>2 DEF GuardNext
  <2>2. PICK c \in Ctx : Exit(c)
    BY <1>2, <2>1 DEF GuardNext, Construct, Destroy, Enter, Plain, guardVars
  <2>3. /\ c \in scoped /\ Len(ctx[c].bstack) \in Nat /\ Len(ctx[c].bstack) > 1
        /\ Len(ctx[c].bstack) = Len(guards[c]) + 1
        /\ PreviousTop(c) = ctx[c].bstack[Len(guards[c])]
    BY <1>2, <2>1, <2>2, BelowGuard
  <2>4. ~ctx[c].noMT /\ ctx[c].bstack \in Seq(Bindings)
    BY <1>2, <2>3 DEF ScopedBindings
  <2>5. PreviousTop(c) \in Bindings
    <3>1. Len(guards[c]) \in Nat
      BY <1>2, LenProperties DEF GuardTypeOK
    <3>2. Len(guards[c]) \in 1 .. Len(ctx[c].bstack)
      BY <2>3, <3>1
    <3>. QED  BY <2>3, <2>4, <3>2, LenProperties
  <2>6. Bindable(Topo(c), PreviousTop(c))
    <3>1. Topo(c) = TopoOf(FALSE)
      BY <1>2, <2>4 DEF Topo, TypeOK
    <3>. QED  BY <2>5, <3>1, WholeNodeBindable
  <2>7. rc' = "NOT_SUPPORTED"
    <3>1. rc' # "SUCCESS"
      BY <1>2, <2>2 DEF Exit
    <3>2. ctx[c].bstack # <<>> /\ Len(ctx[c].bstack) # 1
      BY <2>3, EmptySeq
    <3>. QED  BY <2>2, <3>1, <3>2 DEF Exit, Pop, PopEmpty, PopLast, PopRefused, PopDone
  <2>. QED  BY <2>2, <2>6, <2>7
<1>3. TypeOK /\ GuardTypeOK /\ GuardInv /\ ScopedBindings /\ [GuardNext]_allVars =>
        [terminated' =>
           rc' = "NOT_SUPPORTED" /\ \E c \in Ctx : Exit(c) /\ Bindable(Topo(c), PreviousTop(c))
        ]_allVars
  BY <1>2
<1>. QED
  BY <1>1, <1>3, ScopedBindingsNext, GuardInvariant, PTL
     DEF GuardSpec, TerminatesOnlyIfRefused, allVars
===============================================================================
