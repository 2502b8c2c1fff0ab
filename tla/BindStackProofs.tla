---------------------------- MODULE BindStackProofs ----------------------------
(***************************************************************************)
(* Proofs about BindStack: typing, and that the stacks are a faithful log  *)
(* of the pushes, for any node, number of contexts, stack size, requests   *)
(* and refusals of the operating system; and that the stack of a lone      *)
(* context keeps the promise of BindScope.                                 *)
(***************************************************************************)
EXTENDS BindStack, SequenceTheorems, TLAPS

\* Disabling hyper-threads only takes processing units away: the system set of
\* every topology a context can load lies inside the node.
LEMMA SystemSetInNode ==
    ASSUME NEW noMT \in BOOLEAN
    PROVE  SystemSet(TopoOf(noMT)) \subseteq PU
<1>1. SystemSet(Levels) \subseteq PU
  BY TopologyAssumption DEF SystemSet, Range
<1>2. ASSUME NEW set \in SUBSET PU
      PROVE  SystemSet(Keep(Levels, set)) \subseteq PU
  BY <1>2 DEF SystemSet, Range, Keep, HwlocType
<1>3. SystemSet(NoMTLevels) \subseteq PU
  <2>. DEFINE set == FirstPUs(Levels) \cap SystemSet(Levels)
  <2>1. set \in SUBSET PU
    BY <1>1
  <2>2. NoMTLevels = IF set = {} THEN Levels ELSE Keep(Levels, set)
    BY DEF NoMTLevels, DisableHT
  <2>. HIDE DEF set
  <2>. QED  BY <1>1, <1>2, <2>1, <2>2
<1>. QED  BY <1>1, <1>3 DEF TopoOf

\* What the operating system accepts is an affinity of the process.
LEMMA BindableIsBinding ==
    ASSUME NEW noMT \in BOOLEAN, NEW set, Bindable(TopoOf(noMT), set)
    PROVE  set \in Bindings
BY SystemSetInNode DEF Bindable, Bindings

\* Dropping the last element of a non-empty sequence.
LEMMA FrontOfSeq ==
    ASSUME NEW S, NEW s \in Seq(S), s # <<>>
    PROVE  /\ Front(s) \in Seq(S)
           /\ Len(Front(s)) = Len(s) - 1
           /\ \A i \in 1 .. Len(s) - 1 : Front(s)[i] = s[i]
           /\ Last(s) \in S
           /\ Len(s) \in Nat \ {0}
<1>1. Len(s) \in Nat \ {0} /\ s \in [1 .. Len(s) -> S]
  BY EmptySeq, LenProperties
<1>2. Len(s) - 1 \in 1 - 1 .. Len(s) /\ 1 \in 1 .. Len(s) - 1 + 1
  BY <1>1
<1>3. /\ Front(s) \in Seq(S)
      /\ Len(Front(s)) = Len(s) - 1
      /\ \A i \in 1 .. Len(s) - 1 : Front(s)[i] = s[i]
  BY <1>1, <1>2 DEF Front
<1>. QED  BY <1>1, <1>3 DEF Last

\* Pushing on a stack with room, and popping, keep the stack and its history
\* within their types.
LEMMA AppendWithinBound ==
    ASSUME NEW S, NEW s \in Seq(S), NEW x \in S, ~(Len(s) >= BIND_STACK_SIZE)
    PROVE  Append(s, x) \in Seq(S) /\ Len(Append(s, x)) <= BIND_STACK_SIZE
BY AppendProperties, LenProperties, BindStackAssumption

\* Dropping the top of a stack keeps the types.
LEMMA DropTopTyped ==
    ASSUME TypeOK, NEW c \in Ctx, ctx[c].bstack # <<>>, DropTop(c), rc' \in ReturnCode,
           os' \in Bindings
    PROVE  TypeOK'
<1>. DEFINE s == ctx[c].bstack
<1>1. s \in Seq(SUBSET PU) /\ Len(s) <= BIND_STACK_SIZE
  BY DEF TypeOK
<1>2. Front(s) \in Seq(SUBSET PU) /\ Len(Front(s)) <= BIND_STACK_SIZE
  <2>1. Front(s) \in Seq(SUBSET PU) /\ Len(Front(s)) = Len(s) - 1 /\ Len(s) \in Nat
    BY <1>1, FrontOfSeq
  <2>. QED  BY <1>1, <2>1, BindStackAssumption
<1>3. ctx' = [ctx EXCEPT ![c].bstack = Front(s)]
  BY DEF DropTop, SetStack
<1>4. /\ ctx' \in [Ctx -> [live : BOOLEAN, noMT : BOOLEAN, bstack : Seq(SUBSET PU)]]
      /\ \A d \in Ctx : Len(ctx'[d].bstack) <= BIND_STACK_SIZE
  BY <1>2, <1>3 DEF TypeOK
<1>5. undo' \in [Ctx -> Seq(Undo)]
  <2>1. undo[c] \in Seq(Undo)
    BY DEF TypeOK
  <2>2. (IF undo[c] = <<>> THEN <<>> ELSE Front(undo[c])) \in Seq(Undo)
    BY <2>1, FrontOfSeq, EmptySeq
  <2>. QED  BY <2>2 DEF TypeOK, DropTop
<1>. QED  BY <1>4, <1>5 DEF TypeOK

\* Every reachable affinity is a non-empty set of the node's processing units,
\* and no stack outgrows BIND_STACK_SIZE.
LEMMA InitTyped == Init => TypeOK
<1>. SUFFICES ASSUME Init PROVE TypeOK
  OBVIOUS
<1>1. <<>> \in Seq(SUBSET PU) /\ <<>> \in Seq(Undo) /\ Len(<<>>) = 0
  BY EmptySeq
<1>2. os \in Bindings
  BY BindStackAssumption DEF Init, Bindings
<1>. QED  BY <1>1, <1>2, BindStackAssumption DEF Init, TypeOK, NoContext, ReturnCode

\* Every step keeps the types.
LEMMA NextTyped == TypeOK /\ [Next]_vars => TypeOK'
<1>. SUFFICES ASSUME TypeOK, [Next]_vars PROVE TypeOK'
  OBVIOUS
<1>0. <<>> \in Seq(SUBSET PU) /\ <<>> \in Seq(Undo) /\ Len(<<>>) = 0
  BY EmptySeq
<1>1. ASSUME NEW c \in Ctx, NEW noMT \in CreateFlags, Create(c, noMT)
      PROVE  TypeOK'
  <2>. DEFINE first == VisibleBinding(TopoOf(noMT), os)
  <2>1. first \in SUBSET PU
    BY DEF TypeOK, Bindings, VisibleBinding
  <2>2. <<first>> \in Seq(SUBSET PU) /\ Len(<<first>>) = 1
    BY <2>1
  <2>3. noMT \in BOOLEAN
    BY BindStackAssumption
  <2>. HIDE DEF first
  <2>. QED
    BY <1>0, <1>1, <2>2, <2>3, BindStackAssumption DEF Create, TypeOK, ReturnCode, first
<1>2. ASSUME NEW c \in Ctx, Free(c)
      PROVE  TypeOK'
  BY <1>0, <1>2, BindStackAssumption DEF Free, TypeOK, NoContext, ReturnCode
<1>3. ASSUME NEW c \in Ctx, NEW r \in Requests, PushRejected(c, r)
      PROVE  TypeOK'
  BY <1>3 DEF PushRejected, RebindError, TypeOK, ReturnCode
<1>4. ASSUME NEW c \in Ctx, NEW r \in Requests, PushRefused(c, r)
      PROVE  TypeOK'
  BY <1>4 DEF PushRefused, TypeOK, ReturnCode
<1>5. ASSUME NEW c \in Ctx, NEW r \in Requests, Rebinds(c, r)
      PROVE  os' \in Bindings
  <2>1. ctx[c].noMT \in BOOLEAN
    BY DEF TypeOK
  <2>. QED  BY <1>5, <2>1, BindableIsBinding DEF Rebinds, Topo
<1>6. ASSUME NEW c \in Ctx, NEW r \in Requests, PushDone(c, r)
      PROVE  TypeOK'
  <2>1. os' \in Bindings
    BY <1>5, <1>6 DEF PushDone
  <2>. DEFINE s == Append(ctx[c].bstack, VisibleBinding(Topo(c), os'))
              u == [before |-> os,
                    recorded |-> ctx[c].bstack # <<>> /\ Last(ctx[c].bstack) = os]
  <2>2. VisibleBinding(Topo(c), os') \in SUBSET PU
    BY <2>1 DEF VisibleBinding, Bindings
  <2>3. s \in Seq(SUBSET PU) /\ Len(s) <= BIND_STACK_SIZE
    BY <1>6, <2>2, AppendWithinBound DEF TypeOK, PushDone, Full
  <2>4. Append(undo[c], u) \in Seq(Undo)
    <3>1. u \in Undo
      BY DEF TypeOK, Undo
    <3>. QED  BY <3>1, AppendProperties DEF TypeOK
  <2>5. /\ ctx' = [ctx EXCEPT ![c].bstack = s]
        /\ undo' = [undo EXCEPT ![c] = Append(undo[c], u)]
        /\ rc' = "SUCCESS"
    BY <1>6 DEF PushDone, SetStack, TypeOK
  <2>. HIDE DEF s, u
  <2>. QED  BY <2>1, <2>3, <2>4, <2>5 DEF TypeOK, ReturnCode
<1>7. ASSUME NEW c \in Ctx, NEW r \in Requests, PushOverrun(c, r)
      PROVE  TypeOK'
  BY <1>5, <1>7 DEF PushOverrun, TypeOK, ReturnCode
<1>8. ASSUME NEW c \in Ctx, PopEmpty(c)
      PROVE  TypeOK'
  BY <1>8 DEF PopEmpty, TypeOK, ReturnCode
<1>9. ASSUME NEW c \in Ctx, PopLast(c)
       PROVE  TypeOK'
  <2>1. ctx[c].bstack # <<>>
    <3>. SUFFICES ASSUME ctx[c].bstack = <<>> PROVE FALSE
      OBVIOUS
    <3>1. Len(ctx[c].bstack) = 0
      BY <1>0
    <3>. QED  BY <1>9, <3>1 DEF PopLast
  <2>. QED  BY <1>9, <2>1, DropTopTyped DEF PopLast, TypeOK, ReturnCode
<1>10. ASSUME NEW c \in Ctx, PopRefused(c)
       PROVE  TypeOK'
  <2>1. ctx[c].bstack # <<>>
    BY <1>0, <1>10 DEF PopRefused
  <2>. QED  BY <1>10, <2>1, DropTopTyped DEF PopRefused, TypeOK, ReturnCode
<1>11. ASSUME NEW c \in Ctx, PopDone(c)
       PROVE  TypeOK'
  <2>1. ctx[c].bstack # <<>>
    BY <1>0, <1>11 DEF PopDone
  <2>2. os' \in Bindings
    BY <1>11, BindableIsBinding DEF PopDone, Topo, TypeOK
  <2>. QED  BY <1>11, <2>1, <2>2, DropTopTyped DEF PopDone, ReturnCode
<1>12. CASE UNCHANGED vars
  BY <1>12 DEF vars, TypeOK
<1>. QED
  BY <1>1, <1>2, <1>3, <1>4, <1>6, <1>7, <1>8, <1>9, <1>10, <1>11, <1>12
     DEF Next, Push, Pop

\* The bind stack, its undo log and the operating system's binding have their
\* types in every reachable state of quo-hwloc.c's push and pop.
THEOREM Typing == Spec => []TypeOK
BY InitTyped, NextTyped, PTL DEF Spec

(***************************************************************************)
(* The stack as a log.  Pushing and popping keep the history aligned with  *)
(* the stack; every other call leaves both alone.                          *)
(***************************************************************************)
LEMMA SameDifference ==
    \A a, b \in Nat : (a + 1) - (b + 1) = a - b /\ (a - 1) - (b - 1) = a - b
OBVIOUS

\* A push recorded with the binding it covered keeps the stack and the log
\* aligned.
LEMMA AlignedAppend ==
    ASSUME NEW S, NEW T, NEW s \in Seq(S), NEW u \in Seq(T), Aligned(s, u),
           NEW x \in S, NEW e \in T,
           e.recorded => s # <<>> /\ Last(s) = e.before
    PROVE  Aligned(Append(s, x), Append(u, e))
<1>. DEFINE sx == Append(s, x)
            ue == Append(u, e)
            d == Len(s) - Len(u)
<1>1. /\ Len(s) \in Nat /\ Len(u) \in Nat
      /\ DOMAIN s = 1 .. Len(s) /\ DOMAIN u = 1 .. Len(u)
  BY LenProperties
<1>2. /\ Len(sx) = Len(s) + 1 /\ DOMAIN sx = 1 .. Len(s) + 1
      /\ \A i \in 1 .. Len(s) : sx[i] = s[i]
      /\ Len(ue) = Len(u) + 1 /\ DOMAIN ue = 1 .. Len(u) + 1
      /\ \A i \in 1 .. Len(u) : ue[i] = u[i]
      /\ ue[Len(u) + 1] = e
  BY <1>1, AppendProperties, LenProperties
<1>3. s # <<>> => Len(s) \in 1 .. Len(s)
  BY <1>1, EmptySeq
<1>4. ASSUME NEW i \in 1 .. Len(u) + 1, ue[i].recorded
      PROVE  d + i - 1 \in 1 .. Len(s) /\ sx[d + i - 1] = ue[i].before
  <2>1. CASE i \in 1 .. Len(u)
    BY <1>1, <1>2, <1>4, <2>1 DEF Aligned
  <2>2. CASE i = Len(u) + 1
    <3>1. ue[i] = e /\ e.recorded
      BY <1>2, <1>4, <2>2
    <3>2. s # <<>> /\ s[Len(s)] = e.before
      BY <3>1 DEF Last
    <3>3. d + i - 1 = Len(s)
      BY <1>1, <2>2
    <3>. QED  BY <1>2, <1>3, <3>1, <3>2, <3>3
  <2>. QED  BY <1>1, <2>1, <2>2
<1>5. Len(sx) - Len(ue) = d /\ d \in {0, 1}
  <2>1. d \in {0, 1}
    BY DEF Aligned
  <2>2. Len(sx) = Len(s) + 1 /\ Len(ue) = Len(u) + 1
    BY <1>2
  <2>. HIDE DEF sx, ue
  <2>3. Len(sx) - Len(ue) = (Len(s) + 1) - (Len(u) + 1)
    BY <2>2
  <2>. QED  BY <1>1, <2>1, <2>3, SameDifference
<1>. HIDE DEF sx, ue
<1>6. \A i \in DOMAIN ue : ue[i].recorded => d + i - 1 \in DOMAIN sx /\ sx[d + i - 1] = ue[i].before
  BY <1>1, <1>2, <1>4
<1>7. Aligned(sx, ue)
  BY <1>5, <1>6 DEF Aligned
<1>. QED  BY <1>7 DEF sx, ue

\* A pop takes the same entry off the stack and off the log.
LEMMA AlignedFront ==
    ASSUME NEW S, NEW T, NEW s \in Seq(S), NEW u \in Seq(T), Aligned(s, u), s # <<>>
    PROVE  Aligned(Front(s), IF u = <<>> THEN <<>> ELSE Front(u))
<1>1. /\ Len(s) \in Nat /\ Len(u) \in Nat
      /\ DOMAIN s = 1 .. Len(s) /\ DOMAIN u = 1 .. Len(u)
  BY LenProperties
<1>2. /\ Front(s) \in Seq(S) /\ Len(Front(s)) = Len(s) - 1 /\ Len(s) # 0
      /\ \A i \in 1 .. Len(s) - 1 : Front(s)[i] = s[i]
  BY FrontOfSeq
<1>3. DOMAIN Front(s) = 1 .. Len(s) - 1
  BY <1>2, LenProperties
<1>4. CASE u = <<>>
  <2>1. Len(u) = 0 /\ Len(s) = 1
    BY <1>1, <1>2, <1>4, EmptySeq DEF Aligned
  <2>2. DOMAIN <<>> = {} /\ Len(<<>>) = 0
    BY EmptySeq
  <2>3. Len(Front(s)) - Len(<<>>) = 0
    <3>1. Len(Front(s)) = 0
      BY <1>2, <2>1
    <3>2. \A x, y : x = 0 /\ y = 0 => x - y = 0
      OBVIOUS
    <3>. QED  BY <2>2, <3>1, <3>2, Zenon
  <2>4. Aligned(Front(s), <<>>)
    BY <2>2, <2>3 DEF Aligned
  <2>. QED  BY <1>4, <2>4
<1>5. CASE u # <<>>
  <2>1. /\ Front(u) \in Seq(T) /\ Len(Front(u)) = Len(u) - 1
        /\ \A i \in 1 .. Len(u) - 1 : Front(u)[i] = u[i]
    BY <1>5, FrontOfSeq
  <2>2. DOMAIN Front(u) = 1 .. Len(u) - 1
    BY <2>1, LenProperties
  <2>3. ASSUME NEW i \in 1 .. Len(u) - 1, Front(u)[i].recorded
        PROVE  /\ Len(s) - Len(u) + i - 1 \in 1 .. Len(s) - 1
               /\ Front(s)[Len(s) - Len(u) + i - 1] = Front(u)[i].before
    <3>1. i \in DOMAIN u /\ u[i].recorded /\ Front(u)[i].before = u[i].before
      BY <1>1, <2>1, <2>3
    <3>2. /\ Len(s) - Len(u) + i - 1 \in 1 .. Len(s)
          /\ s[Len(s) - Len(u) + i - 1] = u[i].before
      BY <1>1, <3>1 DEF Aligned
    <3>3. Len(s) - Len(u) + i - 1 \in 1 .. Len(s) - 1
      BY <1>1, <3>2
    <3>. QED  BY <1>2, <3>1, <3>2, <3>3
  <2>4. /\ Len(Front(s)) - Len(Front(u)) = Len(s) - Len(u)
        /\ Len(s) - Len(u) \in {0, 1}
    <3>1. Len(s) - Len(u) \in {0, 1}
      BY DEF Aligned
    <3>2. Len(Front(s)) - Len(Front(u)) = (Len(s) - 1) - (Len(u) - 1)
      BY <1>2, <2>1
    <3>. QED  BY <1>1, <3>1, <3>2, SameDifference
  <2>5. Aligned(Front(s), Front(u))
    BY <1>3, <2>2, <2>3, <2>4 DEF Aligned
  <2>. QED  BY <1>5, <2>5
<1>. QED  BY <1>4, <1>5

\* Dropping the top of a context's stack keeps the logs aligned.
LEMMA DropTopAligned ==
    ASSUME TypeOK, UndoAligned, NEW c \in Ctx, ctx[c].live, ctx[c].bstack # <<>>, DropTop(c)
    PROVE  UndoAligned'
<1>1. Aligned(Front(ctx[c].bstack), IF undo[c] = <<>> THEN <<>> ELSE Front(undo[c]))
  BY AlignedFront DEF UndoAligned, TypeOK
<1>2. /\ ctx'[c].bstack = Front(ctx[c].bstack)
      /\ undo'[c] = IF undo[c] = <<>> THEN <<>> ELSE Front(undo[c])
      /\ \A d \in Ctx \ {c} : ctx'[d] = ctx[d] /\ undo'[d] = undo[d]
  BY DEF DropTop, SetStack, TypeOK
<1>. QED  BY <1>1, <1>2 DEF UndoAligned

\* Every step keeps the logs aligned.
LEMMA NextAligned == TypeOK /\ UndoAligned /\ [Next]_vars => UndoAligned'
<1>. SUFFICES ASSUME TypeOK, UndoAligned, [Next]_vars PROVE UndoAligned'
  OBVIOUS
<1>0. Len(<<>>) = 0 /\ DOMAIN <<>> = {}
  BY EmptySeq
<1>1. ASSUME NEW c \in Ctx, NEW noMT \in CreateFlags, Create(c, noMT)
      PROVE  UndoAligned'
  <2>. DEFINE first == VisibleBinding(TopoOf(noMT), os)
  <2>1. /\ ctx'[c].bstack = <<first>> /\ undo'[c] = <<>>
        /\ \A d \in Ctx \ {c} : ctx'[d] = ctx[d] /\ undo'[d] = undo[d]
    BY <1>1 DEF Create, TypeOK
  <2>2. Aligned(<<first>>, <<>>)
    BY <1>0 DEF Aligned
  <2>. QED  BY <2>1, <2>2 DEF UndoAligned
<1>2. ASSUME NEW c \in Ctx, Free(c)
      PROVE  UndoAligned'
  BY <1>2 DEF Free, NoContext, UndoAligned, TypeOK
<1>3. ASSUME NEW c \in Ctx, NEW r \in Requests, ctx[c].live, PushDone(c, r)
      PROVE  UndoAligned'
  <2>. DEFINE x == VisibleBinding(Topo(c), os')
              e == [before |-> os,
                    recorded |-> ctx[c].bstack # <<>> /\ Last(ctx[c].bstack) = os]
  <2>3. Aligned(ctx[c].bstack, undo[c])
    BY <1>3 DEF UndoAligned
  <2>4. e.recorded => ctx[c].bstack # <<>> /\ Last(ctx[c].bstack) = e.before
    OBVIOUS
  <2>5. /\ ctx[c].bstack \in Seq(SUBSET PU) /\ undo[c] \in Seq(Undo)
    BY DEF TypeOK
  <2>7. ctx[c].bstack \in Seq((SUBSET PU) \cup {x}) /\ undo[c] \in Seq(Undo \cup {e})
    BY <2>5, SeqMonotonic
  <2>8. /\ ctx'[c].bstack = Append(ctx[c].bstack, x)
        /\ undo'[c] = Append(undo[c], e)
        /\ \A d \in Ctx \ {c} : ctx'[d] = ctx[d] /\ undo'[d] = undo[d]
    BY <1>3 DEF PushDone, SetStack, TypeOK
  <2>. HIDE DEF x, e
  <2>9. Aligned(Append(ctx[c].bstack, x), Append(undo[c], e))
    BY <2>3, <2>4, <2>7, AlignedAppend
  <2>. QED  BY <2>8, <2>9 DEF UndoAligned
<1>4. ASSUME NEW c \in Ctx, NEW r \in Requests,
             PushRejected(c, r) \/ PushRefused(c, r) \/ PushOverrun(c, r)
      PROVE  UndoAligned'
  BY <1>4 DEF PushRejected, PushRefused, PushOverrun, UndoAligned
<1>5. ASSUME NEW c \in Ctx, PopEmpty(c)
      PROVE  UndoAligned'
  BY <1>5 DEF PopEmpty, UndoAligned
<1>6. ASSUME NEW c \in Ctx, ctx[c].live, PopLast(c) \/ PopRefused(c) \/ PopDone(c)
      PROVE  UndoAligned'
  <2>1. ctx[c].live /\ DropTop(c) /\ (Len(ctx[c].bstack) = 1 \/ Len(ctx[c].bstack) > 1)
    BY <1>6 DEF PopLast, PopRefused, PopDone
  <2>2. ctx[c].bstack # <<>>
    <3>. SUFFICES ASSUME ctx[c].bstack = <<>> PROVE FALSE
      OBVIOUS
    <3>1. Len(ctx[c].bstack) = 0
      BY <1>0
    <3>. QED  BY <2>1, <3>1
  <2>. QED  BY <2>1, <2>2, DropTopAligned
<1>7. CASE UNCHANGED vars
  BY <1>7 DEF vars, UndoAligned
<1>. QED
  BY <1>1, <1>2, <1>3, <1>4, <1>5, <1>6, <1>7 DEF Next, Push, Pop

\* The undo log records, for each entry of a bind stack, the binding that the
\* entry covered.
THEOREM FaithfulLog == Spec => []UndoAligned
<1>1. Init => UndoAligned
  BY DEF Init, NoContext, UndoAligned
<1>. QED  BY <1>1, NextAligned, Typing, PTL DEF Spec

(***************************************************************************)
(* A successful pop brings back the mask of before the push it undoes,     *)
(* whenever the stack had recorded that mask.                              *)
(***************************************************************************)
THEOREM PopRevertsThm == Spec => PopReverts
<1>1. ASSUME TypeOK, UndoAligned, NEW c \in Ctx, PopDone(c), undo[c] # <<>>,
             Last(undo[c]).recorded
      PROVE  os' = Last(undo[c]).before
  <2>. DEFINE s == ctx[c].bstack
              u == undo[c]
  <2>1. s \in Seq(SUBSET PU) /\ u \in Seq(Undo) /\ Len(s) > 1 /\ Aligned(s, u)
    BY <1>1 DEF TypeOK, UndoAligned, PopDone
  <2>2. /\ Len(s) \in Nat /\ Len(u) \in Nat \ {0}
        /\ Len(u) \in DOMAIN u
    BY <1>1, <2>1, LenProperties, EmptySeq
  <2>3. s[Len(s) - 1] = Last(u).before
    <3>1. u[Len(u)].recorded
      BY <1>1 DEF Last
    <3>2. s[Len(s) - Len(u) + Len(u) - 1] = u[Len(u)].before
      BY <2>1, <2>2, <3>1 DEF Aligned
    <3>3. Len(s) - Len(u) + Len(u) - 1 = Len(s) - 1
      BY <2>2
    <3>. QED  BY <3>2, <3>3 DEF Last
  <2>4. Last(Front(s)) = s[Len(s) - 1]
    <3>1. s # <<>>
      BY <2>1, EmptySeq
    <3>2. /\ Len(Front(s)) = Len(s) - 1
          /\ \A i \in 1 .. Len(s) - 1 : Front(s)[i] = s[i]
      BY <2>1, <3>1, FrontOfSeq
    <3>. QED  BY <2>1, <2>2, <3>2 DEF Last
  <2>. QED  BY <1>1, <2>3, <2>4 DEF PopDone, PreviousTop
<1>2. TypeOK /\ UndoAligned /\ [Next]_vars =>
        [\A c \in Ctx : (PopDone(c) /\ undo[c] # <<>> /\ Last(undo[c]).recorded)
                            => os' = Last(undo[c]).before]_vars
  BY <1>1
<1>. QED  BY <1>2, Typing, FaithfulLog, PTL DEF Spec, PopReverts

(***************************************************************************)
(* A process with a single context, all its hardware threads, and an       *)
(* operating system that never refuses: the stack of the context is an     *)
(* implementation of the scope of BindScope.                               *)
(***************************************************************************)
Alone == Ctx = {TheContext} /\ CreateFlags = {FALSE} /\ SetOutcomes = {TRUE}

\* The strengthening: nothing empty is ever recorded, so nothing that a pop
\* could return to is refused.
RecordedBindable ==
    \A c \in Ctx : ~ctx[c].noMT /\ ctx[c].bstack \in Seq(Bindings)

AloneInv == TypeOK /\ RecordedBindable /\ TopInForce

\* A context that is not restricted sees the whole node.
LEMMA WholeNode == SystemSet(TopoOf(FALSE)) = PU
<1>1. Range(<<PU>>) = {PU}
  BY DEF Range
<1>. QED  BY <1>1, TopologyAssumption DEF SystemSet, TopoOf

\* Seen through the whole node, a binding is itself.
LEMMA WholeNodeVisible ==
    ASSUME NEW b \in Bindings
    PROVE  VisibleBinding(TopoOf(FALSE), b) = b
<1>1. b \subseteq PU
  BY DEF Bindings
<1>2. ASSUME NEW p \in b PROVE \E last \in PU : p <= last
  <2>1. p \in PU /\ p \in Nat
    BY <1>1, TopologyAssumption
  <2>2. p <= p
    BY <2>1
  <2>. QED  BY <2>1, <2>2
<1>. QED  BY <1>2, WholeNode DEF VisibleBinding

\* On the whole node every binding can be restored.
LEMMA WholeNodeBindable ==
    ASSUME NEW b \in Bindings
    PROVE  Bindable(TopoOf(FALSE), b)
BY WholeNode DEF Bindable, Bindings

\* The cases of a push and a pop that change the stack of a lone context.
LEMMA AlonePushDone ==
    ASSUME AloneInv, Alone, TypeOK', NEW c \in Ctx, NEW r \in Requests, PushDone(c, r)
    PROVE  /\ ctx' = [ctx EXCEPT ![c].bstack = Append(ctx[c].bstack, os')]
           /\ os' \in Bindings
<1>1. os' \in Bindings
  BY DEF TypeOK
<1>2. Topo(c) = TopoOf(FALSE)
  BY DEF AloneInv, RecordedBindable, TypeOK, Topo
<1>. QED  BY <1>1, <1>2, WholeNodeVisible DEF PushDone, SetStack

\* When the process has one context, a pop finds a binding that it can
\* restore below the top.
LEMMA AlonePop ==
    ASSUME AloneInv, Alone, NEW c \in Ctx, ctx[c].live, Len(ctx[c].bstack) > 1
    PROVE  /\ Bindable(Topo(c), PreviousTop(c))
           /\ Front(ctx[c].bstack) # <<>>
           /\ Front(ctx[c].bstack) \in Seq(Bindings)
<1>. DEFINE s == ctx[c].bstack
<1>1. s \in Seq(Bindings) /\ s # <<>>
  <2>1. s \in Seq(Bindings)
    BY DEF AloneInv, RecordedBindable
  <2>2. s # <<>>
    BY EmptySeq
  <2>. QED  BY <2>1, <2>2
<1>2. Front(s) \in Seq(Bindings) /\ Len(Front(s)) = Len(s) - 1 /\ Len(s) \in Nat
  BY <1>1, FrontOfSeq
<1>3. Front(s) # <<>>
  <2>. SUFFICES ASSUME Front(s) = <<>> PROVE FALSE
    OBVIOUS
  <2>1. Len(Front(s)) = 0
    BY EmptySeq
  <2>2. \A m \in Nat : m > 1 => m - 1 # 0
    OBVIOUS
  <2>3. Len(s) - 1 # 0
    BY <1>2, <2>2
  <2>. QED  BY <1>2, <2>1, <2>3, Zenon
<1>4. Last(Front(s)) \in Bindings
  BY <1>2, <1>3, FrontOfSeq
<1>5. Topo(c) = TopoOf(FALSE)
  BY DEF AloneInv, RecordedBindable, TypeOK, Topo
<1>. QED  BY <1>2, <1>3, <1>4, <1>5, WholeNodeBindable DEF PreviousTop

\* The invariant of a single context holds initially.
LEMMA AloneInit == Alone /\ Init => AloneInv
<1>1. <<>> \in Seq(Bindings)
  BY EmptySeq
<1>. SUFFICES ASSUME Init PROVE AloneInv
  OBVIOUS
<1>2. \A c \in Ctx : ctx[c].noMT = FALSE /\ ctx[c].bstack = <<>>
  BY DEF Init, NoContext
<1>3. RecordedBindable
  BY <1>1, <1>2 DEF RecordedBindable
<1>4. TopInForce
  BY <1>2 DEF TopInForce
<1>. QED  BY <1>3, <1>4, InitTyped DEF AloneInv

\* Every step keeps the invariant of a single context.
LEMMA AloneNext == Alone /\ AloneInv /\ [Next]_vars => AloneInv'
<1>. SUFFICES ASSUME Alone, AloneInv, [Next]_vars PROVE AloneInv'
  OBVIOUS
<1>0. TypeOK /\ TypeOK'
  BY NextTyped DEF AloneInv
<1>1. ASSUME NEW c \in Ctx, NEW noMT \in CreateFlags, Create(c, noMT)
      PROVE  RecordedBindable' /\ TopInForce'
  <2>1. noMT = FALSE /\ Ctx = {c}
    BY DEF Alone
  <2>2. VisibleBinding(TopoOf(noMT), os) = os /\ os \in Bindings
    BY <1>0, <2>1, WholeNodeVisible DEF TypeOK
  <2>3. ctx'[c] = [live |-> TRUE, noMT |-> FALSE, bstack |-> <<os>>] /\ os' = os
    BY <1>0, <1>1, <2>1, <2>2 DEF Create, TypeOK
  <2>4. <<os>> \in Seq(Bindings) /\ Last(<<os>>) = os
    BY <2>2 DEF Last
  <2>5. ctx'[c].noMT = FALSE /\ ctx'[c].bstack = <<os>>
    BY <2>3
  <2>6. RecordedBindable'
    BY <2>1, <2>4, <2>5 DEF RecordedBindable
  <2>7. TopInForce'
    BY <2>1, <2>3, <2>4, <2>5 DEF TopInForce
  <2>. QED  BY <2>6, <2>7
<1>2. ASSUME NEW c \in Ctx, Free(c)
      PROVE  RecordedBindable' /\ TopInForce'
  <2>1. Ctx = {c} /\ <<>> \in Seq(Bindings)
    BY EmptySeq DEF Alone
  <2>. QED  BY <1>0, <1>2, <2>1 DEF Free, NoContext, RecordedBindable, TopInForce, TypeOK
<1>3. ASSUME NEW c \in Ctx, NEW r \in Requests, PushDone(c, r)
      PROVE  RecordedBindable' /\ TopInForce'
  <2>. DEFINE s == Append(ctx[c].bstack, os')
  <2>1. /\ ctx' = [ctx EXCEPT ![c].bstack = s]
        /\ os' \in Bindings
    BY <1>0, <1>3, AlonePushDone
  <2>2. s \in Seq(Bindings) /\ Last(s) = os'
    <3>1. ctx[c].bstack \in Seq(Bindings)
      BY DEF AloneInv, RecordedBindable
    <3>. QED  BY <2>1, <3>1, AppendProperties, LenProperties DEF Last
  <2>3. ctx'[c].bstack = s /\ ctx'[c].noMT = ctx[c].noMT /\ Ctx = {c}
    BY <1>0, <2>1 DEF TypeOK, Alone
  <2>. HIDE DEF s
  <2>. QED  BY <2>2, <2>3 DEF AloneInv, RecordedBindable, TopInForce
<1>4. ASSUME NEW c \in Ctx, NEW r \in Requests, PushOverrun(c, r)
      PROVE  RecordedBindable' /\ TopInForce'
  <2>1. Ctx = {c}
    BY DEF Alone
  <2>. QED
    BY <1>4, <2>1 DEF PushOverrun, Full, AloneInv, RecordedBindable, TopInForce
<1>5. ASSUME NEW c \in Ctx, NEW r \in Requests, PushRejected(c, r) \/ PushRefused(c, r)
      PROVE  RecordedBindable' /\ TopInForce'
  BY <1>5 DEF PushRejected, PushRefused, AloneInv, RecordedBindable, TopInForce, Full
<1>6. ASSUME NEW c \in Ctx, PopEmpty(c)
      PROVE  RecordedBindable' /\ TopInForce'
  BY <1>6 DEF PopEmpty, AloneInv, RecordedBindable, TopInForce, Full
<1>7. ASSUME NEW c \in Ctx, PopLast(c)
      PROVE  RecordedBindable' /\ TopInForce'
  <2>. DEFINE s == ctx[c].bstack
  <2>1. s \in Seq(Bindings) /\ Len(s) = 1
    BY <1>7 DEF PopLast, AloneInv, RecordedBindable
  <2>2. s # <<>>
    <3>. SUFFICES ASSUME s = <<>> PROVE FALSE
      OBVIOUS
    <3>1. Len(s) = 0
      BY EmptySeq
    <3>. QED  BY <2>1, <3>1
  <2>3. Front(s) \in Seq(Bindings) /\ Len(Front(s)) = 0
    BY <2>1, <2>2, FrontOfSeq
  <2>4. Front(s) = <<>>
    BY <2>3, EmptySeq
  <2>5. ctx'[c].bstack = <<>> /\ ctx'[c].noMT = ctx[c].noMT /\ Ctx = {c}
    BY <1>0, <1>7, <2>4 DEF PopLast, DropTop, SetStack, TypeOK, Alone
  <2>6. <<>> \in Seq(Bindings)
    BY EmptySeq
  <2>. QED  BY <2>5, <2>6 DEF AloneInv, RecordedBindable, TopInForce
<1>8. ASSUME NEW c \in Ctx, ctx[c].live, PopRefused(c)
      PROVE  FALSE
  <2>1. Bindable(Topo(c), PreviousTop(c))
    BY <1>8, AlonePop DEF PopRefused
  <2>. QED  BY <1>8, <2>1 DEF PopRefused, Alone
<1>9. ASSUME NEW c \in Ctx, ctx[c].live, PopDone(c)
      PROVE  RecordedBindable' /\ TopInForce'
  <2>1. Front(ctx[c].bstack) \in Seq(Bindings)
    BY <1>9, AlonePop DEF PopDone
  <2>2. /\ ctx'[c].bstack = Front(ctx[c].bstack) /\ ctx'[c].noMT = ctx[c].noMT
        /\ os' = Last(Front(ctx[c].bstack)) /\ Ctx = {c}
    BY <1>0, <1>9 DEF PopDone, PreviousTop, DropTop, SetStack, TypeOK, Alone
  <2>. QED  BY <2>1, <2>2 DEF AloneInv, RecordedBindable, TopInForce
<1>10. CASE UNCHANGED vars
  <2>1. ctx' = ctx /\ os' = os
    BY <1>10 DEF vars
  <2>2. RecordedBindable'
    BY <2>1 DEF AloneInv, RecordedBindable
  <2>3. TopInForce'
    BY <2>1 DEF AloneInv, TopInForce, Full
  <2>. QED  BY <1>0, <2>2, <2>3 DEF AloneInv
<1>. QED
  BY <1>0, <1>1, <1>2, <1>3, <1>4, <1>5, <1>6, <1>7, <1>8, <1>9, <1>10
     DEF Next, Push, Pop, AloneInv

\* The top of a lone context's stack is the binding in force, but for overruns
\* and excess pops.
THEOREM TopInForceThm == Alone /\ Spec => []TopInForce
<1>. SUFFICES ASSUME Alone PROVE Spec => []TopInForce
  OBVIOUS
<1>1. Init => AloneInv
  BY AloneInit
<1>2. AloneInv /\ [Next]_vars => AloneInv'
  BY AloneNext
<1>3. AloneInv => TopInForce
  BY DEF AloneInv
<1>. QED  BY <1>1, <1>2, <1>3, PTL DEF Spec

(***************************************************************************)
(* The refinement.  A context that is not live holds nothing.              *)
(***************************************************************************)
DeadIsEmpty == \A c \in Ctx : ~ctx[c].live => ctx[c].bstack = <<>>

\* Every step leaves a context that was freed without a stack.
LEMMA DeadIsEmptyNext == TypeOK /\ DeadIsEmpty /\ [Next]_vars => DeadIsEmpty'
<1>. SUFFICES ASSUME TypeOK, DeadIsEmpty, [Next]_vars PROVE DeadIsEmpty'
  OBVIOUS
<1>. USE DEF DeadIsEmpty, TypeOK
<1>1. ASSUME NEW c \in Ctx, NEW noMT \in CreateFlags, Create(c, noMT) PROVE DeadIsEmpty'
  BY <1>1 DEF Create
<1>2. ASSUME NEW c \in Ctx, Free(c) PROVE DeadIsEmpty'
  BY <1>2 DEF Free, NoContext
<1>3. ASSUME NEW c \in Ctx, NEW s, ctx[c].live, SetStack(c, s) PROVE DeadIsEmpty'
  BY <1>3 DEF SetStack
<1>4. ASSUME ctx' = ctx PROVE DeadIsEmpty'
  BY <1>4
<1>5. ASSUME NEW c \in Ctx, NEW r \in Requests, Push(c, r) PROVE DeadIsEmpty'
  BY <1>3, <1>4, <1>5 DEF Push, PushRejected, PushRefused, PushDone, PushOverrun, Rebinds
<1>6. ASSUME NEW c \in Ctx, Pop(c) PROVE DeadIsEmpty'
  BY <1>3, <1>4, <1>6 DEF Pop, PopEmpty, PopLast, PopRefused, PopDone, DropTop
<1>7. CASE UNCHANGED vars
  BY <1>4, <1>7 DEF vars
<1>. QED  BY <1>1, <1>2, <1>5, <1>6, <1>7 DEF Next

\* Popping a stack of one entry empties it.
LEMMA FrontOfSingle == ASSUME NEW x PROVE Front(<<x>>) = <<>>
<1>1. <<x>> \in Seq({x}) /\ Len(<<x>>) = 1
  OBVIOUS
<1>2. <<x>> # <<>>
  OBVIOUS
<1>3. Front(<<x>>) \in Seq({x}) /\ Len(Front(<<x>>)) = Len(<<x>>) - 1
  BY <1>1, <1>2, FrontOfSeq
<1>. QED  BY <1>1, <1>3, EmptySeq

\* A pop undoes a push.
LEMMA FrontOfAppend ==
    ASSUME NEW S, NEW s \in Seq(S), NEW x \in S
    PROVE  Front(Append(s, x)) = s /\ Append(s, x) # <<>>
<1>. DEFINE t == Append(s, x)
<1>1. /\ t \in Seq(S) /\ Len(t) = Len(s) + 1 /\ t # <<>> /\ Len(s) \in Nat
      /\ \A i \in 1 .. Len(s) : t[i] = s[i]
  BY AppendProperties, LenProperties
<1>. HIDE DEF t
<1>2. /\ Front(t) \in Seq(S) /\ Len(Front(t)) = Len(t) - 1
      /\ \A i \in 1 .. Len(t) - 1 : Front(t)[i] = t[i]
  BY <1>1, FrontOfSeq
<1>3. Len(Front(t)) = Len(s) /\ \A i \in 1 .. Len(s) : Front(t)[i] = s[i]
  BY <1>1, <1>2
<1>4. Front(t) = s
  BY <1>2, <1>3, SeqEqual
<1>. QED  BY <1>1, <1>4 DEF t

\* A stack is its top put on the rest.
LEMMA AppendLast ==
    ASSUME NEW S, NEW s \in Seq(S), s # <<>>
    PROVE  s = Append(Front(s), Last(s))
<1>1. PICK f \in Seq(S), x \in S : s = Append(f, x)
  BY SequenceEmptyOrAppend
<1>2. Front(s) = f
  BY <1>1, FrontOfAppend
<1>3. Last(s) = x
  <2>1. Len(s) = Len(f) + 1 /\ s[Len(f) + 1] = x
    BY <1>1, AppendProperties
  <2>. QED  BY <2>1 DEF Last
<1>. QED  BY <1>1, <1>2, <1>3

\* A push of a lone context enters its scope, or anchors it anew after an
\* excess pop.
LEMMA PushEnters ==
    ASSUME AloneInv, Alone, TypeOK', NEW c \in Ctx, NEW r \in Requests, PushDone(c, r)
    PROVE  Scope!Next
<1>. DEFINE s == ctx[c].bstack
            t == Append(s, os')
<1>0. c = TheContext
  BY DEF Alone
<1>1. s \in Seq(Bindings) /\ os' \in Bindings /\ ctx'[c].bstack = t
  BY AlonePushDone DEF AloneInv, RecordedBindable, TypeOK
<1>2. Front(t) = s /\ t # <<>>
  BY <1>1, FrontOfAppend
<1>3. TheStack = s /\ TheStack' = t
  BY <1>0, <1>1 DEF TheStack
<1>4. CASE s = <<>>
  <2>1. Scope!Reanchor(os')
    BY <1>2, <1>3, <1>4 DEF Scope!Reanchor
  <2>. QED  BY <1>1, <2>1 DEF Scope!Next
<1>5. CASE s # <<>>
  <2>1. ~(Len(s) >= BIND_STACK_SIZE)
    BY DEF PushDone, Full
  <2>2. Last(s) = os
    BY <1>5, <2>1 DEF AloneInv, TopInForce, Full
  <2>3. t = Append(s, os') /\ s = Append(Front(s), os)
    BY <1>1, <1>5, <2>2, AppendLast
  <2>4. Len(Front(s)) + 1 < BIND_STACK_SIZE
    <3>1. Len(Front(s)) = Len(s) - 1 /\ Len(s) \in Nat
      BY <1>1, <1>5, FrontOfSeq
    <3>. HIDE DEF s
    <3>. QED  BY <2>1, <3>1, BindStackAssumption
  <2>5. Scope!Enter(os')
    BY <1>2, <1>3, <1>5, <2>3, <2>4 DEF Scope!Enter
  <2>. QED  BY <1>1, <2>5 DEF Scope!Next
<1>. QED  BY <1>4, <1>5

\* The initial states map to initial states.
LEMMA ScopeInit == Alone /\ Init => Scope!Init
<1>. SUFFICES ASSUME Alone, Init PROVE Scope!Init
  OBVIOUS
<1>1. TheContext \in Ctx
  BY DEF Alone
<1>2. TheStack = <<>>
  BY <1>1 DEF Init, NoContext, TheStack
<1>3. os \in Bindings
  BY InitTyped DEF TypeOK
<1>. QED  BY <1>2, <1>3 DEF Scope!Init

\* Every step maps to a step or to a stutter.
LEMMA ScopeNext ==
    Alone /\ AloneInv /\ AloneInv' /\ DeadIsEmpty /\ [Next]_vars => [Scope!Next]_(Scope!vars)
<1>. SUFFICES ASSUME Alone, AloneInv, AloneInv', DeadIsEmpty, [Next]_vars
              PROVE  [Scope!Next]_(Scope!vars)
  OBVIOUS
<1>0. TypeOK /\ TypeOK'
  BY DEF AloneInv
<1>00. ASSUME os' = os, ctx' = ctx PROVE UNCHANGED Scope!vars
  BY <1>00 DEF Scope!vars, TheStack
<1>1. ASSUME NEW c \in Ctx, NEW noMT \in CreateFlags, Create(c, noMT) PROVE Scope!Next
  <2>. DEFINE b == VisibleBinding(TopoOf(noMT), os)
  <2>1. c = TheContext
    BY DEF Alone
  <2>2. TheStack = <<>> /\ TheStack' = <<b>> /\ os' = os
    BY <1>0, <1>1, <2>1 DEF Create, TheStack, DeadIsEmpty, TypeOK
  <2>3. Front(<<b>>) = <<>> /\ <<b>> # <<>>
    BY FrontOfSingle
  <2>. HIDE DEF b
  <2>4. Scope!Open
    BY <2>2, <2>3 DEF Scope!Open
  <2>. QED  BY <2>4 DEF Scope!Next
<1>2. ASSUME NEW c \in Ctx, Free(c) PROVE Scope!Next
  <2>1. TheStack' = <<>> /\ os' = os
    BY <1>0, <1>2 DEF Alone, Free, NoContext, TheStack, TypeOK
  <2>2. Scope!Close
    BY <2>1 DEF Scope!Close
  <2>. QED  BY <2>2 DEF Scope!Next
<1>3. ASSUME NEW c \in Ctx, NEW r \in Requests, PushDone(c, r) PROVE Scope!Next
  BY <1>0, <1>3, PushEnters
<1>4. ASSUME NEW c \in Ctx, NEW r \in Requests, PushOverrun(c, r) PROVE Scope!Next
  <2>. DEFINE s == ctx[c].bstack
  <2>1. c = TheContext /\ os' \in Bindings /\ s \in Seq(Bindings)
    BY <1>0 DEF Alone, TypeOK, AloneInv, RecordedBindable
  <2>2. TheStack = s /\ ctx' = ctx
    BY <1>4, <2>1 DEF PushOverrun, TheStack
  <2>3. Len(s) = BIND_STACK_SIZE /\ s # <<>>
    <3>1. Len(s) \in Nat
      BY <2>1, LenProperties
    <3>2. Len(s) = BIND_STACK_SIZE
      BY <1>0, <1>4, <3>1, BindStackAssumption DEF PushOverrun, Full, TypeOK
    <3>3. s # <<>>
      <4>. SUFFICES ASSUME s = <<>> PROVE FALSE
        OBVIOUS
      <4>1. Len(s) = 0
        BY EmptySeq
      <4>. QED  BY <3>2, <4>1, BindStackAssumption
    <3>. QED  BY <3>2, <3>3
  <2>4. Len(Front(s)) + 1 = BIND_STACK_SIZE
    <3>1. Len(Front(s)) = Len(s) - 1
      BY <2>1, <2>3, FrontOfSeq
    <3>. HIDE DEF s
    <3>. QED  BY <2>3, <3>1, BindStackAssumption
  <2>5. TheStack' = TheStack
    BY <2>2 DEF TheStack
  <2>6. Scope!Overrun(os')
    BY <2>2, <2>3, <2>4, <2>5 DEF Scope!Overrun
  <2>. QED  BY <2>1, <2>6 DEF Scope!Next
<1>5. ASSUME NEW c \in Ctx, NEW r \in Requests, PushRejected(c, r) \/ PushRefused(c, r)
      PROVE  UNCHANGED Scope!vars
  BY <1>00, <1>5 DEF PushRejected, PushRefused
<1>6. ASSUME NEW c \in Ctx, PopEmpty(c) PROVE UNCHANGED Scope!vars
  BY <1>00, <1>6 DEF PopEmpty
<1>7. ASSUME NEW c \in Ctx, PopLast(c) PROVE Scope!Next
  <2>. DEFINE s == ctx[c].bstack
  <2>1. c = TheContext /\ s \in Seq(Bindings) /\ Len(s) = 1
    BY <1>7 DEF Alone, AloneInv, RecordedBindable, PopLast
  <2>2. Front(s) = <<>>
    <3>1. s # <<>>
      <4>. SUFFICES ASSUME s = <<>> PROVE FALSE
        OBVIOUS
      <4>1. Len(s) = 0
        BY EmptySeq
      <4>. QED  BY <2>1, <4>1
    <3>2. Front(s) \in Seq(Bindings) /\ Len(Front(s)) = 0
      BY <2>1, <3>1, FrontOfSeq
    <3>. QED  BY <3>2, EmptySeq
  <2>3. TheStack' = <<>> /\ os' = os /\ TheStack = s
    BY <1>0, <1>7, <2>1, <2>2 DEF PopLast, DropTop, SetStack, TheStack, TypeOK
  <2>4. Scope!LoseAnchor
    BY <2>2, <2>3 DEF Scope!LoseAnchor
  <2>. QED  BY <2>4 DEF Scope!Next
<1>8. ASSUME NEW c \in Ctx, ctx[c].live, PopRefused(c) PROVE FALSE
  BY <1>8, AlonePop DEF PopRefused, Alone
<1>9. ASSUME NEW c \in Ctx, ctx[c].live, PopDone(c) PROVE Scope!Next
  <2>. DEFINE s == ctx[c].bstack
  <2>1. c = TheContext /\ Front(s) # <<>>
    BY <1>9, AlonePop DEF Alone, PopDone
  <2>2. TheStack = s /\ TheStack' = Front(s) /\ os' = Last(Front(s))
    BY <1>0, <1>9, <2>1 DEF PopDone, PreviousTop, DropTop, SetStack, TheStack, TypeOK
  <2>3. s # <<>>
    <3>. SUFFICES ASSUME s = <<>> PROVE FALSE
      OBVIOUS
    <3>1. Len(s) = 0
      BY EmptySeq
    <3>. QED  BY <1>9, <3>1 DEF PopDone
  <2>4. Scope!Leave
    <3>1. /\ Scope!Front(Front(s)) = Front(Front(s))
          /\ Scope!Last(Front(s)) = Last(Front(s))
      BY DEF Scope!Front, Scope!Last, Front, Last
    <3>. HIDE DEF s
    <3>. QED  BY <2>1, <2>2, <2>3, <3>1 DEF Scope!Leave
  <2>. QED  BY <2>4 DEF Scope!Next
<1>10. CASE UNCHANGED vars
  BY <1>00, <1>10 DEF vars
<1>. QED
  BY <1>1, <1>2, <1>3, <1>4, <1>5, <1>6, <1>7, <1>8, <1>9, <1>10 DEF Next, Push, Pop

\* The bind stack of a lone context implements the scope of BindScope: whatever
\* the node, the stack size and the requests, its pushes and pops nest.
THEOREM KeepsScopeThm == Alone /\ Spec => KeepsScope
<1>. SUFFICES ASSUME Alone PROVE Spec => KeepsScope
  OBVIOUS
<1>1. Init => AloneInv /\ DeadIsEmpty /\ Scope!Init
  BY AloneInit, ScopeInit DEF Init, NoContext, DeadIsEmpty
<1>2. AloneInv /\ DeadIsEmpty /\ [Next]_vars =>
        AloneInv' /\ DeadIsEmpty' /\ [Scope!Next]_(Scope!vars)
  BY AloneNext, DeadIsEmptyNext, ScopeNext DEF AloneInv
<1>. QED  BY <1>1, <1>2, PTL DEF Spec, KeepsScope, Scope!Spec
===============================================================================
