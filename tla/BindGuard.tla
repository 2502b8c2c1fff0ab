------------------------------- MODULE BindGuard -------------------------------
(***************************************************************************)
(* The C++ side of the bind stacks (cxx/BindGuard.hpp, cxx/Context.cpp): a *)
(* guard pushes when it is constructed and pops when its scope is left.    *)
(* A call that does not succeed becomes an exception: out of the           *)
(* constructor it means that there is no guard, out of the destructor,     *)
(* which is implicitly noexcept, it ends the process.                      *)
(*                                                                         *)
(* Abstractions: scopes nest, a context outlives the guards that refer to  *)
(* it, and guards are not copied.                                          *)
(***************************************************************************)
EXTENDS BindStack

VARIABLES
    scoped,      \* the contexts that the application uses through guards alone
    guards,      \* context -> the masks before the guards now alive, innermost last
    terminated,  \* std::terminate() was called
    found        \* history: context -> the mask as the context found it

guardVars == <<scoped, guards, terminated, found>>

GuardInit ==
    /\ Init
    /\ scoped \in SUBSET Ctx
    /\ guards = [c \in Ctx |-> <<>>]
    /\ terminated = FALSE
    /\ found = [c \in Ctx |-> {}]

\* Context::Context(): QUO_create, without flags.
Construct(c, noMT) ==
    /\ c \in scoped => ~noMT
    /\ Create(c, noMT)
    /\ found' = [found EXCEPT ![c] = VisibleBinding(TopoOf(noMT), os)]
    /\ UNCHANGED <<scoped, guards, terminated>>

\* Context::~Context()
Destroy(c) ==
    /\ guards[c] = <<>>
    /\ Free(c)
    /\ UNCHANGED guardVars

\* map_to_quo() makes no unknown policy or type.
CxxRequests == {r \in Requests : r.policy \in {"PROVIDED", "OBJ"} /\ KnownType(r.type)}

\* Mutant: the constructor does not look at what push returned.
EnterUnchecked(c, r) ==
    /\ c \in scoped
    /\ Push(c, r)
    /\ guards' = [guards EXCEPT ![c] = Append(@, os)]
    /\ UNCHANGED <<scoped, terminated, found>>

\* BindGuard::BindGuard()
Enter(c, r) ==
    /\ c \in scoped
    /\ Push(c, r)
    /\ guards' = [guards EXCEPT ![c] = IF rc' = "SUCCESS" THEN Append(@, os) ELSE @]
    /\ UNCHANGED <<scoped, terminated, found>>

\* BindGuard::~BindGuard()
Exit(c) ==
    /\ guards[c] # <<>>
    /\ Pop(c)
    /\ guards' = [guards EXCEPT ![c] = Front(@)]
    /\ terminated' = (rc' # "SUCCESS")
    /\ UNCHANGED <<scoped, found>>

\* A library in the same process that uses its context through the C interface.
Plain(c) ==
    /\ c \notin scoped
    /\ (\E r \in Requests : Push(c, r)) \/ Pop(c)
    /\ UNCHANGED guardVars

GuardNext ==
    /\ ~terminated
    /\ \E c \in Ctx :
          \/ \E noMT \in CreateFlags : Construct(c, noMT)
          \/ Destroy(c)
          \/ \E r \in CxxRequests : Enter(c, r)
          \/ Exit(c)
          \/ Plain(c)

GuardSpec == GuardInit /\ [][GuardNext]_<<vars, guardVars>>

(***************************************************************************)
(* Properties                                                              *)
(***************************************************************************)
GuardTypeOK ==
    /\ scoped \subseteq Ctx
    /\ guards \in [Ctx -> Seq(Bindings)]
    /\ terminated \in BOOLEAN
    /\ found \in [Ctx -> SUBSET PU]

\* "makes sure that it is poped on scope exit" (BindGuard.hpp): every guard that
\* is alive has the stack entry that its constructor pushed, in the order of the
\* scopes, above the entry of the context itself, and there is no other entry: a
\* constructor that throws leaves none, full stacks and refusals included.
BalancedScopes ==
    \A c \in scoped : ~terminated /\ ctx[c].live =>
        /\ Len(ctx[c].bstack) = Len(guards[c]) + 1
        /\ ctx[c].bstack[1] = found[c]
        /\ guards[c] = [i \in DOMAIN undo[c] |-> undo[c][i].before]

\* The only reason for which a destructor ends the process is that the OS
\* refuses the binding to return to: it never pops what is not there, and what
\* it returns to is always a set that the process may be bound to.
TerminatesOnlyIfRefused ==
    [][terminated' =>
         rc' = "NOT_SUPPORTED" /\ \E c \in Ctx : Exit(c) /\ Bindable(Topo(c), PreviousTop(c))
      ]_<<vars, guardVars>>

\* Leaving the outermost scope of a context brings back the binding that the
\* context found when it was made, also after a constructor inside has thrown
\* with the binding already changed (QUO_ERR_OOR), and whatever other contexts
\* have bound the process to in between.
OutermostRestores ==
    [][\A c \in Ctx :
         (Len(guards[c]) = 1 /\ Exit(c) /\ ~terminated') => os' = found[c]
      ]_<<vars, guardVars>>

\* Guards do nothing that the C interface does not allow.
RefinesBindStack == Spec
===============================================================================
