------------------------------- MODULE AutoDistrib -------------------------------
(***************************************************************************)
(* QUO_auto_distrib (quo-auto-distrib.c): the processes of one node agree  *)
(* on who works.  Node rank 0 reads everybody's affinity, publishes what   *)
(* it saw in a shared-memory segment, and every rank decides for itself    *)
(* from its copy.  Three barriers and two broadcasts order the steps.      *)
(*                                                                         *)
(* Abstractions: every rank makes the same sequence of calls (they are     *)
(* collective), with the contexts created without flags; MPI and memory    *)
(* allocation do not fail; a broadcast does not wait for its receivers.    *)
(* A rank's bind pushes and pops are one action that sets its affinity.    *)
(* Lists of ranks are sets: the code keeps them sorted.                    *)
(***************************************************************************)
EXTENDS Topology

CONSTANTS
    N,          \* how many processes share the node
    Affinities, \* the bindings that the ranks give themselves
    Calls,      \* the arguments [type, max] of the successive calls
    Failing     \* the steps that may fail: a subset of FailureKinds

\* Making up the path, querying a rank's affinity, opening the segment's file,
\* mapping it once opened, and attaching to it.
FailureKinds == {"path", "query", "open", "map", "attach"}

ASSUME AutoDistribAssumption ==
    /\ N \in Nat \ {0}
    /\ Affinities \subseteq (SUBSET PU) \ {{}}
    /\ Calls \in Seq([type : STRING, max : Nat \ {0}])
    /\ Failing \subseteq FailureKinds

Rank == 0 .. N - 1
Others == Rank \ {0}

VARIABLES
    bind,     \* rank -> its affinity
    pc,       \* rank -> where it is, "app" outside the call
    call,     \* rank -> how many calls it has begun
    waiting,  \* the ranks blocked in the node's barrier
    chan,     \* rank -> the broadcasts of rank 0 it has not received yet
    queried,  \* how many affinity queries rank 0 has made in its call
    table,    \* rank -> resource -> the ranks that cover it
    path,     \* rank -> the call of rank 0 whose segment it was told of
    linked,   \* the segments that have a file, named by the call of rank 0
    segment,  \* call of rank 0 -> what its segment holds
    entered,  \* history: rank -> its affinity at each call
    answer    \* history: rank -> what each call returned

vars == <<bind, pc, call, waiting, chan, queried, table, path, linked, segment,
          entered, answer>>

(***************************************************************************)
(* The resources of a call and the table of ranks over them.               *)
(***************************************************************************)
Type(k) == Calls[k].type
Resource(k) == IF KnownType(Type(k)) THEN 1 .. NObjs(Levels, Type(k)) ELSE {}

EmptyTable(k) == [res \in Resource(k) |-> {}]
NoTable == <<>>

\* The affinities that reach a resource (quo_hwloc_is_in_cpuset_by_type_id).
Reaching ==
    [k \in DOMAIN Calls |-> [res \in Resource(k) |->
        {b \in Affinities : InCpuset(Levels, Type(k), res - 1, VisibleBinding(Levels, b))}]]

Covers(k, res, affinity) == affinity \in Reaching[k][res]

(***************************************************************************)
(* The decision of one rank.  lists is a table; shared are the ranks in    *)
(* two of its lists (KSetIntersection).                                    *)
(***************************************************************************)
SharedRanks(lists) ==
    {x \in Rank : \E a, b \in DOMAIN lists : a # b /\ x \in lists[a] \cap lists[b]}

\* Mutant: the first rank of a list does not count.
OneMoreAmong(max, r, set) == r \in set /\ Cardinality({x \in set : x < r}) <= max

\* r is one of the first max members of a list.
FirstAmong(max, r, set) == r \in set /\ Cardinality({x \in set : x < r}) < max

Selected(k, r, lists) ==
    LET max == Calls[k].max
        shared == SharedRanks(lists)
    IN  \/ /\ shared # Rank
           /\ \E res \in DOMAIN lists : FirstAmong(max, r, lists[res] \ shared)
        \/ /\ shared = Rank
           /\ r < max * Cardinality(DOMAIN lists)

(***************************************************************************)
(* Init and the application's side                                         *)
(***************************************************************************)
Init ==
    /\ bind \in [Rank -> Affinities]
    /\ pc = [r \in Rank |-> "app"]
    /\ call = [r \in Rank |-> 0]
    /\ waiting = {}
    /\ chan = [r \in Others |-> <<>>]
    /\ queried = 0
    /\ table = [r \in Rank |-> NoTable]
    /\ path = [r \in Rank |-> 0]
    /\ linked = {}
    /\ segment = [k \in DOMAIN Calls |-> NoTable]
    /\ entered = [r \in Rank |-> <<>>]
    /\ answer = [r \in Rank |-> <<>>]

Goto(r, label) == pc' = [pc EXCEPT ![r] = label]

Return(r, result) ==
    /\ Goto(r, "app")
    /\ answer' = [answer EXCEPT ![r] = Append(@, result)]

\* QUO_bind_push and QUO_bind_pop, between two calls.
Rebind(r, b) ==
    /\ pc[r] = "app"
    /\ bind' = [bind EXCEPT ![r] = b]
    /\ UNCHANGED <<pc, call, waiting, chan, queried, table, path, linked, segment,
                   entered, answer>>

\* Mutant: no barrier before the affinities are read.
CallUnguarded(r) ==
    /\ pc[r] = "app"
    /\ call[r] < Len(Calls)
    /\ Goto(r, "measure")
    /\ call' = [call EXCEPT ![r] = @ + 1]
    /\ entered' = [entered EXCEPT ![r] = Append(@, bind[r])]
    /\ UNCHANGED <<bind, waiting, chan, queried, table, path, linked, segment, answer>>

Call(r) ==
    /\ pc[r] = "app"
    /\ call[r] < Len(Calls)
    /\ Goto(r, "start")
    /\ call' = [call EXCEPT ![r] = @ + 1]
    /\ entered' = [entered EXCEPT ![r] = Append(@, bind[r])]
    /\ UNCHANGED <<bind, waiting, chan, queried, table, path, linked, segment, answer>>

(***************************************************************************)
(* quo_mpi_sm_barrier: a process-shared pthread barrier for all the ranks. *)
(* It does not know which of the three barriers of a call it serves.       *)
(***************************************************************************)
\* Mutant: rank 0 does not wait for the others to attach.
BeyondUnsignalled ==
    [start     |-> "measure",
     published |-> "unlink",
     sized     |-> "attach", mapped |-> "copy"]

\* Where a rank goes on after the barrier it waits at.
Beyond ==
    [start     |-> "measure",
     published |-> "collect", collect |-> "unlink",     \* rank 0
     sized     |-> "attach",  mapped  |-> "copy"]       \* the others

\* Mutant: the last to arrive waits like the others.
ArriveForEver(r) ==
    /\ pc[r] \in DOMAIN Beyond
    /\ r \notin waiting
    /\ waiting' = waiting \cup {r}
    /\ UNCHANGED <<pc, bind, call, chan, queried, table, path, linked, segment,
                   entered, answer>>

Arrive(r) ==
    /\ pc[r] \in DOMAIN Beyond
    /\ r \notin waiting
    /\ IF waiting \cup {r} = Rank
       THEN /\ waiting' = {}
            /\ pc' = [q \in Rank |-> Beyond[pc[q]]]
       ELSE /\ waiting' = waiting \cup {r}
            /\ UNCHANGED pc
    /\ UNCHANGED <<bind, call, chan, queried, table, path, linked, segment,
                   entered, answer>>

\* QUO_nobjs_by_type, by every rank on its own topology.
Measure(r) ==
    /\ pc[r] = "measure"
    /\ IF Resource(call[r]) = {}
       THEN /\ Return(r, IF KnownType(Type(call[r])) THEN "NOT_FOUND" ELSE "INVLD_ARG")
            /\ UNCHANGED table
       ELSE /\ Goto(r, "path")
            /\ table' = [table EXCEPT ![r] = EmptyTable(call[r])]
            /\ UNCHANGED answer
    /\ UNCHANGED <<bind, call, waiting, chan, queried, path, linked, segment, entered>>

(***************************************************************************)
(* quo_mpi_xchange_uniq_path: rank 0 broadcasts the name of the segment,   *)
(* or that it has none, which makes every rank fail alike.                 *)
(***************************************************************************)
Broadcast(msg) == chan' = [r \in Others |-> Append(chan[r], msg)]

NoPath == [what |-> "path", segment |-> 0]

SharePath ==
    /\ pc[0] = "path"
    /\ Goto(0, "query")
    /\ queried' = 0
    /\ Broadcast([what |-> "path", segment |-> call[0]])
    /\ UNCHANGED <<bind, call, waiting, table, path, linked, segment, entered, answer>>

\* Mutant: rank 0 keeps its failure to itself.
PathFailureUntold ==
    /\ pc[0] = "path"
    /\ "path" \in Failing
    /\ Return(0, "NO_PATH")
    /\ UNCHANGED <<bind, call, waiting, chan, queried, table, path, linked, segment, entered>>

SharePathFailure ==
    /\ pc[0] = "path"
    /\ "path" \in Failing
    /\ Broadcast(NoPath)
    /\ Return(0, "NO_PATH")
    /\ UNCHANGED <<bind, call, waiting, queried, table, path, linked, segment, entered>>

Received(r, what) == r \in Others /\ chan[r] # <<>> /\ Head(chan[r]).what = what

Receive(r) == chan' = [chan EXCEPT ![r] = Tail(@)]

GetPath(r) ==
    /\ pc[r] = "path"
    /\ Received(r, "path")
    /\ Receive(r)
    /\ IF Head(chan[r]) = NoPath
       THEN Return(r, "NO_PATH") /\ UNCHANGED path
       ELSE /\ Goto(r, "length")
            /\ path' = [path EXCEPT ![r] = Head(chan[r]).segment]
            /\ UNCHANGED answer
    /\ UNCHANGED <<bind, call, waiting, queried, table, linked, segment, entered>>

(***************************************************************************)
(* Rank 0: QUO_qids_in_type of every resource, each of them a loop over    *)
(* the ranks that asks the operating system for one affinity at a time.    *)
(***************************************************************************)
QueryOf(n) == [res |-> n \div N + 1, rank |-> n % N]

Query ==
    LET q == QueryOf(queried)
    IN  /\ pc[0] = "query"
        /\ queried < N * Cardinality(Resource(call[0]))
        /\ queried' = queried + 1
        /\ table' = [table EXCEPT ![0][q.res] =
                        IF Covers(call[0], q.res, bind[q.rank]) THEN @ \cup {q.rank} ELSE @]
        /\ UNCHANGED <<bind, pc, call, waiting, chan, path, linked, segment, entered, answer>>

QueryFailure ==
    /\ pc[0] = "query"
    /\ queried < N * Cardinality(Resource(call[0]))
    /\ "query" \in Failing
    /\ Return(0, "ERR")
    /\ UNCHANGED <<bind, call, waiting, chan, queried, table, path, linked, segment, entered>>

\* The broadcast of the segment's length, once everything is known.
ShareLength ==
    /\ pc[0] = "query"
    /\ queried = N * Cardinality(Resource(call[0]))
    /\ Goto(0, "create")
    /\ Broadcast([what |-> "length", segment |-> call[0]])
    /\ UNCHANGED <<bind, call, waiting, queried, table, path, linked, segment, entered, answer>>

GetLength(r) ==
    /\ pc[r] = "length"
    /\ Received(r, "length")
    /\ Receive(r)
    /\ Goto(r, "sized")
    /\ UNCHANGED <<bind, call, waiting, queried, table, path, linked, segment, entered, answer>>

(***************************************************************************)
(* The segment.  Its file is zeros until rank 0 writes, which reads as a   *)
(* table of empty lists.                                                   *)
(***************************************************************************)
Create ==
    /\ pc[0] = "create"
    /\ Goto(0, "fill")
    /\ linked' = linked \cup {call[0]}
    /\ segment' = [segment EXCEPT ![call[0]] = EmptyTable(call[0])]
    /\ UNCHANGED <<bind, call, waiting, chan, queried, table, path, entered, answer>>

OpenFailure ==
    /\ pc[0] = "create"
    /\ "open" \in Failing
    /\ Return(0, "ERR")
    /\ UNCHANGED <<bind, call, waiting, chan, queried, table, path, linked, segment, entered>>

\* The file stays.
MapFailure ==
    /\ pc[0] = "create"
    /\ "map" \in Failing
    /\ Return(0, "ERR")
    /\ linked' = linked \cup {call[0]}
    /\ segment' = [segment EXCEPT ![call[0]] = EmptyTable(call[0])]
    /\ UNCHANGED <<bind, call, waiting, chan, queried, table, path, entered>>

Fill ==
    /\ pc[0] = "fill"
    /\ Goto(0, "published")
    /\ segment' = [segment EXCEPT ![call[0]] = table[0]]
    /\ UNCHANGED <<bind, call, waiting, chan, queried, table, path, linked, entered, answer>>

\* Mutant: the file outlives the call.
KeepLinked ==
    /\ pc[0] = "unlink"
    /\ Goto(0, "choose")
    /\ UNCHANGED <<bind, call, waiting, chan, queried, table, path, linked, segment,
                   entered, answer>>

Unlink ==
    /\ pc[0] = "unlink"
    /\ Goto(0, "choose")
    /\ linked' = linked \ {call[0]}
    /\ UNCHANGED <<bind, call, waiting, chan, queried, table, path, segment, entered, answer>>

\* Mutant: the barrier after the attach is forgotten.
AttachSilently(r) ==
    /\ pc[r] = "attach"
    /\ path[r] \in linked
    /\ Goto(r, "copy")
    /\ UNCHANGED <<bind, call, waiting, chan, queried, table, path, linked, segment,
                   entered, answer>>

Attach(r) ==
    /\ pc[r] = "attach"
    /\ path[r] \in linked
    /\ Goto(r, "mapped")
    /\ UNCHANGED <<bind, call, waiting, chan, queried, table, path, linked, segment,
                   entered, answer>>

AttachFailure(r) ==
    /\ pc[r] = "attach"
    /\ path[r] \notin linked \/ "attach" \in Failing
    /\ Return(r, "ERR")
    /\ UNCHANGED <<bind, call, waiting, chan, queried, table, path, linked, segment, entered>>

Copy(r) ==
    /\ pc[r] = "copy"
    /\ Goto(r, "choose")
    /\ table' = [table EXCEPT ![r] = segment[path[r]]]
    /\ UNCHANGED <<bind, call, waiting, chan, queried, path, linked, segment, entered, answer>>

\* The decision; the table is freed.
Choose(r) ==
    /\ pc[r] = "choose"
    /\ Return(r, IF Selected(call[r], r, table[r]) THEN "selected" ELSE "not selected")
    /\ table' = [table EXCEPT ![r] = NoTable]
    /\ UNCHANGED <<bind, call, waiting, chan, queried, path, linked, segment, entered>>

RootStep ==
    SharePath \/ SharePathFailure \/ Query \/ QueryFailure \/ ShareLength
        \/ Create \/ OpenFailure \/ MapFailure \/ Fill \/ Unlink

OtherStep(r) == GetPath(r) \/ GetLength(r) \/ Attach(r) \/ AttachFailure(r) \/ Copy(r)

LibraryStep(r) ==
    \/ Arrive(r) \/ Measure(r) \/ OtherStep(r) \/ Choose(r)
    \/ r = 0 /\ RootStep

Next ==
    \E r \in Rank :
        \/ \E b \in Affinities : Rebind(r, b)
        \/ Call(r)
        \/ LibraryStep(r)

\* A rank inside the call keeps running, and every rank makes all the calls.
Fairness == \A r \in Rank : WF_vars(LibraryStep(r)) /\ WF_vars(Call(r))

Spec == Init /\ [][Next]_vars /\ Fairness

(***************************************************************************)
(* Properties                                                              *)
(***************************************************************************)
Message == [what : {"path", "length"}, segment : 0 .. Len(Calls)]

Label == {"app", "measure", "path", "query", "length", "create", "fill", "unlink",
          "attach", "copy", "choose"} \cup DOMAIN Beyond

\* NO_PATH stands for the code that rank 0 broadcasts instead of a path, ERR
\* for the failure of one rank alone.
Result == {"selected", "not selected", "NOT_FOUND", "INVLD_ARG", "NO_PATH", "ERR"}

Tables == {NoTable} \cup UNION {[Resource(k) -> SUBSET Rank] : k \in DOMAIN Calls}

\* The barrier never holds all the ranks.
TypeOK ==
    /\ bind \in [Rank -> Affinities]
    /\ pc \in [Rank -> Label]
    /\ call \in [Rank -> 0 .. Len(Calls)]
    /\ waiting \in (SUBSET Rank) \ {Rank}
    /\ chan \in [Others -> Seq(Message)]
    /\ queried \in Nat /\ (pc[0] = "query" => queried <= N * Cardinality(Resource(call[0])))
    /\ table \in [Rank -> Tables]
    /\ path \in [Rank -> 0 .. Len(Calls)]
    /\ linked \subseteq DOMAIN Calls
    /\ segment \in [DOMAIN Calls -> Tables]
    /\ entered \in [Rank -> Seq(Affinities)]
    /\ answer \in [Rank -> Seq(Result)]

\* Who covered what when each rank entered its k-th call.
TableOf(k) ==
    [res \in Resource(k) |->
        {x \in Rank : Len(entered[x]) >= k /\ Covers(k, res, entered[x][k])}]

\* Every rank decides from the affinities that all the ranks of the node had
\* when they entered this very call: "First barrier to avoid race conditions
\* between this call and others (e.g., QUO_bind_push() or QUO_bind_pop()) that
\* change binding" (quo-auto-distrib.c).  A fast rank that is already rebinding
\* itself, or in its next call, disturbs nobody's table.
Snapshot ==
    \A r \in Rank :
        pc[r] = "choose" => /\ \A x \in Rank : call[x] >= call[r]
                            /\ table[r] = TableOf(call[r])

\* Ranks that wait in the barrier together wait for the same barrier of the
\* same call.
Phase ==
    [start |-> 1, published |-> 2, sized |-> 2, collect |-> 3, mapped |-> 3]

SamePhase ==
    \A q, r \in waiting : call[q] = call[r] /\ Phase[pc[q]] = Phase[pc[r]]

\* No rank looks for a segment that is not there, or not filled in, yet or any more.
AttachesToPublished ==
    \A r \in Rank :
        pc[r] = "attach" => path[r] \in linked /\ segment[path[r]] = table[0]

\* Every call publishes its table as Publish promises: the segment is made and
\* filled, then mapped by all the others, then unlinked.
Stage(k) ==
    CASE k \in linked /\ call[0] = k /\ pc[0] \in {"published", "collect", "unlink"}
            -> "complete"
      [] k \in linked /\ ~(call[0] = k /\ pc[0] \in {"published", "collect", "unlink"})
            -> "made"
      [] k \notin linked /\ segment[k] # NoTable -> "withdrawn"
      [] OTHER -> "none"

HasMapped(r, k) ==
    \/ call[r] = k /\ pc[r] \in {"mapped", "copy", "choose"}
    \/ k \in DOMAIN answer[r] /\ answer[r][k] \in {"selected", "not selected"}

Publication ==
    INSTANCE Publish WITH
        Segments  <- DOMAIN Calls,
        Processes <- Rank,
        readers   <- [k \in DOMAIN Calls |-> Others],
        stage     <- [k \in DOMAIN Calls |-> Stage(k)],
        mapped    <- [k \in DOMAIN Calls |-> {r \in Others : HasMapped(r, k)}]

Publishes == Publication!Spec

\* Between calls no segment has a file.
NothingLinked == (\A r \in Rank : pc[r] = "app") => linked = {}

Answered(k) ==
    \A r \in Rank : Len(answer[r]) >= k /\ answer[r][k] \in {"selected", "not selected"}

Chosen(k) == {r \in Rank : answer[r][k] = "selected"}

\* The decisions taken apart add up: unless every rank shares, each resource
\* has as many selected ranks as allowed among those that cover it alone, and
\* no rank that shares is selected.  When every rank shares, as many are
\* selected as the resources could take.
DecisionsAddUp ==
    \A k \in DOMAIN Calls :
        Answered(k) =>
            LET lists == TableOf(k)
                shared == SharedRanks(lists)
                max == Calls[k].max
            IN  IF shared = Rank
                THEN Cardinality(Chosen(k)) = Min({N, max * Cardinality(Resource(k))})
                ELSE /\ Chosen(k) \cap shared = {}
                     /\ Chosen(k) \subseteq UNION Range(lists)
                     /\ \A res \in Resource(k) :
                            Cardinality(Chosen(k) \cap lists[res])
                                = Min({max, Cardinality(lists[res] \ shared)})

\* A rank that fails alone, while the others do not learn of it.
FailedAlone == \E r \in Rank : "ERR" \in Range(answer[r])

Uniform == {"NOT_FOUND", "INVLD_ARG", "NO_PATH"}

\* A failure that rank 0 can announce, or that every rank meets by itself, is
\* everybody's result, and it spoils nothing for the next call: until a rank
\* fails alone, calls return to all, with one result, from one snapshot.
AgreeUntilFailure ==
    \/ FailedAlone
    \/ /\ Snapshot
       /\ \A q, r \in Rank : \A k \in DOMAIN answer[q] \cap DOMAIN answer[r] :
              answer[q][k] \in Uniform => answer[r][k] = answer[q][k]

\* Nobody is left behind in a barrier or a broadcast, unless a rank failed alone.
ReturnUntilFailure == \A r \in Rank : pc[r] # "app" ~> pc[r] = "app" \/ FailedAlone

\* What quo.h says of QUO_auto_distrib: "The total number of processes assigned
\* to a particular resource will not exceed max_qids_per_res_type."  In the
\* reading that is kindest to the code, the selected ranks can be assigned, each
\* to a resource that it covers, within that limit: for no set of resources
\* are there too many selected ranks that cover nothing else.
WithinMax ==
    \A k \in DOMAIN Calls :
        Answered(k) =>
            \A some \in SUBSET Resource(k) :
                Cardinality({r \in Chosen(k) :
                                {res \in Resource(k) : r \in TableOf(k)[res]} \subseteq some})
                    <= Calls[k].max * Cardinality(some)
===============================================================================
