------------------------------ MODULE CreateContext ------------------------------
(***************************************************************************)
(* QUO_create (quo.c) on all the processes of a communicator: they find    *)
(* out who shares a node with whom, set up a barrier in shared memory on   *)
(* every node (quo_mpi_init), and use it to hand the topology that node    *)
(* rank 0 loads to the others (quo_hwloc_init).                            *)
(*                                                                         *)
(* Abstractions: MPI and memory allocation do not fail; a broadcast does   *)
(* not wait for its receivers; all the ranks pass the same flags; a host   *)
(* is the number that its name resolves to; all hosts have the topology    *)
(* Levels; the initial push succeeds.  Ranks are the communicator's.       *)
(***************************************************************************)
EXTENDS Topology

CONSTANTS
    N,         \* how many processes create the context
    NetNums,   \* the hosts of the ranks: a set of functions from ranks
    Flags,     \* the values of QUO_CREATE_NO_MT
    Failing    \* the steps that may fail: a subset of FailureKinds

\* Resolving the host's name, making up a path, creating or initialising a
\* segment, attaching to it, loading or exporting the topology, importing it.
FailureKinds == {"netnum", "path", "segment", "attach", "load", "import"}

Rank == 0 .. N - 1

ASSUME CreateContextAssumption ==
    /\ N \in Nat \ {0}
    /\ NetNums \subseteq [Rank -> Nat]
    /\ Flags \subseteq BOOLEAN
    /\ Failing \subseteq FailureKinds

VARIABLES
    netnum,   \* rank -> the number of its host
    netnums,  \* those numbers in the order that qsort leaves them in
    noMT,     \* whether the context is created with QUO_CREATE_NO_MT
    pc,       \* rank -> where it is
    joined,   \* rank -> how many meetings of each kind it has come to
    color,    \* rank -> the color of its node, -1 before it is known
    node,     \* rank -> the ranks of its node, once they are known
    nnodes,   \* rank -> how many nodes there are, once it is known
    chan,     \* rank -> the broadcasts it has not received yet
    linked,   \* the segments that have a file: their purpose and owner
    bseg,     \* rank 0 of a node -> what the node's barrier is
    htopo,    \* rank 0 of a node -> the topology in the node's segment
    topo,     \* rank -> its topology
    result    \* rank -> what QUO_create returned

vars == <<netnum, netnums, noMT, pc, joined, color, node, nnodes, chan, linked, bseg,
          htopo, topo, result>>

fixed == <<netnum, netnums, noMT>>
groups == <<color, node, nnodes>>
memory == <<linked, bseg, htopo>>

NoTopology == <<>>

Leader(r) == Min(node[r])
Leads(r) == r = Leader(r)

(***************************************************************************)
(* get_my_color.  The comparison function truncates a difference of        *)
(* unsigned longs to an int, so the sorted numbers are in any order, the   *)
(* same on every rank.  The color is the number of runs of equal numbers   *)
(* before the first one that has the rank's own number.                    *)
(***************************************************************************)
Runs(nums) == {k \in DOMAIN nums : k = 1 \/ nums[k - 1] # nums[k]}

\* Mutant: the numbers are taken to be in the order of the ranks.
ColorInPlace(nums, r) == Cardinality({k \in Runs(nums) : k < r + 1})

\* Mutant: the run of the rank's own number counts too.
ColorWithOwnRun(nums, r) ==
    LET first == Min({k \in DOMAIN nums : nums[k] = netnum[r]})
    IN  Cardinality({k \in Runs(nums) : k <= first})

Color(nums, r) ==
    LET first == Min({k \in DOMAIN nums : nums[k] = netnum[r]})
    IN  Cardinality({k \in Runs(nums) : k < first})

Orders(numbers) ==
    {[k \in 1 .. N |-> numbers[rank[k]]] : rank \in Bijection(1 .. N, Rank)}

Init ==
    /\ netnum \in NetNums
    /\ netnums \in Orders(netnum)
    /\ noMT \in Flags
    /\ pc = [r \in Rank |-> "start"]
    /\ joined = [r \in Rank |-> [commchan |-> 0, smpcomm |-> 0, barrier |-> 0]]
    /\ color = [r \in Rank |-> -1]
    /\ node = [r \in Rank |-> {}]
    /\ nnodes = [r \in Rank |-> 0]
    /\ chan = [r \in Rank |-> <<>>]
    /\ linked = {}
    /\ bseg = [r \in Rank |-> "none"]
    /\ htopo = [r \in Rank |-> NoTopology]
    /\ topo = [r \in Rank |-> NoTopology]
    /\ result = [r \in Rank |-> "none"]

(***************************************************************************)
(* Meetings: the collective calls on the whole communicator, those on the  *)
(* node's communicator, and the shared-memory barrier.  A rank leaves its  *)
(* n-th meeting of a kind when all the members have come to n of them.     *)
(***************************************************************************)
Meeting ==
    [gather       |-> "commchan", split        |-> "commchan", reduce |-> "commchan",
     neighbours   |-> "smpcomm",  bseg_made    |-> "smpcomm",  bseg_mapped |-> "smpcomm",
     htopo_filled |-> "barrier",  htopo_mapped |-> "barrier"]

Goto(r, label) == pc' = [pc EXCEPT ![r] = label] /\ UNCHANGED joined

Join(r, label) ==
    /\ pc' = [pc EXCEPT ![r] = label]
    /\ joined' = [joined EXCEPT ![r][Meeting[label]] = @ + 1]

Met(r, label) ==
    LET kind == Meeting[label]
    IN  /\ pc[r] = label
        /\ \A q \in IF kind = "commchan" THEN Rank ELSE node[r] :
              joined[q][kind] >= joined[r][kind]

Return(r, rc) ==
    /\ Goto(r, "done")
    /\ result' = [result EXCEPT ![r] = rc]

\* One rank meets an error and returns; nobody is told.
Fail(r, kind) ==
    /\ kind \in Failing
    /\ Return(r, "ERR")
    /\ UNCHANGED <<fixed, groups, chan, topo>>

(***************************************************************************)
(* smprank_setup, pid_smprank_xchange and node_rank_xchange                *)
(***************************************************************************)
Resolve(r) ==
    /\ pc[r] = "start"
    /\ Join(r, "gather")
    /\ UNCHANGED <<fixed, groups, chan, memory, topo, result>>

ResolveFailure(r) ==
    /\ pc[r] = "start"
    /\ Fail(r, "netnum")
    /\ UNCHANGED memory

GetColor(r) ==
    /\ Met(r, "gather")
    /\ color' = [color EXCEPT ![r] = Color(netnums, r)]
    /\ Join(r, "split")
    /\ UNCHANGED <<fixed, node, nnodes, chan, memory, topo, result>>

Split(r) ==
    /\ Met(r, "split")
    /\ node' = [node EXCEPT ![r] = {q \in Rank : color[q] = color[r]}]
    /\ Join(r, "reduce")
    /\ UNCHANGED <<fixed, color, nnodes, chan, memory, topo, result>>

CountNodes(r) ==
    /\ Met(r, "reduce")
    /\ nnodes' = [nnodes EXCEPT ![r] = Cardinality({q \in Rank : Leads(q)})]
    /\ Join(r, "neighbours")
    /\ UNCHANGED <<fixed, color, node, chan, memory, topo, result>>

\* Two exchanges back to back, of the pids and of the ranks of the node.
Neighbours(r) ==
    /\ Met(r, "neighbours")
    /\ Goto(r, "bseg_path")
    /\ UNCHANGED <<fixed, groups, chan, memory, topo, result>>

(***************************************************************************)
(* quo_mpi_xchange_uniq_path, called for either segment.                   *)
(***************************************************************************)
Broadcast(r, msg) ==
    chan' = [q \in Rank |-> IF q \in node[r] \ {r} THEN Append(chan[q], msg) ELSE chan[q]]

Received(r, msg) ==
    /\ chan[r] # <<>> /\ Head(chan[r]) = msg
    /\ chan' = [chan EXCEPT ![r] = Tail(@)]

PathStep(what) == IF what = "bseg" THEN "bseg_path" ELSE "htopo_path"

SharePath(r, what) ==
    /\ pc[r] = PathStep(what)
    /\ Leads(r)
    /\ Broadcast(r, what)
    /\ Goto(r, IF what = "bseg" THEN "bseg_create" ELSE "load")
    /\ UNCHANGED <<fixed, groups, memory, topo, result>>

\* Mutant: rank 0 keeps its failure to itself.
PathFailureUntold(r, what) ==
    /\ pc[r] = PathStep(what)
    /\ Leads(r)
    /\ "path" \in Failing
    /\ Return(r, "NO_PATH")
    /\ UNCHANGED <<fixed, groups, chan, memory, topo>>

SharePathFailure(r, what) ==
    /\ pc[r] = PathStep(what)
    /\ Leads(r)
    /\ "path" \in Failing
    /\ Broadcast(r, "no_path")
    /\ Return(r, "NO_PATH")
    /\ UNCHANGED <<fixed, groups, memory, topo>>

GetPath(r, what) ==
    /\ pc[r] = PathStep(what)
    /\ ~Leads(r)
    /\ \/ /\ Received(r, what)
          /\ IF what = "bseg" THEN Join(r, "bseg_made") ELSE Goto(r, "length")
          /\ UNCHANGED result
       \/ /\ Received(r, "no_path")
          /\ Return(r, "NO_PATH")
    /\ UNCHANGED <<fixed, groups, memory, topo>>

(***************************************************************************)
(* sm_setup: the segment that holds the barrier.                           *)
(***************************************************************************)
BarrierCreate(r) ==
    /\ pc[r] = "bseg_create"
    /\ linked' = linked \cup {<<"bseg", r>>}
    /\ bseg' = [bseg EXCEPT ![r] = "zeros"]
    /\ Goto(r, "bseg_init")
    /\ UNCHANGED <<fixed, groups, chan, htopo, topo, result>>

BarrierInit(r) ==
    /\ pc[r] = "bseg_init"
    /\ bseg' = [bseg EXCEPT ![r] = "barrier"]
    /\ Join(r, "bseg_made")
    /\ UNCHANGED <<fixed, groups, chan, linked, htopo, topo, result>>

\* Before the file is made, or after: then it stays.
SegmentFailure(r) ==
    \/ /\ pc[r] \in {"bseg_create", "htopo_create"}
       /\ Fail(r, "segment")
       /\ \/ UNCHANGED linked
          \/ linked' = linked \cup {<<IF pc[r] = "bseg_create" THEN "bseg" ELSE "htopo", r>>}
       /\ UNCHANGED <<bseg, htopo>>
    \/ /\ pc[r] = "bseg_init"
       /\ Fail(r, "segment")
       /\ UNCHANGED memory

BarrierMade(r) ==
    /\ Met(r, "bseg_made")
    /\ IF Leads(r) THEN Join(r, "bseg_mapped") ELSE Goto(r, "bseg_attach")
    /\ UNCHANGED <<fixed, groups, chan, memory, topo, result>>

BarrierAttach(r) ==
    /\ pc[r] = "bseg_attach"
    /\ <<"bseg", Leader(r)>> \in linked
    /\ Join(r, "bseg_mapped")
    /\ UNCHANGED <<fixed, groups, chan, memory, topo, result>>

AttachFailure(r) ==
    /\ \/ pc[r] = "bseg_attach"  /\ ("attach" \in Failing \/ <<"bseg", Leader(r)>> \notin linked)
       \/ pc[r] = "htopo_attach" /\ ("attach" \in Failing \/ <<"htopo", Leader(r)>> \notin linked)
    /\ Return(r, "ERR")
    /\ UNCHANGED <<fixed, groups, chan, memory, topo>>

\* Mutant: rank 0 does not wait for the others to attach.
BarrierMappedAlone(r) ==
    /\ pc[r] = "bseg_mapped"
    /\ linked' = linked \ {<<"bseg", r>>}
    /\ Goto(r, "htopo_path")
    /\ UNCHANGED <<fixed, groups, chan, bseg, htopo, topo, result>>

BarrierMapped(r) ==
    /\ Met(r, "bseg_mapped")
    /\ Goto(r, IF Leads(r) THEN "bseg_unlink" ELSE "htopo_path")
    /\ UNCHANGED <<fixed, groups, chan, memory, topo, result>>

BarrierUnlink(r) ==
    /\ pc[r] = "bseg_unlink"
    /\ linked' = linked \ {<<"bseg", r>>}
    /\ Goto(r, "htopo_path")
    /\ UNCHANGED <<fixed, groups, chan, bseg, htopo, topo, result>>

(***************************************************************************)
(* quo_hwloc_init: node rank 0 loads the topology and publishes it; the    *)
(* others import what it published.  All of them restrict what they load.  *)
(***************************************************************************)
\* Mutant: rank 0 publishes and keeps what the machine has.
LoadUnrestricted(r) ==
    /\ pc[r] = "load"
    /\ topo' = [topo EXCEPT ![r] = Levels]
    /\ Broadcast(r, "length")
    /\ Goto(r, "htopo_create")
    /\ UNCHANGED <<fixed, groups, memory, result>>

Load(r) ==
    /\ pc[r] = "load"
    /\ topo' = [topo EXCEPT ![r] = TopoOf(noMT)]
    /\ Broadcast(r, "length")
    /\ Goto(r, "htopo_create")
    /\ UNCHANGED <<fixed, groups, memory, result>>

LoadFailure(r) ==
    /\ pc[r] = "load"
    /\ Fail(r, "load")
    /\ UNCHANGED memory

GetLength(r) ==
    /\ pc[r] = "length"
    /\ Received(r, "length")
    /\ Join(r, "htopo_filled")
    /\ UNCHANGED <<fixed, groups, memory, topo, result>>

TopologyCreate(r) ==
    /\ pc[r] = "htopo_create"
    /\ linked' = linked \cup {<<"htopo", r>>}
    /\ Goto(r, "htopo_fill")
    /\ UNCHANGED <<fixed, groups, chan, bseg, htopo, topo, result>>

TopologyFill(r) ==
    /\ pc[r] = "htopo_fill"
    /\ htopo' = [htopo EXCEPT ![r] = topo[r]]
    /\ Join(r, "htopo_filled")
    /\ UNCHANGED <<fixed, groups, chan, linked, bseg, topo, result>>

TopologyFilled(r) ==
    /\ Met(r, "htopo_filled")
    /\ IF Leads(r) THEN Join(r, "htopo_mapped") ELSE Goto(r, "htopo_attach")
    /\ UNCHANGED <<fixed, groups, chan, memory, topo, result>>

TopologyAttach(r) ==
    /\ pc[r] = "htopo_attach"
    /\ <<"htopo", Leader(r)>> \in linked
    /\ Join(r, "htopo_mapped")
    /\ UNCHANGED <<fixed, groups, chan, memory, topo, result>>

TopologyMapped(r) ==
    /\ Met(r, "htopo_mapped")
    /\ Goto(r, IF Leads(r) THEN "htopo_unlink" ELSE "import")
    /\ UNCHANGED <<fixed, groups, chan, memory, topo, result>>

\* Mutant: the file outlives the call.
TopologyKeep(r) ==
    /\ pc[r] = "htopo_unlink"
    /\ Return(r, "SUCCESS")
    /\ UNCHANGED <<fixed, groups, chan, memory, topo>>

TopologyUnlink(r) ==
    /\ pc[r] = "htopo_unlink"
    /\ linked' = linked \ {<<"htopo", r>>}
    /\ Return(r, "SUCCESS")
    /\ UNCHANGED <<fixed, groups, chan, bseg, htopo, topo>>

Import(r) ==
    /\ pc[r] = "import"
    /\ topo' = [topo EXCEPT ![r] =
                   IF noMT THEN DisableHT(htopo[Leader(r)]) ELSE htopo[Leader(r)]]
    /\ Return(r, "SUCCESS")
    /\ UNCHANGED <<fixed, groups, chan, memory>>

ImportFailure(r) ==
    /\ pc[r] = "import"
    /\ Fail(r, "import")
    /\ UNCHANGED memory

FindNode(r) ==
    Resolve(r) \/ ResolveFailure(r) \/ GetColor(r) \/ Split(r) \/ CountNodes(r) \/ Neighbours(r)

AgreeOnPath(r) ==
    \E what \in {"bseg", "htopo"} :
        SharePath(r, what) \/ SharePathFailure(r, what) \/ GetPath(r, what)

SetUpBarrier(r) ==
    BarrierCreate(r) \/ BarrierInit(r) \/ BarrierMade(r) \/ BarrierAttach(r)
        \/ BarrierMapped(r) \/ BarrierUnlink(r)

ShareTopology(r) ==
    \/ Load(r) \/ LoadFailure(r) \/ GetLength(r)
    \/ TopologyCreate(r) \/ TopologyFill(r) \/ TopologyFilled(r) \/ TopologyAttach(r)
    \/ TopologyMapped(r) \/ TopologyUnlink(r) \/ Import(r) \/ ImportFailure(r)

Step(r) ==
    \/ FindNode(r) \/ AgreeOnPath(r) \/ SetUpBarrier(r) \/ ShareTopology(r)
    \/ SegmentFailure(r) \/ AttachFailure(r)

Next == \E r \in Rank : Step(r)

Spec == Init /\ [][Next]_vars /\ \A r \in Rank : WF_vars(Step(r))

(***************************************************************************)
(* Properties                                                              *)
(***************************************************************************)
Label ==
    {"start", "bseg_path", "bseg_create", "bseg_init", "bseg_attach", "bseg_unlink",
     "htopo_path", "load", "length", "htopo_create", "htopo_fill", "htopo_attach",
     "htopo_unlink", "import", "done"} \cup DOMAIN Meeting

\* Three meetings of the whole communicator, three of the node's, two barriers.
TypeOK ==
    /\ netnum \in NetNums /\ netnums \in [1 .. N -> Range(netnum)] /\ noMT \in Flags
    /\ pc \in [Rank -> Label]
    /\ joined \in [Rank -> [commchan : 0 .. 3, smpcomm : 0 .. 3, barrier : 0 .. 2]]
    /\ color \in [Rank -> -1 .. N - 1]
    /\ node \in [Rank -> SUBSET Rank]
    /\ nnodes \in [Rank -> 0 .. N]
    /\ chan \in [Rank -> Seq({"bseg", "htopo", "no_path", "length"})]
    /\ linked \subseteq {"bseg", "htopo"} \X Rank
    /\ bseg \in [Rank -> {"none", "zeros", "barrier"}]
    /\ htopo \in [Rank -> {NoTopology} \cup Topologies]
    /\ topo \in [Rank -> {NoTopology} \cup Topologies]
    /\ result \in [Rank -> {"none", "SUCCESS", "NO_PATH", "ERR"}]

\* The ranks that smprank_setup() puts on one node are those of one host, and
\* every rank counts the hosts right, in whatever order qsort leaves the
\* numbers of the hosts.
NodesAreHosts ==
    \A r \in Rank :
        /\ node[r] # {} => node[r] = {q \in Rank : netnum[q] = netnum[r]}
        /\ nnodes[r] # 0 => nnodes[r] = Cardinality(Range(netnum))

\* Nobody attaches to a segment that is not there or not finished, and nobody
\* comes to a barrier that is not initialised.
FindsPublished ==
    \A r \in Rank :
        /\ pc[r] = "bseg_attach" =>
              <<"bseg", Leader(r)>> \in linked /\ bseg[Leader(r)] = "barrier"
        /\ pc[r] = "htopo_attach" =>
              <<"htopo", Leader(r)>> \in linked /\ htopo[Leader(r)] # NoTopology
        /\ joined[r].barrier > 0 => bseg[Leader(r)] = "barrier"

\* The segment of the barrier and the one of the topology are published as
\* Publish promises: made and finished, then mapped by every other rank of the
\* host, then unlinked, whatever fails on the way.  Stated of the node that
\* rank 0 leads; it may be any set of ranks that has rank 0.
Finished(what) == IF what = "bseg" THEN bseg[0] = "barrier" ELSE htopo[0] # NoTopology

Stage(what) ==
    LET has_file == <<what, 0>> \in linked
    IN  CASE Finished(what) /\ has_file -> "complete"
          [] Finished(what) /\ ~has_file -> "withdrawn"
          [] ~Finished(what) /\ has_file -> "made"
          [] OTHER -> "none"

Mapped(what) ==
    {q \in Rank \ {0} : /\ netnum[q] = netnum[0]
                        /\ IF what = "bseg" THEN joined[q].smpcomm = 3
                           ELSE joined[q].barrier = 2}

Publication ==
    INSTANCE Publish WITH
        Segments  <- {"bseg", "htopo"},
        Processes <- Rank,
        readers   <- [what \in {"bseg", "htopo"} |->
                         {q \in Rank \ {0} : netnum[q] = netnum[0]}],
        stage     <- [what \in {"bseg", "htopo"} |-> Stage(what)],
        mapped    <- [what \in {"bseg", "htopo"} |-> Mapped(what)]

Publishes == Publication!Spec

\* A context has the topology that its flags ask for, whether its rank loaded
\* it from the machine or from what node rank 0 had restricted and published.
SameTopology ==
    \A r \in Rank : result[r] = "SUCCESS" => topo[r] = TopoOf(noMT)

\* A call that succeeds for a whole node leaves no file behind on it.
NothingLeftLinked ==
    \A r \in Rank :
        (node[r] # {} /\ \A q \in node[r] : result[q] = "SUCCESS") =>
            \A what \in {"bseg", "htopo"} : <<what, Leader(r)>> \notin linked

\* A rank failed before its last meeting, on the node of r or before the nodes
\* were known.
LeftAlone(r) ==
    \E q \in Rank : /\ result[q] = "ERR"
                    /\ joined[q].barrier < 2
                    /\ node[q] = {} \/ netnum[q] = netnum[r]

\* Every rank returns from QUO_create, unless a rank of its own node failed alone
\* and left the others a broadcast, a collective call or a barrier short.
\* Trouble on another node, a failure that node rank 0 announces, and one after
\* the last barrier hold up nobody.
ReturnsUnlessLeftAlone == \A r \in Rank : <>(pc[r] = "done" \/ LeftAlone(r))
===============================================================================
