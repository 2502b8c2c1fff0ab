------------------------------- MODULE Topology -------------------------------
(***************************************************************************)
(* The hardware topology of one node as libquo sees it: for every hwloc    *)
(* object type, the list of its objects in hwloc's logical order, an       *)
(* object being nothing but its cpuset.  The operators are the queries of  *)
(* quo-hwloc.c and of the hwloc inline helpers it calls.                   *)
(*                                                                         *)
(* Abstraction: no processing unit is offline or disallowed, so the        *)
(* complete cpuset of an object is its cpuset.                             *)
(***************************************************************************)
EXTENDS Integers, Sequences, SequencesExt, FiniteSets, FiniteSetsExt, Functions

CONSTANTS PU,      \* the OS numbers of the processing units of the node
          Levels   \* hwloc object type -> the sequence of its objects' cpusets

HwlocType == {"MACHINE", "NUMANODE", "PACKAGE", "CORE", "PU"}

Topologies == [HwlocType -> Seq(SUBSET PU)]

ASSUME TopologyAssumption ==
    /\ PU \subseteq Nat
    /\ IsFiniteSet(PU)
    /\ PU # {}
    /\ Levels \in Topologies
    /\ Levels["MACHINE"] = <<PU>>

(***************************************************************************)
(* Object types.  SOCKET is a synonym of PACKAGE.  A value outside the     *)
(* domain is one that ext2intobj() answers with QUO_ERR_INVLD_ARG.         *)
(***************************************************************************)
Ext2Int ==
    [MACHINE |-> "MACHINE", NUMANODE |-> "NUMANODE", PACKAGE |-> "PACKAGE",
     SOCKET |-> "PACKAGE", CORE |-> "CORE", PU |-> "PU"]

KnownType(t) == t \in DOMAIN Ext2Int

Objects(topo, t) == topo[Ext2Int[t]]

\* The cpuset of the root object; there is one machine.
SystemSet(topo) == UNION Range(topo["MACHINE"])

(***************************************************************************)
(* QUO_CREATE_NO_MT: topo_disable_ht() keeps the first processing unit of  *)
(* each core.  hwloc_topology_restrict() takes the others out of every     *)
(* object and removes the objects left with none, except NUMA nodes, whose *)
(* memory stays.  It refuses a set that would leave nothing.               *)
(***************************************************************************)
FirstPUs(topo) == {Min(core) : core \in Range(topo["CORE"]) \ {{}}}

\* The n-th element of a finite set of numbers is the one that n of them do not exceed.
Ascending(indices) ==
    [n \in 1 .. Cardinality(indices) |->
        CHOOSE i \in indices : Cardinality({j \in indices : j <= i}) = n]

Keep(topo, set) ==
    [t \in HwlocType |->
        LET stay == Ascending({k \in DOMAIN topo[t] :
                                  topo[t][k] \cap set # {} \/ t = "NUMANODE"})
        IN  [k \in DOMAIN stay |-> topo[t][stay[k]] \cap set]]

DisableHT(topo) ==
    LET set == FirstPUs(topo) \cap SystemSet(topo)
    IN  IF set = {} THEN topo ELSE Keep(topo, set)

\* The topology that a context created with or without QUO_CREATE_NO_MT loads.
NoMTLevels == DisableHT(Levels)

TopoOf(noMT) == IF noMT THEN NoMTLevels ELSE Levels

(***************************************************************************)
(* Queries.  Indices are hwloc's, from 0.                                  *)
(***************************************************************************)
\* get_obj_by_type: the object exists when its index is in range.
HasObject(topo, t, idx) == KnownType(t) /\ idx \in 0 .. Len(Objects(topo, t)) - 1

ObjectSet(topo, t, idx) == Objects(topo, t)[idx + 1]

\* The objects of type t that share a processing unit with the set.
Touching(topo, t, set) ==
    {k \in DOMAIN Objects(topo, t) : Objects(topo, t)[k] \cap set # {}}

\* get_obj_covering_cur_bind: the first of them.
CoveringSet(topo, t, set) == Objects(topo, t)[Min(Touching(topo, t, set))]

\* quo_hwloc_get_nobjs_by_type
NObjs(topo, t) == Len(Objects(topo, t))

\* quo_hwloc_is_in_cpuset_by_type_id
InCpuset(topo, t, idx, binding) == ObjectSet(topo, t, idx) \cap binding # {}

\* hwloc_get_proc_cpubind on Linux reads the affinity mask up to the last
\* processing unit that the topology knows.
VisibleBinding(topo, binding) == {p \in binding : \E last \in SystemSet(topo) : p <= last}

\* hwloc_set_cpubind refuses an empty set and one the topology does not contain.
Bindable(topo, set) == set # {} /\ set \subseteq SystemSet(topo)
===============================================================================
