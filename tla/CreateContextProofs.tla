-------------------------- MODULE CreateContextProofs --------------------------
(***************************************************************************)
(* Proofs about CreateContext, for any number of ranks and hosts, either   *)
(* value of the flag, and any of the failures: typing, who shares a node,  *)
(* what the ranks find published, which topology they end up with, what    *)
(* they leave behind, and that both segments are handed out as Publish     *)
(* promises.                                                               *)
(***************************************************************************)
EXTENDS CreateContext, DataLemmas

(***************************************************************************)
(* Topologies                                                              *)
(***************************************************************************)
\* The numbers in order are those numbers, each of them once.
LEMMA AscendingIs ==
    ASSUME NEW S \in SUBSET Nat, IsFiniteSet(S)
    PROVE  /\ Cardinality(S) \in Nat
           /\ Ascending(S) \in [1 .. Cardinality(S) -> S]
           /\ \A i \in S : \E n \in 1 .. Cardinality(S) : Ascending(S)[n] = i
<1>. DEFINE UpTo(i) == {j \in S : j <= i}
<1>. HIDE DEF UpTo
<1>1. /\ Cardinality(S) \in Nat
      /\ \A i \in S : Cardinality(UpTo(i)) \in 1 .. Cardinality(S)
      /\ \A i, k \in S : Cardinality(UpTo(i)) = Cardinality(UpTo(k)) => i = k
      /\ \A n \in 1 .. Cardinality(S) : \E i \in S : Cardinality(UpTo(i)) = n
  BY Numbering DEF UpTo
<1>2. Ascending(S) = [n \in 1 .. Cardinality(S) |-> CHOOSE i \in S : Cardinality(UpTo(i)) = n]
  BY DEF Ascending, UpTo
<1>3. ASSUME NEW n \in 1 .. Cardinality(S)
      PROVE  Ascending(S)[n] \in S /\ Cardinality(UpTo(Ascending(S)[n])) = n
  BY <1>1, <1>2
<1>4. ASSUME NEW i \in S PROVE \E n \in 1 .. Cardinality(S) : Ascending(S)[n] = i
  <2>1. Cardinality(UpTo(i)) \in 1 .. Cardinality(S)
    BY <1>1
  <2>2. Ascending(S)[Cardinality(UpTo(i))] = i
    BY <1>1, <1>3, <2>1
  <2>. QED  BY <2>1, <2>2
<1>. QED  BY <1>1, <1>2, <1>3, <1>4

\* The numbers from 1 to m in ascending order are the sequence from 1 to m.
LEMMA AscendingInterval ==
    ASSUME NEW m \in Nat
    PROVE  Ascending(1 .. m) = [n \in 1 .. m |-> n]
<1>1. ASSUME NEW n \in Nat PROVE Cardinality(1 .. n) = n
  <2>1. 1 \in Int /\ n \in Int /\ (IF 1 > n THEN 0 ELSE n - 1 + 1) = n
    OBVIOUS
  <2>. QED  BY <2>1, FS_Interval
<1>2. ASSUME NEW i \in 1 .. m PROVE Cardinality({j \in 1 .. m : j <= i}) = i
  <2>1. {j \in 1 .. m : j <= i} = 1 .. i /\ i \in Nat
    OBVIOUS
  <2>2. Cardinality(1 .. i) = i
    BY <1>1, <2>1
  <2>. QED  BY <2>1, <2>2
<1>3. \A n \in 1 .. m : (CHOOSE i \in 1 .. m : Cardinality({j \in 1 .. m : j <= i}) = n) = n
  BY <1>2
<1>. QED  BY <1>1, <1>3 DEF Ascending

\* What is left of the objects of one type.
Staying(levels, set, t) == {k \in DOMAIN levels[t] : levels[t][k] \cap set # {} \/ t = "NUMANODE"}

\* What a restriction keeps of a level: the objects that it does not empty,
\* in their order, cut to the set.
LEMMA KeepIs ==
    ASSUME NEW levels \in Topologies, NEW set \in SUBSET PU, NEW t \in HwlocType
    PROVE  LET S == Staying(levels, set, t)
           IN  /\ S \in SUBSET Nat /\ IsFiniteSet(S) /\ Cardinality(S) \in Nat
               /\ Ascending(S) \in [1 .. Cardinality(S) -> S]
               /\ Keep(levels, set)[t]
                      = [k \in 1 .. Cardinality(S) |-> levels[t][Ascending(S)[k]] \cap set]
<1>. DEFINE S == Staying(levels, set, t)
<1>1. levels[t] \in Seq(SUBSET PU)
  BY DEF Topologies
<1>2. DOMAIN levels[t] = 1 .. Len(levels[t]) /\ Len(levels[t]) \in Nat
  BY <1>1, LenProperties
<1>3. IsFiniteSet(1 .. Len(levels[t]))
  BY <1>2, FS_Interval
<1>4. S \in SUBSET (1 .. Len(levels[t]))
  BY <1>2 DEF Staying
<1>. HIDE DEF S
<1>5. S \in SUBSET Nat /\ IsFiniteSet(S)
  <2>1. IsFiniteSet(S)
    BY <1>3, <1>4, FS_Subset
  <2>2. 1 .. Len(levels[t]) \subseteq Nat
    BY <1>2
  <2>. QED  BY <1>4, <2>1, <2>2
<1>6. Cardinality(S) \in Nat /\ Ascending(S) \in [1 .. Cardinality(S) -> S]
  BY <1>5, AscendingIs
<1>7. Keep(levels, set)[t] = [k \in DOMAIN Ascending(S) |-> levels[t][Ascending(S)[k]] \cap set]
  BY DEF Keep, Staying, S
<1>8. DOMAIN Ascending(S) = 1 .. Cardinality(S)
  BY <1>6
<1>. QED  BY <1>5, <1>6, <1>7, <1>8 DEF S

\* A restricted topology is a topology.
LEMMA KeepTyped ==
    ASSUME NEW levels \in Topologies, NEW set \in SUBSET PU
    PROVE  Keep(levels, set) \in Topologies
<1>1. ASSUME NEW t \in HwlocType PROVE Keep(levels, set)[t] \in Seq(SUBSET PU)
  <2>. DEFINE S == Staying(levels, set, t)
              g == [k \in 1 .. Cardinality(S) |-> levels[t][Ascending(S)[k]]]
  <2>1. Cardinality(S) \in Nat /\ Keep(levels, set)[t]
            = [k \in 1 .. Cardinality(S) |-> levels[t][Ascending(S)[k]] \cap set]
    BY KeepIs
  <2>2. Keep(levels, set)[t] = [k \in 1 .. Cardinality(S) |-> g[k] \cap set]
    BY <2>1
  <2>. HIDE DEF g
  <2>3. Keep(levels, set)[t] \in [1 .. Cardinality(S) -> SUBSET PU]
    BY <2>2
  <2>. QED  BY <2>1, <2>3
<1>2. DOMAIN Keep(levels, set) = HwlocType /\ Keep(levels, set) = [t \in HwlocType |-> Keep(levels, set)[t]]
  BY DEF Keep
<1>. QED  BY <1>1, <1>2 DEF Topologies

\* The node's topology, and the processing units at its root.
LEMMA LevelsAre ==
    /\ Levels \in Topologies /\ Levels["MACHINE"] = <<PU>> /\ SystemSet(Levels) = PU
    /\ PU \subseteq Nat
BY TopologyAssumption DEF SystemSet, Range

\* What the node publishes has no hyper-threads left to disable: a rank that
\* restricts an imported topology again changes nothing.
LEMMA DisabledOnce ==
    /\ NoMTLevels \in Topologies
    /\ DisableHT(NoMTLevels) = NoMTLevels
<1>. DEFINE set == FirstPUs(Levels) \cap SystemSet(Levels)
            K == Keep(Levels, set)
<1>1. CASE set = {}
  <2>1. NoMTLevels = Levels
    BY <1>1 DEF NoMTLevels, DisableHT
  <2>2. DisableHT(Levels) = Levels
    BY <1>1 DEF DisableHT
  <2>. QED  BY <2>1, <2>2, LevelsAre
<1>2. CASE set # {}
  <2>1. set \in SUBSET PU /\ set \subseteq FirstPUs(Levels)
    BY LevelsAre
  <2>2. K \in Topologies
    BY <2>1, KeepTyped, LevelsAre
  <2>3. NoMTLevels = K
    BY <1>2 DEF NoMTLevels, DisableHT
  <2>. HIDE DEF K
  <2>4. ASSUME NEW t \in HwlocType, NEW k \in DOMAIN K[t]
        PROVE  /\ K[t][k] \subseteq set
               /\ K[t][k] # {} \/ t = "NUMANODE"
    <3>. DEFINE S == Staying(Levels, set, t)
    <3>1. /\ Ascending(S) \in [1 .. Cardinality(S) -> S]
          /\ K[t] = [n \in 1 .. Cardinality(S) |-> Levels[t][Ascending(S)[n]] \cap set]
      BY <2>1, KeepIs, LevelsAre DEF K
    <3>2. Ascending(S)[k] \in S /\ K[t][k] = Levels[t][Ascending(S)[k]] \cap set
      BY <3>1
    <3>. QED  BY <3>2 DEF Staying
  <2>5. FirstPUs(K) = set
    <3>1. ASSUME NEW m \in FirstPUs(K) PROVE m \in set
      <4>1. PICK core \in Range(K["CORE"]) \ {{}} : m = Min(core)
        BY <3>1 DEF FirstPUs
      <4>2. core \in SUBSET Nat /\ core \subseteq set
        BY <2>1, <2>4, <4>1, LevelsAre DEF Range, HwlocType
      <4>. QED  BY <4>1, <4>2, MinIs
    <3>2. ASSUME NEW m \in set PROVE m \in FirstPUs(K)
      <4>. DEFINE S == Staying(Levels, set, "CORE")
      <4>1. PICK core \in Range(Levels["CORE"]) \ {{}} : m = Min(core)
        BY <2>1 DEF FirstPUs
      <4>2. core \in SUBSET Nat
        <5>1. Levels["CORE"] \in Seq(SUBSET PU)
          BY LevelsAre DEF Topologies, HwlocType
        <5>2. Levels["CORE"] \in [1 .. Len(Levels["CORE"]) -> SUBSET PU]
          BY <5>1, LenProperties
        <5>. QED  BY <4>1, <5>2, LevelsAre DEF Range
      <4>3. m \in core /\ \A x \in core : m <= x
        BY <4>1, <4>2, MinIs
      <4>4. PICK i \in DOMAIN Levels["CORE"] : core = Levels["CORE"][i]
        BY <4>1 DEF Range
      <4>5. i \in S
        BY <4>3, <4>4 DEF Staying
      <4>6. /\ S \in SUBSET Nat /\ IsFiniteSet(S)
            /\ K["CORE"] = [n \in 1 .. Cardinality(S) |-> Levels["CORE"][Ascending(S)[n]] \cap set]
        BY <2>1, KeepIs, LevelsAre DEF K, HwlocType
      <4>. HIDE DEF S
      <4>7. PICK n \in 1 .. Cardinality(S) : Ascending(S)[n] = i
        BY <4>5, <4>6, AscendingIs
      <4>8. core \cap set \in Range(K["CORE"]) /\ m \in core \cap set
        BY <4>3, <4>4, <4>6, <4>7 DEF Range
      <4>9. core \cap set \in SUBSET Nat /\ core \cap set # {}
        BY <4>2, <4>8
      <4>10. Min(core \cap set) \in core \cap set /\ Min(core \cap set) <= m
        BY <4>8, <4>9, MinIs
      <4>11. Min(core \cap set) = m
        <5>. DEFINE least == Min(core \cap set)
        <5>1. least \in core /\ least <= m
          BY <4>10
        <5>. HIDE DEF least
        <5>2. m <= least /\ least \in Nat /\ m \in Nat
          BY <4>2, <4>3, <5>1
        <5>3. least = m
          BY <5>1, <5>2
        <5>. QED  BY <5>3 DEF least
      <4>. QED  BY <4>8, <4>11 DEF FirstPUs
    <3>. QED  BY <3>1, <3>2
  <2>6. SystemSet(K) = set
    <3>. DEFINE S == Staying(Levels, set, "MACHINE")
    <3>1. S = 1 .. 1
      <4>1. DOMAIN Levels["MACHINE"] = {1} /\ Levels["MACHINE"][1] = PU
        BY LevelsAre
      <4>2. PU \cap set # {}
        BY <1>2, <2>1
      <4>3. S = {1}
        BY <4>1, <4>2 DEF Staying
      <4>. QED  BY <4>3
    <3>2. Ascending(1 .. 1) = [n \in 1 .. 1 |-> n] /\ Cardinality(1 .. 1) = 1
      <4>1. 1 \in Int /\ 1 \in Nat /\ (IF 1 > 1 THEN 0 ELSE 1 - 1 + 1) = 1
        OBVIOUS
      <4>2. Cardinality(1 .. 1) = 1
        BY <4>1, FS_Interval
      <4>3. Ascending(1 .. 1) = [n \in 1 .. 1 |-> n]
        BY <4>1, AscendingInterval
      <4>. QED  BY <4>2, <4>3
    <3>3. K["MACHINE"] = [n \in 1 .. Cardinality(S) |-> Levels["MACHINE"][Ascending(S)[n]] \cap set]
      BY <2>1, KeepIs, LevelsAre DEF K, HwlocType
    <3>4. K["MACHINE"] = [n \in 1 .. 1 |-> set]
      <4>1. K["MACHINE"] = [n \in 1 .. 1 |-> Levels["MACHINE"][n] \cap set]
        BY <3>1, <3>2, <3>3, ZenonT(30)
      <4>2. \A n \in 1 .. 1 : Levels["MACHINE"][n] \cap set = set
        BY <2>1, LevelsAre
      <4>. QED  BY <4>1, <4>2
    <3>. QED  BY <3>4 DEF SystemSet, Range
  <2>7. Keep(K, set) = K
    <3>1. ASSUME NEW t \in HwlocType PROVE Keep(K, set)[t] = K[t]
      <4>. DEFINE S == Staying(K, set, t)
      <4>1. PICK n \in Nat : DOMAIN K[t] = 1 .. n
        BY <2>2, LenProperties DEF Topologies
      <4>2. S = 1 .. n
        BY <2>4, <4>1 DEF Staying
      <4>3. Cardinality(1 .. n) = n /\ Ascending(1 .. n) = [k \in 1 .. n |-> k]
        <5>1. 1 \in Int /\ n \in Int /\ (IF 1 > n THEN 0 ELSE n - 1 + 1) = n
          OBVIOUS
        <5>. QED  BY <5>1, AscendingInterval, FS_Interval
      <4>4. Keep(K, set)[t] = [k \in 1 .. Cardinality(S) |-> K[t][Ascending(S)[k]] \cap set]
        BY <2>1, <2>2, KeepIs
      <4>5. Keep(K, set)[t] = [k \in 1 .. n |-> K[t][k] \cap set]
        BY <4>2, <4>3, <4>4
      <4>6. \A k \in 1 .. n : K[t][k] \cap set = K[t][k]
        BY <2>4, <4>1
      <4>7. K[t] = [k \in 1 .. n |-> K[t][k]]
        <5>1. K[t] \in Seq(SUBSET PU)
          BY <2>2 DEF Topologies
        <5>2. K[t] \in [1 .. Len(K[t]) -> SUBSET PU]
          BY <5>1, LenProperties
        <5>. QED  BY <4>1, <5>2
      <4>. QED  BY <4>5, <4>6, <4>7
    <3>2. K = [t \in HwlocType |-> K[t]]
      BY <2>2 DEF Topologies
    <3>3. Keep(K, set) = [t \in HwlocType |-> Keep(K, set)[t]]
      BY DEF Keep
    <3>. QED  BY <3>1, <3>2, <3>3
  <2>8. DisableHT(K) = K
    <3>. HIDE DEF set
    <3>. QED  BY <1>2, <2>5, <2>6, <2>7 DEF DisableHT
  <2>. QED  BY <2>2, <2>3, <2>8
<1>. QED  BY <1>1, <1>2

(***************************************************************************)
(* Colors                                                                  *)
(***************************************************************************)
LEMMA RankIs ==
    /\ N \in Nat \ {0} /\ Rank \subseteq Nat
    /\ IsFiniteSet(Rank) /\ Cardinality(Rank) = N
<1>1. N \in Nat \ {0} /\ Rank = 0 .. N - 1 /\ Rank \subseteq Nat
  BY CreateContextAssumption DEF Rank
<1>2. 0 \in Int /\ N - 1 \in Int /\ (IF 0 > N - 1 THEN 0 ELSE N - 1 - 0 + 1) = N
  BY <1>1
<1>3. IsFiniteSet(0 .. N - 1) /\ Cardinality(0 .. N - 1) = N
  BY <1>2, FS_Interval
<1>. QED  BY <1>1, <1>3

\* Where the number of a rank's host comes first, and the runs before it.
First(r) == Min({k \in DOMAIN netnums : netnums[k] = netnum[r]})
RunsBefore(r) == {k \in Runs(netnums) : k < First(r)}

\* Each network number has a first position in the sorted list, and a run of
\* the list starts there.
LEMMA FirstIs ==
    ASSUME netnum \in [Rank -> Nat], netnums \in Orders(netnum), NEW r \in Rank
    PROVE  /\ DOMAIN netnums = 1 .. N
           /\ First(r) \in 1 .. N /\ netnums[First(r)] = netnum[r]
           /\ First(r) \in Runs(netnums)
<1>1. PICK rank \in Bijection(1 .. N, Rank) : netnums = [k \in 1 .. N |-> netnum[rank[k]]]
  BY DEF Orders
<1>2. N \in Nat \ {0} /\ DOMAIN netnums = 1 .. N
  BY <1>1, RankIs
<1>3. PICK n \in 1 .. N : rank[n] = r
  BY <1>1 DEF Bijection, Surjection
<1>. DEFINE Places == {k \in DOMAIN netnums : netnums[k] = netnum[r]}
<1>4. Places \in SUBSET Nat /\ n \in Places
  BY <1>1, <1>2, <1>3
<1>5. Min(Places) \in Places /\ \A x \in Places : Min(Places) <= x
  <2>. HIDE DEF Places
  <2>. QED  BY <1>4, MinIs
<1>6. First(r) = Min(Places)
  BY DEF First
<1>. HIDE DEF First
<1>7. First(r) \in 1 .. N /\ netnums[First(r)] = netnum[r] /\ \A x \in Places : First(r) <= x
  BY <1>2, <1>5, <1>6
<1>8. First(r) # 1 => netnums[First(r) - 1] # netnums[First(r)]
  <2>. SUFFICES ASSUME First(r) # 1, netnums[First(r) - 1] = netnums[First(r)] PROVE FALSE
    OBVIOUS
  <2>1. First(r) - 1 \in Places
    BY <1>2, <1>7
  <2>2. First(r) <= First(r) - 1
    BY <1>7, <2>1
  <2>. QED  BY <1>7, <2>2
<1>. QED  BY <1>2, <1>7, <1>8 DEF Runs

\* Two ranks have the same color exactly when they are on one host, in
\* whatever order the numbers of the hosts are.
LEMMA ColorIs ==
    ASSUME netnum \in [Rank -> Nat], netnums \in Orders(netnum), NEW r \in Rank
    PROVE  /\ Color(netnums, r) \in 0 .. N - 1
           /\ \A q \in Rank : Color(netnums, q) = Color(netnums, r) <=> netnum[q] = netnum[r]
<1>. USE RankIs
<1>1. ASSUME NEW q \in Rank PROVE Color(netnums, q) = Cardinality(RunsBefore(q))
  BY DEF Color, RunsBefore, First
<1>2. ASSUME NEW q \in Rank
      PROVE  /\ First(q) \in 1 .. N /\ netnums[First(q)] = netnum[q]
             /\ First(q) \in Runs(netnums)
  BY FirstIs
<1>3. Runs(netnums) \subseteq 1 .. N
  BY FirstIs DEF Runs
<1>4. ASSUME NEW q \in Rank
      PROVE  IsFiniteSet(RunsBefore(q)) /\ Cardinality(RunsBefore(q)) \in 0 .. N - 1
  <2>1. IsFiniteSet(1 .. N) /\ Cardinality(1 .. N) = N
    <3>1. 1 \in Int /\ N \in Int /\ (IF 1 > N THEN 0 ELSE N - 1 + 1) = N
      OBVIOUS
    <3>. QED  BY <3>1, FS_Interval
  <2>2. RunsBefore(q) \in SUBSET (1 .. N) /\ First(q) \notin RunsBefore(q)
    BY <1>2, <1>3 DEF RunsBefore
  <2>3. /\ IsFiniteSet(RunsBefore(q)) /\ Cardinality(RunsBefore(q)) <= N
        /\ N = Cardinality(RunsBefore(q)) => RunsBefore(q) = 1 .. N
    BY <2>1, <2>2, FS_Subset
  <2>4. Cardinality(RunsBefore(q)) \in Nat /\ Cardinality(RunsBefore(q)) # N
    BY <1>2, <2>2, <2>3, FS_CardinalityType
  <2>. QED  BY <2>3, <2>4
<1>5. ASSUME NEW q \in Rank, NEW p \in Rank, First(q) < First(p)
      PROVE  Cardinality(RunsBefore(q)) # Cardinality(RunsBefore(p))
  <2>1. \A k \in 1 .. N : k < First(q) => k < First(p)
    BY <1>2, <1>5
  <2>2. RunsBefore(q) \in SUBSET RunsBefore(p)
    BY <1>3, <2>1 DEF RunsBefore
  <2>3. First(q) \in RunsBefore(p) /\ First(q) \notin RunsBefore(q)
    BY <1>2, <1>5 DEF RunsBefore
  <2>. QED  BY <1>4, <2>2, <2>3, FS_Subset
<1>6. ASSUME NEW q \in Rank
      PROVE  Cardinality(RunsBefore(q)) = Cardinality(RunsBefore(r)) <=> netnum[q] = netnum[r]
  <2>1. ASSUME netnum[q] = netnum[r] PROVE RunsBefore(q) = RunsBefore(r)
    BY <2>1 DEF RunsBefore, First
  <2>2. ASSUME netnum[q] # netnum[r]
        PROVE  Cardinality(RunsBefore(q)) # Cardinality(RunsBefore(r))
    <3>1. First(q) # First(r) /\ First(q) \in Int /\ First(r) \in Int
      BY <1>2, <2>2
    <3>2. First(q) < First(r) \/ First(r) < First(q)
      BY <3>1
    <3>. QED  BY <1>5, <3>2
  <2>. QED  BY <2>1, <2>2
<1>. QED  BY <1>1, <1>4, <1>6

(***************************************************************************)
(* Hosts                                                                   *)
(***************************************************************************)
Host(r) == {q \in Rank : netnum[q] = netnum[r]}
Lowest(r) == Min(Host(r))
Hosts == Cardinality(Range(netnum))

\* Each host has a lowest rank, the same for all the ranks on it.
LEMMA LowestIs ==
    ASSUME netnum \in [Rank -> Nat], NEW r \in Rank
    PROVE  /\ r \in Host(r) /\ Lowest(r) \in Host(r) /\ Lowest(r) \in Rank
           /\ \A q \in Host(r) : Lowest(r) <= q /\ Host(q) = Host(r) /\ Lowest(q) = Lowest(r)
<1>1. Host(r) \in SUBSET Nat /\ r \in Host(r)
  BY RankIs DEF Host
<1>2. Lowest(r) \in Host(r) /\ \A q \in Host(r) : Lowest(r) <= q
  BY <1>1, MinIs DEF Lowest
<1>3. \A q \in Host(r) : Host(q) = Host(r)
  BY DEF Host
<1>4. Host(r) \subseteq Rank
  BY DEF Host
<1>. QED  BY <1>1, <1>2, <1>3, <1>4 DEF Lowest

\* There are as many lowest ranks as hosts.
LEMMA HostsAre ==
    ASSUME netnum \in [Rank -> Nat]
    PROVE  Hosts \in 0 .. N /\ Hosts = Cardinality({q \in Rank : q = Lowest(q)})
<1>. DEFINE L == {q \in Rank : q = Lowest(q)}
            f == [q \in L |-> netnum[q]]
<1>1. L \in SUBSET Rank
  OBVIOUS
<1>2. IsFiniteSet(L) /\ Cardinality(L) \in Nat /\ Cardinality(L) <= N
  <2>. HIDE DEF L
  <2>. QED  BY <1>1, RankIs, FS_Subset, FS_CardinalityType
<1>3. f \in [L -> Range(netnum)]
  BY DEF Range
<1>4. ASSUME NEW p \in L, NEW q \in L, netnum[p] = netnum[q] PROVE p = q
  <2>1. q \in Host(p)
    BY <1>4 DEF Host
  <2>. QED  BY <2>1, LowestIs
<1>5. ASSUME NEW n \in Range(netnum) PROVE \E q \in L : netnum[q] = n
  <2>1. PICK r \in Rank : netnum[r] = n
    BY <1>5 DEF Range
  <2>2. Lowest(r) \in Rank /\ netnum[Lowest(r)] = n /\ Lowest(Lowest(r)) = Lowest(r)
    BY <2>1, LowestIs DEF Host
  <2>. QED  BY <2>2
<1>6. f \in Bijection(L, Range(netnum))
  BY <1>3, <1>4, <1>5 DEF Bijection, Injection, Surjection, IsInjective
<1>7. Cardinality(Range(netnum)) = Cardinality(L)
  <2>. HIDE DEF f, L
  <2>. QED  BY <1>2, <1>6, FS_Bijection DEF ExistsBijection
<1>. QED  BY <1>2, <1>7, RankIs DEF Hosts

\* What the ranks share does not change.
LEMMA FixedKept ==
    ASSUME UNCHANGED fixed
    PROVE  /\ netnum' = netnum /\ netnums' = netnums /\ noMT' = noMT /\ Hosts' = Hosts
           /\ \A r \in Rank : /\ Host(r)' = Host(r) /\ Lowest(r)' = Lowest(r)
                              /\ Color(netnums, r)' = Color(netnums, r)
<1>1. netnum' = netnum /\ netnums' = netnums /\ noMT' = noMT
  BY DEF fixed
<1>2. \A r \in Rank : Host(r)' = Host(r)
  BY <1>1 DEF Host
<1>3. \A r \in Rank : Lowest(r)' = Lowest(r)
  BY <1>1 DEF Lowest, Host
<1>4. \A r \in Rank : Color(netnums, r)' = Color(netnums, r)
  BY <1>1 DEF Color
<1>5. Hosts' = Hosts
  BY <1>1 DEF Hosts
<1>. QED  BY <1>1, <1>2, <1>3, <1>4, <1>5

(***************************************************************************)
(* The inductive invariant.  Where a rank is tells how many meetings it    *)
(* has come to; that and the rank's place on its host tell what it has     *)
(* done and what it knows; and what it has waited for, the others have     *)
(* done too.  A failure stops one rank and undoes nothing of this.         *)
(***************************************************************************)
\* How many meetings of each kind a rank has come to when it is at a label.
Attended(count, label) ==
    /\ count.commchan = CASE label = "start" -> 0 [] label = "gather" -> 1
                          [] label = "split" -> 2 [] OTHER -> 3
    /\ count.smpcomm = CASE label \in {"start", "gather", "split", "reduce"} -> 0
                         [] label \in {"neighbours", "bseg_path", "bseg_create", "bseg_init"} -> 1
                         [] label \in {"bseg_made", "bseg_attach"} -> 2
                         [] OTHER -> 3
    /\ count.barrier = CASE label \in {"htopo_filled", "htopo_attach"} -> 1
                         [] label \in {"htopo_mapped", "htopo_unlink", "import"} -> 2
                         [] OTHER -> 0

Attends(r) ==
    IF pc[r] = "done"
    THEN /\ result[r] # "none" /\ (result[r] = "SUCCESS" => Attended(joined[r], "import"))
         /\ \E label \in Label \ {"done"} : Attended(joined[r], label)
    ELSE result[r] = "none" /\ Attended(joined[r], pc[r])

Known(r) ==
    /\ color[r] = IF joined[r].commchan >= 2 THEN Color(netnums, r) ELSE -1
    /\ node[r] = IF joined[r].commchan = 3 THEN Host(r) ELSE {}
    /\ nnodes[r] = IF joined[r].smpcomm >= 1 THEN Hosts ELSE 0

LowestPlaces ==
    {"bseg_create", "bseg_init", "bseg_unlink", "load", "htopo_create", "htopo_fill", "htopo_unlink"}
OtherPlaces == {"bseg_attach", "length", "htopo_attach", "import"}

Placed(r) ==
    /\ pc[r] \in LowestPlaces => r = Lowest(r)
    /\ pc[r] \in OtherPlaces => r # Lowest(r)
    /\ pc[r] = "done" /\ r = Lowest(r) => joined[r].smpcomm # 2 /\ joined[r].barrier # 1

HasBarrier(r) ==
    /\ bseg[r] = "barrier" <=> r = Lowest(r) /\ joined[r].smpcomm >= 2
    /\ IF pc[r] = "done"
       THEN <<"bseg", r>> \in linked => joined[r].smpcomm < 2
       ELSE <<"bseg", r>> \in linked
                <=> r = Lowest(r) /\ pc[r] \in {"bseg_init", "bseg_made", "bseg_mapped", "bseg_unlink"}

HasTopology(r) ==
    /\ htopo[r] = IF r = Lowest(r) /\ joined[r].barrier >= 1 THEN TopoOf(noMT) ELSE NoTopology
    /\ IF pc[r] = "done"
       THEN <<"htopo", r>> \in linked => joined[r].barrier < 1
       ELSE <<"htopo", r>> \in linked
                <=> r = Lowest(r) /\ pc[r] \in {"htopo_fill", "htopo_filled", "htopo_mapped", "htopo_unlink"}
    /\ r = Lowest(r) /\ (pc[r] \in {"htopo_create", "htopo_fill"} \/ joined[r].barrier >= 1)
          => topo[r] = TopoOf(noMT)
    /\ result[r] = "SUCCESS" => topo[r] = TopoOf(noMT)

\* What holds of a rank by itself.
Alone(r) == Attends(r) /\ Known(r) /\ Placed(r) /\ HasBarrier(r) /\ HasTopology(r)

\* What the meetings that a rank has left say of the ranks of its host.
Waited(r) ==
    /\ pc[r] = "bseg_attach" \/ joined[r].smpcomm = 3 => \A q \in Host(r) : joined[q].smpcomm >= 2
    /\ pc[r] # "bseg_mapped" /\ joined[r].smpcomm = 3 => \A q \in Host(r) : joined[q].smpcomm = 3
    /\ pc[r] = "htopo_attach" \/ joined[r].barrier = 2 => \A q \in Host(r) : joined[q].barrier >= 1
    /\ pc[r] # "htopo_mapped" /\ joined[r].barrier = 2 => \A q \in Host(r) : joined[q].barrier = 2

Together ==
    /\ TypeOK
    /\ netnums \in Orders(netnum)
    /\ \A r \in Rank : Alone(r) /\ Waited(r)

\* The collective operations and the communicators they are called on.
LEMMA MeetingIs ==
    /\ DOMAIN Meeting = {"gather", "split", "reduce", "neighbours", "bseg_made", "bseg_mapped",
                         "htopo_filled", "htopo_mapped"}
    /\ Meeting["gather"] = "commchan" /\ Meeting["split"] = "commchan"
    /\ Meeting["reduce"] = "commchan" /\ Meeting["neighbours"] = "smpcomm"
    /\ Meeting["bseg_made"] = "smpcomm" /\ Meeting["bseg_mapped"] = "smpcomm"
    /\ Meeting["htopo_filled"] = "barrier" /\ Meeting["htopo_mapped"] = "barrier"
BY DEF Meeting

\* The places of the model, as an explicit set.
LEMMA LabelIs ==
    Label = {"start", "bseg_path", "bseg_create", "bseg_init", "bseg_attach", "bseg_unlink",
             "htopo_path", "load", "length", "htopo_create", "htopo_fill", "htopo_attach",
             "htopo_unlink", "import", "done", "gather", "split", "reduce", "neighbours",
             "bseg_made", "bseg_mapped", "htopo_filled", "htopo_mapped"}
BY MeetingIs DEF Label

Counts == [commchan : 0 .. 3, smpcomm : 0 .. 3, barrier : 0 .. 2]

(***************************************************************************)
(* What a rank knows where it is                                           *)
(***************************************************************************)
Message == {"bseg", "htopo", "no_path", "length"}

\* The values that a rank's own variables take.
Fits(r) ==
    /\ pc[r] \in Label /\ joined[r] \in Counts
    /\ bseg[r] \in {"none", "zeros", "barrier"}
    /\ topo[r] \in {NoTopology} \cup Topologies
    /\ result[r] \in {"none", "SUCCESS", "NO_PATH", "ERR"}

\* The invariant in the parts that the steps below use.
LEMMA TogetherIs ==
    ASSUME Together
    PROVE  /\ netnum \in [Rank -> Nat] /\ netnums \in Orders(netnum) /\ noMT \in BOOLEAN
           /\ chan \in [Rank -> Seq(Message)]
           /\ \A r \in Rank : Fits(r) /\ Alone(r) /\ Waited(r)
<1>1. netnum \in [Rank -> Nat] /\ noMT \in BOOLEAN
  BY CreateContextAssumption DEF Together, TypeOK
<1>2. chan \in [Rank -> Seq(Message)]
  BY DEF Together, TypeOK, Message
<1>3. ASSUME NEW r \in Rank PROVE Fits(r)
  BY DEF Together, TypeOK, Counts, Fits
<1>. QED  BY <1>1, <1>2, <1>3 DEF Together

\* Before it returns, a rank has come to the meetings of its label, and with
\* three of the communicator's it knows its node.
LEMMA Here ==
    ASSUME Together, NEW r \in Rank, pc[r] # "done"
    PROVE  result[r] = "none" /\ Attended(joined[r], pc[r])
BY TogetherIs DEF Alone, Attends

\* Once the communicator is split its members are the ranks of the host, and
\* rank 0 in it is the host's lowest.
LEMMA LeadsIs ==
    ASSUME Together, NEW r \in Rank, joined[r].commchan = 3
    PROVE  node[r] = Host(r) /\ Leader(r) = Lowest(r) /\ (Leads(r) <=> r = Lowest(r))
<1>1. node[r] = Host(r)
  BY TogetherIs DEF Alone, Known
<1>. QED  BY <1>1 DEF Leader, Leads, Lowest

\* What joining a collective operation changes: the place, and one counter.
LEMMA JoinIs ==
    ASSUME Together, NEW r \in Rank, NEW l \in DOMAIN Meeting, Join(r, l)
    PROVE  /\ pc'[r] = l
           /\ joined'[r].commchan = joined[r].commchan + IF Meeting[l] = "commchan" THEN 1 ELSE 0
           /\ joined'[r].smpcomm = joined[r].smpcomm + IF Meeting[l] = "smpcomm" THEN 1 ELSE 0
           /\ joined'[r].barrier = joined[r].barrier + IF Meeting[l] = "barrier" THEN 1 ELSE 0
           /\ joined'[r].commchan \in 0 .. 3 /\ joined'[r].smpcomm \in 0 .. 3
                  /\ joined'[r].barrier \in 0 .. 2 => joined'[r] \in Counts
           /\ joined' = [joined EXCEPT ![r] = joined'[r]]
<1>1. pc \in [Rank -> Label] /\ joined \in [Rank -> Counts]
  BY DEF Together, TypeOK, Counts
<1>2. Meeting[l] \in {"commchan", "smpcomm", "barrier"}
  BY MeetingIs
<1>3. pc'[r] = l /\ joined' = [joined EXCEPT ![r] = [joined[r] EXCEPT ![Meeting[l]] = @ + 1]]
  BY <1>1 DEF Join
<1>4. joined'[r] = [joined[r] EXCEPT ![Meeting[l]] = @ + 1]
  BY <1>1, <1>3
<1>5. joined[r] \in Counts
  BY <1>1
<1>6. joined' = [joined EXCEPT ![r] = joined'[r]]
  BY <1>3, <1>4
<1>7. /\ joined'[r].commchan = joined[r].commchan + IF Meeting[l] = "commchan" THEN 1 ELSE 0
      /\ joined'[r].smpcomm = joined[r].smpcomm + IF Meeting[l] = "smpcomm" THEN 1 ELSE 0
      /\ joined'[r].barrier = joined[r].barrier + IF Meeting[l] = "barrier" THEN 1 ELSE 0
      /\ joined'[r].commchan \in 0 .. 3 /\ joined'[r].smpcomm \in 0 .. 3
             /\ joined'[r].barrier \in 0 .. 2 => joined'[r] \in Counts
  <2>1. CASE Meeting[l] = "commchan"
    BY <1>4, <1>5, <2>1 DEF Counts
  <2>2. CASE Meeting[l] = "smpcomm"
    BY <1>4, <1>5, <2>2 DEF Counts
  <2>3. CASE Meeting[l] = "barrier"
    BY <1>4, <1>5, <2>3 DEF Counts
  <2>. QED  BY <1>2, <2>1, <2>2, <2>3
<1>. QED  BY <1>3, <1>6, <1>7

\* What a local step changes: the place, and no counter.
LEMMA GotoIs ==
    ASSUME Together, NEW r \in Rank, NEW l, Goto(r, l)
    PROVE  pc'[r] = l /\ joined' = joined
<1>1. pc \in [Rank -> Label]
  BY DEF Together, TypeOK
<1>. QED  BY <1>1 DEF Goto

\* A rank that meets the members of its node finds them all there.
LEMMA MetIs ==
    ASSUME Together, NEW r \in Rank, NEW l \in DOMAIN Meeting, Met(r, l)
    PROVE  /\ pc[r] = l
           /\ Meeting[l] = "commchan" => \A q \in Rank : joined[q].commchan >= joined[r].commchan
           /\ Meeting[l] = "smpcomm" => \A q \in Host(r) : joined[q].smpcomm >= joined[r].smpcomm
           /\ Meeting[l] = "barrier" => \A q \in Host(r) : joined[q].barrier >= joined[r].barrier
<1>1. pc[r] = l
  BY DEF Met
<1>2. Meeting[l] # "commchan" => node[r] = Host(r)
  <2>1. ASSUME Meeting[l] # "commchan" PROVE pc[r] \notin {"done", "start", "gather", "split"}
    BY <1>1, <2>1, MeetingIs
  <2>2. ASSUME Meeting[l] # "commchan" PROVE joined[r].commchan = 3
    BY <2>1, <2>2, Here DEF Attended
  <2>. QED  BY <2>2, LeadsIs
<1>. QED  BY <1>1, <1>2 DEF Met

(***************************************************************************)
(* A step of one rank                                                      *)
(***************************************************************************)
\* Nothing of the other ranks changes but their channels, and the rank only
\* comes to more meetings.
Only(r) ==
    /\ UNCHANGED fixed
    /\ pc' = [pc EXCEPT ![r] = pc'[r]] /\ joined' = [joined EXCEPT ![r] = joined'[r]]
    /\ color' = [color EXCEPT ![r] = color'[r]] /\ node' = [node EXCEPT ![r] = node'[r]]
    /\ nnodes' = [nnodes EXCEPT ![r] = nnodes'[r]]
    /\ bseg' = [bseg EXCEPT ![r] = bseg'[r]] /\ htopo' = [htopo EXCEPT ![r] = htopo'[r]]
    /\ topo' = [topo EXCEPT ![r] = topo'[r]] /\ result' = [result EXCEPT ![r] = result'[r]]
    /\ linked' \subseteq linked \cup {<<"bseg", r>>, <<"htopo", r>>}
    /\ linked \subseteq linked' \cup {<<"bseg", r>>, <<"htopo", r>>}

Joins(r) ==
    /\ joined[r].commchan <= joined'[r].commchan
    /\ joined[r].smpcomm <= joined'[r].smpcomm
    /\ joined[r].barrier <= joined'[r].barrier

\* What makes one more of the conditions of Waited hold of the rank.
Waits(r) ==
    /\ /\ pc'[r] = "bseg_attach" \/ joined'[r].smpcomm = 3
       /\ ~(pc[r] = "bseg_attach" \/ joined[r].smpcomm = 3)
       => \A q \in Host(r) : joined[q].smpcomm >= 2
    /\ /\ pc'[r] # "bseg_mapped" /\ joined'[r].smpcomm = 3
       /\ ~(pc[r] # "bseg_mapped" /\ joined[r].smpcomm = 3)
       => \A q \in Host(r) : joined[q].smpcomm >= 3
    /\ /\ pc'[r] = "htopo_attach" \/ joined'[r].barrier = 2
       /\ ~(pc[r] = "htopo_attach" \/ joined[r].barrier = 2)
       => \A q \in Host(r) : joined[q].barrier >= 1
    /\ /\ pc'[r] # "htopo_mapped" /\ joined'[r].barrier = 2
       /\ ~(pc[r] # "htopo_mapped" /\ joined[r].barrier = 2)
       => \A q \in Host(r) : joined[q].barrier >= 2

\* A step of one rank leaves alone everything that another rank has.
LEMMA OnlyIs ==
    ASSUME Together, NEW r \in Rank, Only(r), NEW q \in Rank, q # r
    PROVE  /\ pc'[q] = pc[q] /\ joined'[q] = joined[q] /\ color'[q] = color[q]
           /\ node'[q] = node[q] /\ nnodes'[q] = nnodes[q] /\ bseg'[q] = bseg[q]
           /\ htopo'[q] = htopo[q] /\ topo'[q] = topo[q] /\ result'[q] = result[q]
           /\ <<"bseg", q>> \in linked' <=> <<"bseg", q>> \in linked
           /\ <<"htopo", q>> \in linked' <=> <<"htopo", q>> \in linked
<1>1. /\ pc'[q] = pc[q] /\ joined'[q] = joined[q] /\ color'[q] = color[q]
      /\ node'[q] = node[q] /\ nnodes'[q] = nnodes[q] /\ bseg'[q] = bseg[q]
      /\ htopo'[q] = htopo[q] /\ topo'[q] = topo[q] /\ result'[q] = result[q]
  BY DEF Only, Together, TypeOK
<1>2. /\ <<"bseg", q>> \in linked' <=> <<"bseg", q>> \in linked
      /\ <<"htopo", q>> \in linked' <=> <<"htopo", q>> \in linked
  BY DEF Only
<1>. QED  BY <1>1, <1>2

\* What is known of a rank by itself outlives a step of another rank.
LEMMA AloneKept ==
    ASSUME Together, NEW r \in Rank, Only(r), NEW q \in Rank, q # r
    PROVE  Alone(q)'
<1>. USE OnlyIs, FixedKept
<1>1. UNCHANGED fixed /\ Alone(q)
  BY TogetherIs DEF Only
<1>2. Attends(q)'
  BY <1>1 DEF Alone, Attends
<1>3. Known(q)'
  <2>1. /\ Color(netnums, q)' = Color(netnums, q) /\ Host(q)' = Host(q) /\ Hosts' = Hosts
        /\ Known(q)
    BY <1>1 DEF Alone
  <2>2. color'[q] = color[q] /\ node'[q] = node[q] /\ nnodes'[q] = nnodes[q] /\ joined'[q] = joined[q]
    OBVIOUS
  <2>. QED  BY ONLY <2>1, <2>2 DEF Known
<1>4. Placed(q)'
  BY <1>1 DEF Alone, Placed
<1>5. HasBarrier(q)'
  BY <1>1 DEF Alone, HasBarrier
<1>6. HasTopology(q)'
  BY <1>1 DEF Alone, HasTopology
<1>. QED  BY <1>2, <1>3, <1>4, <1>5, <1>6 DEF Alone

\* Who has waited for whom stays true across a step of one rank that joins
\* and waits in order.
LEMMA WaitedKept ==
    ASSUME Together, NEW r \in Rank, Only(r), Joins(r), Waits(r), Fits(r)', NEW p \in Rank
    PROVE  Waited(p)'
<1>1. UNCHANGED fixed
  BY DEF Only
<1>2. Host(p)' = Host(p) /\ Host(p) \subseteq Rank
  BY <1>1, FixedKept DEF Host
<1>3. Waited(p)
  BY TogetherIs
<1>4. ASSUME NEW q \in Rank
      PROVE  /\ joined[q].smpcomm \in 0 .. 3 /\ joined'[q].smpcomm \in 0 .. 3
             /\ joined[q].barrier \in 0 .. 2 /\ joined'[q].barrier \in 0 .. 2
             /\ joined[q].smpcomm <= joined'[q].smpcomm
             /\ joined[q].barrier <= joined'[q].barrier
  <2>1. joined[q] \in Counts
    BY TogetherIs DEF Fits
  <2>2. q # r => joined'[q] = joined[q]
    BY OnlyIs
  <2>3. joined'[r] \in Counts
    BY DEF Fits
  <2>4. /\ joined[q].smpcomm \in 0 .. 3 /\ joined[q].barrier \in 0 .. 2
        /\ joined'[r].smpcomm \in 0 .. 3 /\ joined'[r].barrier \in 0 .. 2
    BY <2>1, <2>3 DEF Counts
  <2>. QED  BY <2>2, <2>4 DEF Joins
<1>5. p # r => pc'[p] = pc[p] /\ joined'[p] = joined[p]
  BY OnlyIs
<1>6. pc'[p] = "bseg_attach" \/ joined'[p].smpcomm = 3 => \A q \in Host(p) : joined'[q].smpcomm >= 2
  BY <1>2, <1>3, <1>4, <1>5 DEF Waited, Waits
<1>7. pc'[p] # "bseg_mapped" /\ joined'[p].smpcomm = 3 => \A q \in Host(p) : joined'[q].smpcomm = 3
  BY <1>2, <1>3, <1>4, <1>5 DEF Waited, Waits
<1>8. pc'[p] = "htopo_attach" \/ joined'[p].barrier = 2 => \A q \in Host(p) : joined'[q].barrier >= 1
  BY <1>2, <1>3, <1>4, <1>5 DEF Waited, Waits
<1>9. pc'[p] # "htopo_mapped" /\ joined'[p].barrier = 2 => \A q \in Host(p) : joined'[q].barrier = 2
  BY <1>2, <1>3, <1>4, <1>5 DEF Waited, Waits
<1>. QED  BY <1>2, <1>6, <1>7, <1>8, <1>9 DEF Waited

\* The topology a context loads is one, and is not the absent one.
LEMMA TopoIs ==
    ASSUME noMT \in BOOLEAN
    PROVE  TopoOf(noMT) \in Topologies /\ TopoOf(noMT) # NoTopology
<1>1. TopoOf(noMT) \in Topologies
  BY LevelsAre, DisabledOnce DEF TopoOf
<1>2. ASSUME NEW t \in Topologies PROVE t # NoTopology
  <2>1. "PU" \in DOMAIN t /\ DOMAIN NoTopology = {}
    BY DEF Topologies, HwlocType, NoTopology
  <2>. QED  BY <2>1
<1>. QED  BY <1>1, <1>2

\* A step of one rank keeps the types when it keeps those of the rank's own
\* state and of the channels.
LEMMA TypedNext ==
    ASSUME Together, NEW r \in Rank, Only(r), Fits(r)', Alone(r)', chan' \in [Rank -> Seq(Message)]
    PROVE  TypeOK' /\ (netnums \in Orders(netnum))'
<1>1. UNCHANGED fixed
  BY DEF Only
<1>2. (netnums \in Orders(netnum))'
  <2>1. Orders(netnum)' = Orders(netnum)
    BY <1>1 DEF fixed, Orders
  <2>. QED  BY <1>1, <2>1, TogetherIs DEF fixed
<1>3. (netnum \in NetNums /\ netnums \in [1 .. N -> Range(netnum)] /\ noMT \in Flags)'
  BY <1>1 DEF fixed, Together, TypeOK
<1>4. pc' \in [Rank -> Label] /\ joined' \in [Rank -> Counts]
  BY DEF Only, Fits, Together, TypeOK, Counts
<1>5. bseg' \in [Rank -> {"none", "zeros", "barrier"}]
  BY DEF Only, Fits, Together, TypeOK
<1>6. topo' \in [Rank -> {NoTopology} \cup Topologies]
  BY DEF Only, Fits, Together, TypeOK
<1>7. result' \in [Rank -> {"none", "SUCCESS", "NO_PATH", "ERR"}]
  BY DEF Only, Fits, Together, TypeOK
<1>8. linked' \subseteq {"bseg", "htopo"} \X Rank
  <2>1. linked \subseteq {"bseg", "htopo"} \X Rank
    BY DEF Together, TypeOK
  <2>2. {<<"bseg", r>>, <<"htopo", r>>} \subseteq {"bseg", "htopo"} \X Rank
    OBVIOUS
  <2>. QED  BY <2>1, <2>2 DEF Only
<1>9. /\ color'[r] \in -1 .. N - 1 /\ node'[r] \in SUBSET Rank /\ nnodes'[r] \in 0 .. N
      /\ htopo'[r] \in {NoTopology} \cup Topologies
  <2>1. /\ color'[r] = (IF joined'[r].commchan >= 2 THEN Color(netnums, r) ELSE -1)
        /\ node'[r] = (IF joined'[r].commchan = 3 THEN Host(r) ELSE {})
        /\ nnodes'[r] = (IF joined'[r].smpcomm >= 1 THEN Hosts ELSE 0)
        /\ htopo'[r] \in {TopoOf(noMT), NoTopology}
    BY <1>1, FixedKept DEF Alone, Known, HasTopology
  <2>2. Color(netnums, r) \in 0 .. N - 1 /\ Hosts \in 0 .. N /\ Host(r) \in SUBSET Rank
    BY TogetherIs, ColorIs, HostsAre DEF Host
  <2>3. TopoOf(noMT) \in Topologies
    BY TogetherIs, TopoIs
  <2>. QED  BY <2>1, <2>2, <2>3, RankIs
<1>10. color' \in [Rank -> -1 .. N - 1]
  BY <1>9 DEF Only, Together, TypeOK
<1>11. node' \in [Rank -> SUBSET Rank]
  BY <1>9 DEF Only, Together, TypeOK
<1>12. nnodes' \in [Rank -> 0 .. N]
  BY <1>9 DEF Only, Together, TypeOK
<1>13. htopo' \in [Rank -> {NoTopology} \cup Topologies]
  BY <1>9 DEF Only, Together, TypeOK
<1>. QED
  BY <1>2, <1>3, <1>4, <1>5, <1>6, <1>7, <1>8, <1>10, <1>11, <1>12, <1>13
  DEF TypeOK, Counts, Message

\* What is left to say of a step: what holds of its rank.
LEMMA TogetherKept ==
    ASSUME Together, NEW r \in Rank, Only(r), Joins(r), Waits(r), Fits(r)', Alone(r)',
           chan' \in [Rank -> Seq(Message)]
    PROVE  Together' /\ Only(r) /\ Joins(r)
<1>1. TypeOK' /\ (netnums \in Orders(netnum))'
  BY TypedNext
<1>2. ASSUME NEW p \in Rank PROVE Waited(p)'
  BY WaitedKept
<1>3. ASSUME NEW p \in Rank PROVE Alone(p)'
  BY AloneKept
<1>. QED  BY <1>1, <1>2, <1>3 DEF Together

\* A step that leaves a variable alone leaves each rank's part of it as it
\* was.
LEMMA Same ==
    ASSUME Together, NEW r \in Rank
    PROVE  /\ pc = [pc EXCEPT ![r] = pc[r]] /\ joined = [joined EXCEPT ![r] = joined[r]]
           /\ color = [color EXCEPT ![r] = color[r]] /\ node = [node EXCEPT ![r] = node[r]]
           /\ nnodes = [nnodes EXCEPT ![r] = nnodes[r]]
           /\ bseg = [bseg EXCEPT ![r] = bseg[r]] /\ htopo = [htopo EXCEPT ![r] = htopo[r]]
           /\ topo = [topo EXCEPT ![r] = topo[r]] /\ result = [result EXCEPT ![r] = result[r]]
BY DEF Together, TypeOK

\* Where a step takes the rank.
LEMMA GoneTo ==
    ASSUME Together, NEW r \in Rank, NEW l \in Label, Goto(r, l)
    PROVE  /\ pc'[r] = l /\ joined'[r] = joined[r] /\ joined'[r] \in Counts /\ Joins(r)
           /\ pc' = [pc EXCEPT ![r] = pc'[r]] /\ joined' = [joined EXCEPT ![r] = joined'[r]]
<1>1. pc'[r] = l /\ joined' = joined
  BY GotoIs
<1>2. joined[r] \in Counts
  BY TogetherIs DEF Fits
<1>3. pc' = [pc EXCEPT ![r] = pc'[r]]
  BY <1>1 DEF Goto
<1>4. Joins(r)
  BY <1>1, <1>2 DEF Joins, Counts
<1>. QED  BY <1>1, <1>2, <1>3, <1>4, Same

\* What a rank that joins an operation has joined by then, by its place.
LEMMA JoinedAt ==
    ASSUME Together, NEW r \in Rank, NEW l \in DOMAIN Meeting, Join(r, l),
           pc[r] # "done",
           Meeting[l] = "commchan" => pc[r] \in {"start", "gather", "split"},
           Meeting[l] = "smpcomm" => pc[r] \notin {"bseg_mapped", "bseg_unlink", "htopo_path", "load",
               "length", "htopo_create", "htopo_fill", "htopo_filled", "htopo_attach",
               "htopo_mapped", "htopo_unlink", "import"},
           Meeting[l] = "barrier" => pc[r] \notin {"htopo_mapped", "htopo_unlink", "import"}
    PROVE  /\ pc'[r] = l /\ joined'[r] \in Counts /\ Joins(r)
           /\ joined'[r].commchan = joined[r].commchan + IF Meeting[l] = "commchan" THEN 1 ELSE 0
           /\ joined'[r].smpcomm = joined[r].smpcomm + IF Meeting[l] = "smpcomm" THEN 1 ELSE 0
           /\ joined'[r].barrier = joined[r].barrier + IF Meeting[l] = "barrier" THEN 1 ELSE 0
           /\ pc' = [pc EXCEPT ![r] = pc'[r]] /\ joined' = [joined EXCEPT ![r] = joined'[r]]
<1>1. joined[r] \in Counts /\ pc[r] \in Label
  BY TogetherIs DEF Fits
<1>2. /\ joined[r].commchan \in 0 .. 3 /\ joined[r].smpcomm \in 0 .. 3 /\ joined[r].barrier \in 0 .. 2
  BY <1>1 DEF Counts
<1>3. /\ Meeting[l] = "commchan" => joined[r].commchan < 3
      /\ Meeting[l] = "smpcomm" => joined[r].smpcomm < 3
      /\ Meeting[l] = "barrier" => joined[r].barrier < 2
  BY <1>1, <1>2, Here, LabelIs DEF Attended
<1>4. pc'[r] = l /\ pc' = [pc EXCEPT ![r] = pc'[r]]
  <2>1. pc \in [Rank -> Label]
    BY DEF Together, TypeOK
  <2>. QED  BY <2>1 DEF Join
<1>. QED  BY <1>2, <1>3, <1>4, JoinIs DEF Joins

(***************************************************************************)
(* Steps that only take the rank further                                   *)
(***************************************************************************)
Walk(from, to, lowest) ==
    \/ from = "start" /\ to = "gather"
    \/ from = "neighbours" /\ to = "bseg_path"
    \/ from = "bseg_path" /\ to = IF lowest THEN "bseg_create" ELSE "bseg_made"
    \/ from = "bseg_made" /\ to = IF lowest THEN "bseg_mapped" ELSE "bseg_attach"
    \/ from = "bseg_attach" /\ to = "bseg_mapped"
    \/ from = "bseg_mapped" /\ to = IF lowest THEN "bseg_unlink" ELSE "htopo_path"
    \/ from = "htopo_path" /\ to = IF lowest THEN "load" ELSE "length"
    \/ from = "length" /\ to = "htopo_filled"
    \/ from = "htopo_filled" /\ to = IF lowest THEN "htopo_mapped" ELSE "htopo_attach"
    \/ from = "htopo_attach" /\ to = "htopo_mapped"
    \/ from = "htopo_mapped" /\ to = IF lowest THEN "htopo_unlink" ELSE "import"

\* The program's order of places: a rank that moves along it has what its new
\* place requires, and waits where it must.
LEMMA Walks ==
    ASSUME Together, NEW r \in Rank, NEW l \in Label, Walk(pc[r], l, r = Lowest(r)),
           IF l \in DOMAIN Meeting THEN Join(r, l) ELSE Goto(r, l),
           pc[r] = "bseg_made" => \A q \in Host(r) : joined[q].smpcomm >= 2,
           pc[r] = "bseg_mapped" => \A q \in Host(r) : joined[q].smpcomm >= 3,
           pc[r] = "htopo_filled" => \A q \in Host(r) : joined[q].barrier >= 1,
           pc[r] = "htopo_mapped" => \A q \in Host(r) : joined[q].barrier >= 2,
           UNCHANGED <<fixed, groups, memory, topo, result>>, chan' \in [Rank -> Seq(Message)]
    PROVE  Together' /\ Only(r) /\ Joins(r)
<1>. DEFINE lowest == r = Lowest(r)
<1>1. Fits(r) /\ Alone(r)
  BY TogetherIs
<1>2. pc[r] # "done" /\ l # "done" /\ l # pc[r]
  BY DEF Walk
<1>3. /\ pc'[r] = l /\ joined'[r] \in Counts /\ Joins(r)
      /\ joined'[r].commchan = joined[r].commchan + (IF l = "gather" THEN 1 ELSE 0)
      /\ joined'[r].smpcomm = joined[r].smpcomm + (IF l \in {"bseg_made", "bseg_mapped"} THEN 1 ELSE 0)
      /\ joined'[r].barrier
             = joined[r].barrier + (IF l \in {"htopo_filled", "htopo_mapped"} THEN 1 ELSE 0)
      /\ pc' = [pc EXCEPT ![r] = pc'[r]] /\ joined' = [joined EXCEPT ![r] = joined'[r]]
  <2>1. l \notin {"split", "reduce", "neighbours"}
    BY DEF Walk
  <2>2. CASE l \in DOMAIN Meeting
    <3>1. /\ Meeting[l] = "commchan" => pc[r] \in {"start", "gather", "split"}
          /\ Meeting[l] = "smpcomm" => pc[r] \notin {"bseg_mapped", "bseg_unlink", "htopo_path", "load",
                 "length", "htopo_create", "htopo_fill", "htopo_filled", "htopo_attach",
                 "htopo_mapped", "htopo_unlink", "import"}
          /\ Meeting[l] = "barrier" => pc[r] \notin {"htopo_mapped", "htopo_unlink", "import"}
      BY <2>1, <2>2, MeetingIs DEF Walk
    <3>. QED  BY <1>2, <2>1, <2>2, <3>1, JoinedAt, MeetingIs
  <2>3. CASE l \notin DOMAIN Meeting
    <3>1. joined[r].commchan \in Int /\ joined[r].smpcomm \in Int /\ joined[r].barrier \in Int
      BY <1>1 DEF Fits, Counts
    <3>2. /\ pc'[r] = l /\ joined'[r] = joined[r] /\ joined'[r] \in Counts /\ Joins(r)
          /\ pc' = [pc EXCEPT ![r] = pc'[r]] /\ joined' = [joined EXCEPT ![r] = joined'[r]]
      BY <2>3, GoneTo
    <3>. QED  BY <2>3, <3>1, <3>2, MeetingIs
  <2>. QED  BY <2>2, <2>3
<1>4. /\ color' = color /\ node' = node /\ nnodes' = nnodes /\ linked' = linked /\ bseg' = bseg
      /\ htopo' = htopo /\ topo' = topo /\ result' = result /\ UNCHANGED fixed
  BY DEF groups, memory
<1>5. Only(r)
  BY <1>3, <1>4, Same DEF Only
<1>6. Fits(r)'
  BY <1>1, <1>3, <1>4 DEF Fits
<1>7. result[r] = "none" /\ Attended(joined[r], pc[r])
  BY <1>2, Here
<1>8. Attends(r)'
  <2>1. pc'[r] # "done" /\ result'[r] = "none"
    BY <1>2, <1>3, <1>4, <1>7
  <2>2. Attended(joined'[r], pc'[r])
    BY <1>3, <1>7 DEF Walk, Attended
  <2>. QED  BY <2>1, <2>2 DEF Attends, Attended
<1>9. Host(r)' = Host(r) /\ Lowest(r)' = Lowest(r) /\ Hosts' = Hosts /\ noMT' = noMT
      /\ Color(netnums, r)' = Color(netnums, r)
  BY FixedKept
<1>10. Known(r)'
  BY <1>1, <1>3, <1>4, <1>7, <1>9 DEF Walk, Attended, Alone, Known
<1>11. Placed(r)'
  BY <1>1, <1>3, <1>4, <1>7, <1>9 DEF Walk, Attended, Alone, Placed, LowestPlaces, OtherPlaces
<1>12. HasBarrier(r)'
  BY <1>1, <1>3, <1>4, <1>7, <1>9 DEF Walk, Attended, Alone, Placed, LowestPlaces, OtherPlaces, HasBarrier
<1>13. HasTopology(r)'
  BY <1>1, <1>3, <1>4, <1>7, <1>9 DEF Walk, Attended, Alone, Placed, LowestPlaces, OtherPlaces, HasTopology
<1>14. Waits(r)
  BY <1>3, <1>7 DEF Walk, Attended, Waits
<1>. QED
  BY <1>3, <1>5, <1>6, <1>8, <1>10, <1>11, <1>12, <1>13, <1>14, TogetherKept DEF Alone

(***************************************************************************)
(* Steps in which the rank gives up                                        *)
(***************************************************************************)
LEMMA Stops ==
    ASSUME Together, NEW r \in Rank, NEW rc \in {"ERR", "NO_PATH"}, Return(r, rc),
           pc[r] \in {"start", "bseg_path", "bseg_create", "bseg_init", "bseg_attach",
                      "htopo_path", "load", "htopo_create", "htopo_attach", "import"},
           UNCHANGED <<fixed, groups, topo, bseg, htopo>>, chan' \in [Rank -> Seq(Message)],
           \/ linked' = linked
           \/ pc[r] = "bseg_create" /\ linked' = linked \cup {<<"bseg", r>>}
           \/ pc[r] = "htopo_create" /\ linked' = linked \cup {<<"htopo", r>>}
    PROVE  Together' /\ Only(r) /\ Joins(r)
<1>1. Fits(r) /\ Alone(r)
  BY TogetherIs
<1>2. pc[r] # "done"
  OBVIOUS
<1>3. /\ pc'[r] = "done" /\ joined'[r] = joined[r] /\ joined'[r] \in Counts /\ Joins(r)
      /\ pc' = [pc EXCEPT ![r] = pc'[r]] /\ joined' = [joined EXCEPT ![r] = joined'[r]]
  BY LabelIs, GoneTo DEF Return
<1>4. /\ color' = color /\ node' = node /\ nnodes' = nnodes /\ bseg' = bseg
      /\ htopo' = htopo /\ topo' = topo /\ UNCHANGED fixed
  BY DEF groups
<1>5. result'[r] = rc /\ result' = [result EXCEPT ![r] = result'[r]]
  BY DEF Return, Together, TypeOK
<1>6. Only(r)
  BY <1>3, <1>4, <1>5, Same DEF Only
<1>7. Fits(r)'
  BY <1>1, <1>3, <1>4, <1>5, LabelIs DEF Fits
<1>8. result[r] = "none" /\ Attended(joined[r], pc[r])
  BY <1>2, Here
<1>9. Host(r)' = Host(r) /\ Lowest(r)' = Lowest(r) /\ Hosts' = Hosts /\ noMT' = noMT
      /\ Color(netnums, r)' = Color(netnums, r)
  BY <1>4, FixedKept
<1>10. Attends(r)'
  <2>1. pc[r] \in Label \ {"done"} /\ Attended(joined'[r], pc[r])
    BY <1>1, <1>2, <1>3, <1>8 DEF Fits
  <2>. QED  BY <1>3, <1>5, <2>1 DEF Attends, Attended
<1>11. Known(r)'
  BY <1>1, <1>3, <1>4, <1>9 DEF Alone, Known
<1>12. Placed(r)'
  BY <1>1, <1>3, <1>8, <1>9 DEF Alone, Placed, Attended, LowestPlaces, OtherPlaces
<1>13. HasBarrier(r)'
  BY <1>1, <1>3, <1>4, <1>8, <1>9 DEF Alone, HasBarrier, Attended
<1>14. HasTopology(r)'
  BY <1>1, <1>3, <1>4, <1>5, <1>8, <1>9 DEF Alone, HasTopology, Attended
<1>15. Waits(r)
  BY <1>3 DEF Waits
<1>. QED
  BY <1>3, <1>6, <1>7, <1>10, <1>11, <1>12, <1>13, <1>14, <1>15, TogetherKept DEF Alone

(***************************************************************************)
(* Finding the node                                                        *)
(***************************************************************************)
LEMMA GetColorKeeps == ASSUME Together, NEW r \in Rank, GetColor(r) PROVE Together' /\ Only(r) /\ Joins(r)
<1>. USE LabelIs, MeetingIs
<1>1. pc[r] = "gather" /\ Join(r, "split") /\ "split" \in DOMAIN Meeting /\ pc[r] # "done"
  BY DEF GetColor, Met
<1>2. result[r] = "none" /\ Attended(joined[r], "gather") /\ Fits(r) /\ Alone(r)
  BY <1>1, Here, TogetherIs
<1>3. /\ pc'[r] = "split" /\ joined'[r] \in Counts /\ Joins(r) /\ Attended(joined'[r], "split")
      /\ pc' = [pc EXCEPT ![r] = pc'[r]] /\ joined' = [joined EXCEPT ![r] = joined'[r]]
  BY <1>1, <1>2, JoinedAt DEF Attended
<1>4. /\ color'[r] = Color(netnums, r) /\ color' = [color EXCEPT ![r] = color'[r]]
      /\ node' = node /\ nnodes' = nnodes /\ linked' = linked /\ bseg' = bseg
      /\ htopo' = htopo /\ topo' = topo /\ result' = result /\ UNCHANGED fixed /\ chan' = chan
  BY DEF GetColor, memory, Together, TypeOK
<1>5. Only(r) /\ Fits(r)'
  BY <1>2, <1>3, <1>4, Same DEF Only, Fits
<1>6. Host(r)' = Host(r) /\ Lowest(r)' = Lowest(r) /\ Hosts' = Hosts /\ noMT' = noMT
      /\ Color(netnums, r)' = Color(netnums, r)
  BY <1>4, FixedKept
<1>7. Alone(r)'
  BY <1>2, <1>3, <1>4, <1>6
  DEF Attended, Alone, Attends, Known, Placed, HasBarrier, HasTopology, LowestPlaces, OtherPlaces
<1>8. Waits(r)
  BY <1>3 DEF Waits, Attended
<1>. QED  BY <1>3, <1>4, <1>5, <1>7, <1>8, TogetherKept, TogetherIs

\* Ranks of equal color are the ranks of one host.
LEMMA SplitKeeps == ASSUME Together, NEW r \in Rank, Split(r) PROVE Together' /\ Only(r) /\ Joins(r)
<1>. USE LabelIs, MeetingIs
<1>1. pc[r] = "split" /\ Join(r, "reduce") /\ "reduce" \in DOMAIN Meeting /\ pc[r] # "done"
  BY DEF Split, Met
<1>2. result[r] = "none" /\ Attended(joined[r], "split") /\ Fits(r) /\ Alone(r)
  BY <1>1, Here, TogetherIs
<1>3. /\ pc'[r] = "reduce" /\ joined'[r] \in Counts /\ Joins(r) /\ Attended(joined'[r], "reduce")
      /\ pc' = [pc EXCEPT ![r] = pc'[r]] /\ joined' = [joined EXCEPT ![r] = joined'[r]]
  BY <1>1, <1>2, JoinedAt DEF Attended
<1>4. {q \in Rank : color[q] = color[r]} = Host(r)
  <2>1. \A q \in Rank : joined[q].commchan >= 2
    <3>1. \A q \in Rank : joined[q].commchan >= joined[r].commchan
      BY <1>1, MetIs DEF Split
    <3>. QED  BY <1>2, <3>1 DEF Attended
  <2>2. \A q \in Rank : color[q] = Color(netnums, q)
    BY <2>1, TogetherIs DEF Alone, Known
  <2>3. \A q \in Rank : Color(netnums, q) = Color(netnums, r) <=> netnum[q] = netnum[r]
    BY TogetherIs, ColorIs
  <2>. QED  BY <2>2, <2>3 DEF Host
<1>5. /\ node'[r] = Host(r) /\ node' = [node EXCEPT ![r] = node'[r]]
      /\ color' = color /\ nnodes' = nnodes /\ linked' = linked /\ bseg' = bseg
      /\ htopo' = htopo /\ topo' = topo /\ result' = result /\ UNCHANGED fixed /\ chan' = chan
  BY <1>4 DEF Split, memory, Together, TypeOK
<1>6. Only(r) /\ Fits(r)'
  BY <1>2, <1>3, <1>5, Same DEF Only, Fits
<1>7. Host(r)' = Host(r) /\ Lowest(r)' = Lowest(r) /\ Hosts' = Hosts /\ noMT' = noMT
      /\ Color(netnums, r)' = Color(netnums, r)
  BY <1>5, FixedKept
<1>8. Alone(r)'
  BY <1>2, <1>3, <1>5, <1>7
  DEF Attended, Alone, Attends, Known, Placed, HasBarrier, HasTopology, LowestPlaces, OtherPlaces
<1>9. Waits(r)
  BY <1>3 DEF Waits, Attended
<1>. QED  BY <1>3, <1>5, <1>6, <1>8, <1>9, TogetherKept, TogetherIs

\* One rank of every host leads its node.
LEMMA CountNodesKeeps == ASSUME Together, NEW r \in Rank, CountNodes(r) PROVE Together' /\ Only(r) /\ Joins(r)
<1>. USE LabelIs, MeetingIs
<1>1. pc[r] = "reduce" /\ Join(r, "neighbours") /\ "neighbours" \in DOMAIN Meeting /\ pc[r] # "done"
  BY DEF CountNodes, Met
<1>2. result[r] = "none" /\ Attended(joined[r], "reduce") /\ Fits(r) /\ Alone(r)
  BY <1>1, Here, TogetherIs
<1>3. /\ pc'[r] = "neighbours" /\ joined'[r] \in Counts /\ Joins(r)
      /\ Attended(joined'[r], "neighbours")
      /\ pc' = [pc EXCEPT ![r] = pc'[r]] /\ joined' = [joined EXCEPT ![r] = joined'[r]]
  BY <1>1, <1>2, JoinedAt DEF Attended
<1>4. Cardinality({q \in Rank : Leads(q)}) = Hosts
  <2>1. \A q \in Rank : joined[q].commchan = 3
    <3>1. \A q \in Rank : joined[q].commchan >= joined[r].commchan
      BY <1>1, MetIs DEF CountNodes
    <3>2. \A q \in Rank : joined[q].commchan \in 0 .. 3
      BY TogetherIs DEF Fits, Counts
    <3>. QED  BY <1>2, <3>1, <3>2 DEF Attended
  <2>2. \A q \in Rank : Leads(q) <=> q = Lowest(q)
    BY <2>1, LeadsIs
  <2>3. {q \in Rank : Leads(q)} = {q \in Rank : q = Lowest(q)}
    BY <2>2
  <2>. QED  BY <2>3, TogetherIs, HostsAre
<1>5. /\ nnodes'[r] = Hosts /\ nnodes' = [nnodes EXCEPT ![r] = nnodes'[r]]
      /\ color' = color /\ node' = node /\ linked' = linked /\ bseg' = bseg
      /\ htopo' = htopo /\ topo' = topo /\ result' = result /\ UNCHANGED fixed /\ chan' = chan
  BY <1>4 DEF CountNodes, memory, Together, TypeOK
<1>6. Only(r) /\ Fits(r)'
  BY <1>2, <1>3, <1>5, Same DEF Only, Fits
<1>7. Host(r)' = Host(r) /\ Lowest(r)' = Lowest(r) /\ Hosts' = Hosts /\ noMT' = noMT
      /\ Color(netnums, r)' = Color(netnums, r)
  BY <1>5, FixedKept
<1>8. Alone(r)'
  BY <1>2, <1>3, <1>5, <1>7
  DEF Attended, Alone, Attends, Known, Placed, HasBarrier, HasTopology, LowestPlaces, OtherPlaces
<1>9. Waits(r)
  BY <1>3 DEF Waits, Attended
<1>. QED  BY <1>3, <1>5, <1>6, <1>8, <1>9, TogetherKept, TogetherIs

\* A broadcast keeps the channels well typed.
LEMMA BroadcastTyped ==
    ASSUME Together, NEW r \in Rank, NEW m \in Message, Broadcast(r, m)
    PROVE  chan' \in [Rank -> Seq(Message)]
<1>1. chan \in [Rank -> Seq(Message)]
  BY TogetherIs
<1>2. ASSUME NEW q \in Rank PROVE Append(chan[q], m) \in Seq(Message)
  BY <1>1, AppendProperties
<1>. QED  BY <1>1, <1>2 DEF Broadcast

\* A receive keeps the channels well typed.
LEMMA ReceivedTyped ==
    ASSUME Together, NEW r \in Rank, NEW m, Received(r, m)
    PROVE  chan' \in [Rank -> Seq(Message)]
<1>1. chan \in [Rank -> Seq(Message)]
  BY TogetherIs
<1>2. chan[r] \in Seq(Message) /\ chan[r] # <<>>
  BY <1>1 DEF Received
<1>3. Tail(chan[r]) \in Seq(Message)
  BY <1>2, HeadTailProperties
<1>. QED  BY <1>1, <1>3 DEF Received

(***************************************************************************)
(* Setting up the barrier                                                  *)
(***************************************************************************)
LEMMA BarrierCreateKeeps == ASSUME Together, NEW r \in Rank, BarrierCreate(r) PROVE Together' /\ Only(r) /\ Joins(r)
<1>. USE LabelIs, MeetingIs
<1>1. pc[r] = "bseg_create" /\ Goto(r, "bseg_init") /\ "bseg_init" \in Label /\ pc[r] # "done"
  BY DEF BarrierCreate
<1>2. result[r] = "none" /\ Attended(joined[r], "bseg_create") /\ Fits(r) /\ Alone(r)
  BY <1>1, Here, TogetherIs
<1>3. /\ pc'[r] = "bseg_init" /\ joined'[r] \in Counts /\ Joins(r) /\ Attended(joined'[r], "bseg_init")
      /\ pc' = [pc EXCEPT ![r] = pc'[r]] /\ joined' = [joined EXCEPT ![r] = joined'[r]]
  BY <1>1, <1>2, GoneTo DEF Attended
<1>4. /\ linked' = linked \cup {<<"bseg", r>>}
      /\ bseg'[r] = "zeros" /\ bseg' = [bseg EXCEPT ![r] = bseg'[r]]
      /\ color' = color /\ node' = node /\ nnodes' = nnodes /\ htopo' = htopo
      /\ topo' = topo /\ result' = result /\ UNCHANGED fixed
  BY <1>1, TogetherIs DEF BarrierCreate, groups, Together, TypeOK
<1>5. chan' \in [Rank -> Seq(Message)]
  BY TogetherIs DEF BarrierCreate
<1>6. Only(r) /\ Fits(r)'
  BY <1>2, <1>3, <1>4, Same, TogetherIs, TopoIs DEF Only, Fits
<1>7. /\ Host(r)' = Host(r) /\ Lowest(r)' = Lowest(r) /\ Hosts' = Hosts /\ noMT' = noMT
      /\ Color(netnums, r)' = Color(netnums, r)
  BY <1>4, FixedKept
<1>8. Alone(r)'
  BY <1>1, <1>2, <1>3, <1>4, <1>7
  DEF Attended, Alone, Attends, Known, Placed, HasBarrier, HasTopology, LowestPlaces, OtherPlaces
<1>9. Waits(r)
  BY <1>1, <1>2, <1>3 DEF Waits, Attended
<1>. QED  BY <1>3, <1>5, <1>6, <1>8, <1>9, TogetherKept

\* The leader initialises the barrier in its segment: the invariant is kept.
LEMMA BarrierInitKeeps == ASSUME Together, NEW r \in Rank, BarrierInit(r) PROVE Together' /\ Only(r) /\ Joins(r)
<1>. USE LabelIs, MeetingIs
<1>1. pc[r] = "bseg_init" /\ Join(r, "bseg_made") /\ "bseg_made" \in DOMAIN Meeting /\ pc[r] # "done"
  BY DEF BarrierInit
<1>2. result[r] = "none" /\ Attended(joined[r], "bseg_init") /\ Fits(r) /\ Alone(r)
  BY <1>1, Here, TogetherIs
<1>3. /\ pc'[r] = "bseg_made" /\ joined'[r] \in Counts /\ Joins(r) /\ Attended(joined'[r], "bseg_made")
      /\ pc' = [pc EXCEPT ![r] = pc'[r]] /\ joined' = [joined EXCEPT ![r] = joined'[r]]
  BY <1>1, <1>2, JoinedAt DEF Attended
<1>4. /\ bseg'[r] = "barrier" /\ bseg' = [bseg EXCEPT ![r] = bseg'[r]]
      /\ color' = color /\ node' = node /\ nnodes' = nnodes /\ linked' = linked
      /\ htopo' = htopo /\ topo' = topo /\ result' = result /\ UNCHANGED fixed
  BY <1>1, TogetherIs DEF BarrierInit, groups, Together, TypeOK
<1>5. chan' \in [Rank -> Seq(Message)]
  BY TogetherIs DEF BarrierInit
<1>6. Only(r) /\ Fits(r)'
  BY <1>2, <1>3, <1>4, Same, TogetherIs, TopoIs DEF Only, Fits
<1>7. /\ Host(r)' = Host(r) /\ Lowest(r)' = Lowest(r) /\ Hosts' = Hosts /\ noMT' = noMT
      /\ Color(netnums, r)' = Color(netnums, r)
  BY <1>4, FixedKept
<1>8. Alone(r)'
  BY <1>1, <1>2, <1>3, <1>4, <1>7
  DEF Attended, Alone, Attends, Known, Placed, HasBarrier, HasTopology, LowestPlaces, OtherPlaces
<1>9. Waits(r)
  BY <1>1, <1>2, <1>3 DEF Waits, Attended
<1>. QED  BY <1>3, <1>5, <1>6, <1>8, <1>9, TogetherKept

\* The leader unlinks the barrier's segment: the invariant is kept.
LEMMA BarrierUnlinkKeeps == ASSUME Together, NEW r \in Rank, BarrierUnlink(r) PROVE Together' /\ Only(r) /\ Joins(r)
<1>. USE LabelIs, MeetingIs
<1>1. pc[r] = "bseg_unlink" /\ Goto(r, "htopo_path") /\ "htopo_path" \in Label /\ pc[r] # "done"
  BY DEF BarrierUnlink
<1>2. result[r] = "none" /\ Attended(joined[r], "bseg_unlink") /\ Fits(r) /\ Alone(r)
  BY <1>1, Here, TogetherIs
<1>3. /\ pc'[r] = "htopo_path" /\ joined'[r] \in Counts /\ Joins(r) /\ Attended(joined'[r], "htopo_path")
      /\ pc' = [pc EXCEPT ![r] = pc'[r]] /\ joined' = [joined EXCEPT ![r] = joined'[r]]
  BY <1>1, <1>2, GoneTo DEF Attended
<1>4. /\ linked' = linked \ {<<"bseg", r>>}
      /\ color' = color /\ node' = node /\ nnodes' = nnodes /\ bseg' = bseg
      /\ htopo' = htopo /\ topo' = topo /\ result' = result /\ UNCHANGED fixed
  BY <1>1, TogetherIs DEF BarrierUnlink, groups, Together, TypeOK
<1>5. chan' \in [Rank -> Seq(Message)]
  BY TogetherIs DEF BarrierUnlink
<1>6. Only(r) /\ Fits(r)'
  BY <1>2, <1>3, <1>4, Same, TogetherIs, TopoIs DEF Only, Fits
<1>7. /\ Host(r)' = Host(r) /\ Lowest(r)' = Lowest(r) /\ Hosts' = Hosts /\ noMT' = noMT
      /\ Color(netnums, r)' = Color(netnums, r)
  BY <1>4, FixedKept
<1>8. Alone(r)'
  BY <1>1, <1>2, <1>3, <1>4, <1>7
  DEF Attended, Alone, Attends, Known, Placed, HasBarrier, HasTopology, LowestPlaces, OtherPlaces
<1>9. Waits(r)
  BY <1>1, <1>2, <1>3 DEF Waits, Attended
<1>. QED  BY <1>3, <1>5, <1>6, <1>8, <1>9, TogetherKept

(***************************************************************************)
(* Sharing the topology                                                    *)
(***************************************************************************)
LEMMA LoadKeeps == ASSUME Together, NEW r \in Rank, Load(r) PROVE Together' /\ Only(r) /\ Joins(r)
<1>. USE LabelIs, MeetingIs
<1>1. pc[r] = "load" /\ Goto(r, "htopo_create") /\ "htopo_create" \in Label /\ pc[r] # "done"
  BY DEF Load
<1>2. result[r] = "none" /\ Attended(joined[r], "load") /\ Fits(r) /\ Alone(r)
  BY <1>1, Here, TogetherIs
<1>3. /\ pc'[r] = "htopo_create" /\ joined'[r] \in Counts /\ Joins(r) /\ Attended(joined'[r], "htopo_create")
      /\ pc' = [pc EXCEPT ![r] = pc'[r]] /\ joined' = [joined EXCEPT ![r] = joined'[r]]
  BY <1>1, <1>2, GoneTo DEF Attended
<1>4. /\ topo'[r] = TopoOf(noMT) /\ topo' = [topo EXCEPT ![r] = topo'[r]]
      /\ color' = color /\ node' = node /\ nnodes' = nnodes /\ linked' = linked
      /\ bseg' = bseg /\ htopo' = htopo /\ result' = result /\ UNCHANGED fixed
  BY <1>1, TogetherIs DEF Load, groups, memory, Together, TypeOK
<1>5. chan' \in [Rank -> Seq(Message)]
  BY BroadcastTyped DEF Load, Message
<1>6. Only(r) /\ Fits(r)'
  BY <1>2, <1>3, <1>4, Same, TogetherIs, TopoIs DEF Only, Fits
<1>7. /\ Host(r)' = Host(r) /\ Lowest(r)' = Lowest(r) /\ Hosts' = Hosts /\ noMT' = noMT
      /\ Color(netnums, r)' = Color(netnums, r)
  BY <1>4, FixedKept
<1>8. Alone(r)'
  BY <1>1, <1>2, <1>3, <1>4, <1>7
  DEF Attended, Alone, Attends, Known, Placed, HasBarrier, HasTopology, LowestPlaces, OtherPlaces
<1>9. Waits(r)
  BY <1>1, <1>2, <1>3 DEF Waits, Attended
<1>. QED  BY <1>3, <1>5, <1>6, <1>8, <1>9, TogetherKept

\* The leader creates the topology's segment: the invariant is kept.
LEMMA TopologyCreateKeeps == ASSUME Together, NEW r \in Rank, TopologyCreate(r) PROVE Together' /\ Only(r) /\ Joins(r)
<1>. USE LabelIs, MeetingIs
<1>1. pc[r] = "htopo_create" /\ Goto(r, "htopo_fill") /\ "htopo_fill" \in Label /\ pc[r] # "done"
  BY DEF TopologyCreate
<1>2. result[r] = "none" /\ Attended(joined[r], "htopo_create") /\ Fits(r) /\ Alone(r)
  BY <1>1, Here, TogetherIs
<1>3. /\ pc'[r] = "htopo_fill" /\ joined'[r] \in Counts /\ Joins(r) /\ Attended(joined'[r], "htopo_fill")
      /\ pc' = [pc EXCEPT ![r] = pc'[r]] /\ joined' = [joined EXCEPT ![r] = joined'[r]]
  BY <1>1, <1>2, GoneTo DEF Attended
<1>4. /\ linked' = linked \cup {<<"htopo", r>>}
      /\ color' = color /\ node' = node /\ nnodes' = nnodes /\ bseg' = bseg
      /\ htopo' = htopo /\ topo' = topo /\ result' = result /\ UNCHANGED fixed
  BY <1>1, TogetherIs DEF TopologyCreate, groups, Together, TypeOK
<1>5. chan' \in [Rank -> Seq(Message)]
  BY TogetherIs DEF TopologyCreate
<1>6. Only(r) /\ Fits(r)'
  BY <1>2, <1>3, <1>4, Same, TogetherIs, TopoIs DEF Only, Fits
<1>7. /\ Host(r)' = Host(r) /\ Lowest(r)' = Lowest(r) /\ Hosts' = Hosts /\ noMT' = noMT
      /\ Color(netnums, r)' = Color(netnums, r)
  BY <1>4, FixedKept
<1>8. Alone(r)'
  BY <1>1, <1>2, <1>3, <1>4, <1>7
  DEF Attended, Alone, Attends, Known, Placed, HasBarrier, HasTopology, LowestPlaces, OtherPlaces
<1>9. Waits(r)
  BY <1>1, <1>2, <1>3 DEF Waits, Attended
<1>. QED  BY <1>3, <1>5, <1>6, <1>8, <1>9, TogetherKept

\* The leader copies the exported topology: the invariant is kept.
LEMMA TopologyFillKeeps == ASSUME Together, NEW r \in Rank, TopologyFill(r) PROVE Together' /\ Only(r) /\ Joins(r)
<1>. USE LabelIs, MeetingIs
<1>1. pc[r] = "htopo_fill" /\ Join(r, "htopo_filled") /\ "htopo_filled" \in DOMAIN Meeting /\ pc[r] # "done"
  BY DEF TopologyFill
<1>2. result[r] = "none" /\ Attended(joined[r], "htopo_fill") /\ Fits(r) /\ Alone(r)
  BY <1>1, Here, TogetherIs
<1>3. /\ pc'[r] = "htopo_filled" /\ joined'[r] \in Counts /\ Joins(r) /\ Attended(joined'[r], "htopo_filled")
      /\ pc' = [pc EXCEPT ![r] = pc'[r]] /\ joined' = [joined EXCEPT ![r] = joined'[r]]
  BY <1>1, <1>2, JoinedAt DEF Attended
<1>4. /\ htopo'[r] = topo[r] /\ htopo' = [htopo EXCEPT ![r] = htopo'[r]]
      /\ color' = color /\ node' = node /\ nnodes' = nnodes /\ linked' = linked
      /\ bseg' = bseg /\ topo' = topo /\ result' = result /\ UNCHANGED fixed
  BY <1>1, TogetherIs DEF TopologyFill, groups, Together, TypeOK
<1>5. chan' \in [Rank -> Seq(Message)]
  BY TogetherIs DEF TopologyFill
<1>6. Only(r) /\ Fits(r)'
  BY <1>2, <1>3, <1>4, Same, TogetherIs, TopoIs DEF Only, Fits
<1>7. /\ Host(r)' = Host(r) /\ Lowest(r)' = Lowest(r) /\ Hosts' = Hosts /\ noMT' = noMT
      /\ Color(netnums, r)' = Color(netnums, r)
  BY <1>4, FixedKept
<1>8. Alone(r)'
  BY <1>1, <1>2, <1>3, <1>4, <1>7
  DEF Attended, Alone, Attends, Known, Placed, HasBarrier, HasTopology, LowestPlaces, OtherPlaces
<1>9. Waits(r)
  BY <1>1, <1>2, <1>3 DEF Waits, Attended
<1>. QED  BY <1>3, <1>5, <1>6, <1>8, <1>9, TogetherKept

\* The leader unlinks the topology's segment: the invariant is kept.
LEMMA TopologyUnlinkKeeps == ASSUME Together, NEW r \in Rank, TopologyUnlink(r) PROVE Together' /\ Only(r) /\ Joins(r)
<1>. USE LabelIs, MeetingIs
<1>1. pc[r] = "htopo_unlink" /\ Goto(r, "done") /\ "done" \in Label /\ pc[r] # "done"
  BY DEF TopologyUnlink, Return
<1>2. result[r] = "none" /\ Attended(joined[r], "htopo_unlink") /\ Fits(r) /\ Alone(r)
  BY <1>1, Here, TogetherIs
<1>3. /\ pc'[r] = "done" /\ joined'[r] \in Counts /\ Joins(r) /\ Attended(joined'[r], "htopo_unlink")
      /\ pc' = [pc EXCEPT ![r] = pc'[r]] /\ joined' = [joined EXCEPT ![r] = joined'[r]]
  BY <1>1, <1>2, GoneTo DEF Attended
<1>4. /\ linked' = linked \ {<<"htopo", r>>}
      /\ result'[r] = "SUCCESS" /\ result' = [result EXCEPT ![r] = result'[r]]
      /\ color' = color /\ node' = node /\ nnodes' = nnodes /\ bseg' = bseg
      /\ htopo' = htopo /\ topo' = topo /\ UNCHANGED fixed
  BY <1>1, TogetherIs DEF TopologyUnlink, Return, groups, Together, TypeOK
<1>5. chan' \in [Rank -> Seq(Message)]
  BY TogetherIs DEF TopologyUnlink
<1>6. Only(r) /\ Fits(r)'
  BY <1>2, <1>3, <1>4, Same, TogetherIs, TopoIs DEF Only, Fits
<1>7. /\ Host(r)' = Host(r) /\ Lowest(r)' = Lowest(r) /\ Hosts' = Hosts /\ noMT' = noMT
      /\ Color(netnums, r)' = Color(netnums, r)
  BY <1>4, FixedKept
<1>8. Alone(r)'
  BY <1>1, <1>2, <1>3, <1>4, <1>7
  DEF Attended, Alone, Attends, Known, Placed, HasBarrier, HasTopology, LowestPlaces, OtherPlaces
<1>9. Waits(r)
  BY <1>1, <1>2, <1>3 DEF Waits, Attended
<1>. QED  BY <1>3, <1>5, <1>6, <1>8, <1>9, TogetherKept

\* What a rank imports is what its flags ask for.
LEMMA ImportKeeps == ASSUME Together, NEW r \in Rank, Import(r) PROVE Together' /\ Only(r) /\ Joins(r)
<1>. USE LabelIs, MeetingIs
<1>1. pc[r] = "import" /\ Goto(r, "done") /\ "done" \in Label /\ pc[r] # "done"
  BY DEF Import, Return
<1>2. result[r] = "none" /\ Attended(joined[r], "import") /\ Fits(r) /\ Alone(r)
  BY <1>1, Here, TogetherIs
<1>3. /\ pc'[r] = "done" /\ joined'[r] \in Counts /\ Joins(r) /\ Attended(joined'[r], "import")
      /\ pc' = [pc EXCEPT ![r] = pc'[r]] /\ joined' = [joined EXCEPT ![r] = joined'[r]]
  BY <1>1, <1>2, GoneTo DEF Attended
<1>4. htopo[Leader(r)] = TopoOf(noMT) /\ (noMT => DisableHT(TopoOf(noMT)) = TopoOf(noMT))
  <2>1. joined[r].barrier = 2 /\ joined[r].commchan = 3
    BY <1>2 DEF Attended
  <2>2. Leader(r) = Lowest(r) /\ Lowest(r) \in Host(r) /\ Lowest(r) \in Rank
        /\ Lowest(Lowest(r)) = Lowest(r)
    BY <2>1, LeadsIs, LowestIs, TogetherIs
  <2>3. joined[Lowest(r)].barrier >= 1
    BY <2>1, <2>2, TogetherIs DEF Waited
  <2>4. htopo[Lowest(r)] = TopoOf(noMT)
    BY <2>2, <2>3, TogetherIs DEF Alone, HasTopology
  <2>. QED  BY <2>2, <2>4, DisabledOnce DEF TopoOf
<1>5. /\ topo'[r] = TopoOf(noMT) /\ topo' = [topo EXCEPT ![r] = topo'[r]]
      /\ result'[r] = "SUCCESS" /\ result' = [result EXCEPT ![r] = result'[r]]
      /\ color' = color /\ node' = node /\ nnodes' = nnodes /\ linked' = linked
      /\ bseg' = bseg /\ htopo' = htopo /\ UNCHANGED fixed
  BY <1>1, <1>4, TogetherIs DEF Import, Return, groups, memory, Together, TypeOK
<1>6. chan' \in [Rank -> Seq(Message)]
  BY TogetherIs DEF Import
<1>7. Only(r) /\ Fits(r)'
  BY <1>2, <1>3, <1>5, Same, TogetherIs, TopoIs DEF Only, Fits
<1>8. /\ Host(r)' = Host(r) /\ Lowest(r)' = Lowest(r) /\ Hosts' = Hosts /\ noMT' = noMT
      /\ Color(netnums, r)' = Color(netnums, r)
  BY <1>5, FixedKept
<1>9. Alone(r)'
  BY <1>1, <1>2, <1>3, <1>4, <1>5, <1>8
  DEF Attended, Alone, Attends, Known, Placed, HasBarrier, HasTopology, LowestPlaces, OtherPlaces
<1>10. Waits(r)
  BY <1>1, <1>2, <1>3 DEF Waits, Attended
<1>. QED  BY <1>3, <1>6, <1>7, <1>9, <1>10, TogetherKept

(***************************************************************************)
(* The invariant holds                                                     *)
(***************************************************************************)
LEMMA WalksKeep ==
    ASSUME Together, NEW r \in Rank,
           \/ Resolve(r) \/ Neighbours(r) \/ BarrierMade(r) \/ BarrierAttach(r) \/ BarrierMapped(r)
           \/ GetLength(r) \/ TopologyFilled(r) \/ TopologyAttach(r) \/ TopologyMapped(r)
           \/ \E what \in {"bseg", "htopo"} : SharePath(r, what)
           \/ \E what \in {"bseg", "htopo"} : GetPath(r, what) /\ Received(r, what)
    PROVE  Together' /\ Only(r) /\ Joins(r)
<1>. USE LabelIs, MeetingIs
<1>1. chan \in [Rank -> Seq(Message)]
  BY TogetherIs
<1>2. ASSUME pc[r] \notin {"start", "gather", "split", "done"}
      PROVE  /\ joined[r].commchan = 3 /\ (Leads(r) <=> r = Lowest(r))
             /\ Attended(joined[r], pc[r])
  BY <1>2, Here, LeadsIs DEF Attended
<1>3. CASE Resolve(r)
  <2>1. pc[r] = "start" /\ Join(r, "gather") /\ Walk("start", "gather", r = Lowest(r))
    BY <1>3 DEF Resolve, Walk
  <2>2. UNCHANGED <<fixed, groups, chan, memory, topo, result>>
    BY <1>3 DEF Resolve
  <2>. QED  BY <1>1, <2>1, <2>2, Walks
<1>4. CASE Neighbours(r)
  <2>1. pc[r] = "neighbours" /\ Goto(r, "bseg_path") /\ Walk("neighbours", "bseg_path", r = Lowest(r))
    BY <1>4 DEF Neighbours, Met, Walk
  <2>2. UNCHANGED <<fixed, groups, chan, memory, topo, result>>
    BY <1>4 DEF Neighbours
  <2>. QED  BY <1>1, <2>1, <2>2, Walks
<1>5. CASE BarrierMade(r)
  <2>1. pc[r] = "bseg_made" /\ \A q \in Host(r) : joined[q].smpcomm >= 2
    <3>1. pc[r] = "bseg_made" /\ \A q \in Host(r) : joined[q].smpcomm >= joined[r].smpcomm
      BY <1>5, MetIs DEF BarrierMade
    <3>. QED  BY <1>2, <3>1 DEF Attended
  <2>2. PICK l \in {"bseg_mapped", "bseg_attach"} :
            /\ l = IF r = Lowest(r) THEN "bseg_mapped" ELSE "bseg_attach"
            /\ IF l \in DOMAIN Meeting THEN Join(r, l) ELSE Goto(r, l)
    BY <1>2, <1>5, <2>1 DEF BarrierMade
  <2>3. UNCHANGED <<fixed, groups, chan, memory, topo, result>>
    BY <1>5 DEF BarrierMade
  <2>4. Walk(pc[r], l, r = Lowest(r)) /\ l \in Label
    BY <2>1, <2>2 DEF Walk
  <2>. QED  BY <1>1, <2>1, <2>2, <2>3, <2>4, Walks
<1>6. CASE BarrierAttach(r)
  <2>1. /\ pc[r] = "bseg_attach" /\ Join(r, "bseg_mapped")
        /\ Walk("bseg_attach", "bseg_mapped", r = Lowest(r))
    BY <1>6 DEF BarrierAttach, Walk
  <2>2. UNCHANGED <<fixed, groups, chan, memory, topo, result>>
    BY <1>6 DEF BarrierAttach
  <2>. QED  BY <1>1, <2>1, <2>2, Walks
<1>7. CASE BarrierMapped(r)
  <2>1. pc[r] = "bseg_mapped" /\ \A q \in Host(r) : joined[q].smpcomm >= 3
    <3>1. pc[r] = "bseg_mapped" /\ \A q \in Host(r) : joined[q].smpcomm >= joined[r].smpcomm
      BY <1>7, MetIs DEF BarrierMapped
    <3>. QED  BY <1>2, <3>1 DEF Attended
  <2>2. PICK l \in {"bseg_unlink", "htopo_path"} :
            l = (IF r = Lowest(r) THEN "bseg_unlink" ELSE "htopo_path") /\ Goto(r, l)
    BY <1>2, <1>7, <2>1 DEF BarrierMapped
  <2>3. UNCHANGED <<fixed, groups, chan, memory, topo, result>>
    BY <1>7 DEF BarrierMapped
  <2>4. Walk(pc[r], l, r = Lowest(r)) /\ l \in Label
    BY <2>1, <2>2 DEF Walk
  <2>. QED  BY <1>1, <2>1, <2>2, <2>3, <2>4, Walks
<1>8. CASE GetLength(r)
  <2>1. pc[r] = "length" /\ Join(r, "htopo_filled") /\ Walk("length", "htopo_filled", r = Lowest(r))
    BY <1>8 DEF GetLength, Walk
  <2>2. UNCHANGED <<fixed, groups, memory, topo, result>>
    BY <1>8 DEF GetLength
  <2>3. chan' \in [Rank -> Seq(Message)]
    BY <1>8, ReceivedTyped DEF GetLength
  <2>. QED  BY <2>1, <2>2, <2>3, Walks
<1>9. CASE TopologyFilled(r)
  <2>1. pc[r] = "htopo_filled" /\ \A q \in Host(r) : joined[q].barrier >= 1
    <3>1. pc[r] = "htopo_filled" /\ \A q \in Host(r) : joined[q].barrier >= joined[r].barrier
      BY <1>9, MetIs DEF TopologyFilled
    <3>. QED  BY <1>2, <3>1 DEF Attended
  <2>2. PICK l \in {"htopo_mapped", "htopo_attach"} :
            /\ l = IF r = Lowest(r) THEN "htopo_mapped" ELSE "htopo_attach"
            /\ IF l \in DOMAIN Meeting THEN Join(r, l) ELSE Goto(r, l)
    BY <1>2, <1>9, <2>1 DEF TopologyFilled
  <2>3. UNCHANGED <<fixed, groups, chan, memory, topo, result>>
    BY <1>9 DEF TopologyFilled
  <2>4. Walk(pc[r], l, r = Lowest(r)) /\ l \in Label
    BY <2>1, <2>2 DEF Walk
  <2>. QED  BY <1>1, <2>1, <2>2, <2>3, <2>4, Walks
<1>10. CASE TopologyAttach(r)
  <2>1. /\ pc[r] = "htopo_attach" /\ Join(r, "htopo_mapped")
        /\ Walk("htopo_attach", "htopo_mapped", r = Lowest(r))
    BY <1>10 DEF TopologyAttach, Walk
  <2>2. UNCHANGED <<fixed, groups, chan, memory, topo, result>>
    BY <1>10 DEF TopologyAttach
  <2>. QED  BY <1>1, <2>1, <2>2, Walks
<1>11. CASE TopologyMapped(r)
  <2>1. pc[r] = "htopo_mapped" /\ \A q \in Host(r) : joined[q].barrier >= 2
    <3>1. pc[r] = "htopo_mapped" /\ \A q \in Host(r) : joined[q].barrier >= joined[r].barrier
      BY <1>11, MetIs DEF TopologyMapped
    <3>. QED  BY <1>2, <3>1 DEF Attended
  <2>2. PICK l \in {"htopo_unlink", "import"} :
            l = (IF r = Lowest(r) THEN "htopo_unlink" ELSE "import") /\ Goto(r, l)
    BY <1>2, <1>11, <2>1 DEF TopologyMapped
  <2>3. UNCHANGED <<fixed, groups, chan, memory, topo, result>>
    BY <1>11 DEF TopologyMapped
  <2>4. Walk(pc[r], l, r = Lowest(r)) /\ l \in Label
    BY <2>1, <2>2 DEF Walk
  <2>. QED  BY <1>1, <2>1, <2>2, <2>3, <2>4, Walks
<1>12. ASSUME NEW what \in {"bseg", "htopo"}, SharePath(r, what) PROVE Together' /\ Only(r) /\ Joins(r)
  <2>1. pc[r] = PathStep(what) /\ Leads(r) /\ UNCHANGED <<fixed, groups, memory, topo, result>>
    BY <1>12 DEF SharePath
  <2>2. pc[r] = IF what = "bseg" THEN "bseg_path" ELSE "htopo_path"
    BY <2>1 DEF PathStep
  <2>3. r = Lowest(r)
    BY <1>2, <2>1, <2>2
  <2>4. PICK l \in {"bseg_create", "load"} :
            l = (IF what = "bseg" THEN "bseg_create" ELSE "load") /\ Goto(r, l)
    BY <1>12 DEF SharePath
  <2>5. Walk(pc[r], l, r = Lowest(r)) /\ l \in Label
    BY <2>2, <2>3, <2>4 DEF Walk
  <2>6. chan' \in [Rank -> Seq(Message)]
    <3>1. what \in Message
      BY DEF Message
    <3>. QED  BY <1>12, <3>1, BroadcastTyped DEF SharePath
  <2>. QED  BY <2>1, <2>2, <2>4, <2>5, <2>6, Walks
<1>13. ASSUME NEW what \in {"bseg", "htopo"}, GetPath(r, what), Received(r, what) PROVE Together' /\ Only(r) /\ Joins(r)
  <2>1. /\ pc[r] = PathStep(what) /\ ~Leads(r) /\ UNCHANGED <<fixed, groups, memory, topo>>
        /\ IF what = "bseg" THEN Join(r, "bseg_made") ELSE Goto(r, "length")
        /\ result' = result
    <3>1. ~Received(r, "no_path")
      BY <1>13 DEF Received
    <3>. QED  BY <1>13, <3>1 DEF GetPath
  <2>2. pc[r] = IF what = "bseg" THEN "bseg_path" ELSE "htopo_path"
    BY <2>1 DEF PathStep
  <2>3. r # Lowest(r)
    BY <1>2, <2>1, <2>2
  <2>4. PICK l \in {"bseg_made", "length"} :
            l = (IF what = "bseg" THEN "bseg_made" ELSE "length")
            /\ IF l \in DOMAIN Meeting THEN Join(r, l) ELSE Goto(r, l)
    BY <2>1
  <2>5. Walk(pc[r], l, r = Lowest(r)) /\ l \in Label
    BY <2>2, <2>3, <2>4 DEF Walk
  <2>6. chan' \in [Rank -> Seq(Message)]
    BY <1>13, ReceivedTyped
  <2>. QED  BY <2>1, <2>2, <2>4, <2>5, <2>6, Walks
<1>. QED
  BY <1>3, <1>4, <1>5, <1>6, <1>7, <1>8, <1>9, <1>10, <1>11, <1>12, <1>13

\* Each way to fail keeps the invariant: a failed rank stops, and those it
\* leaves behind wait.
LEMMA StopsKeep ==
    ASSUME Together, NEW r \in Rank,
           \/ ResolveFailure(r) \/ LoadFailure(r) \/ ImportFailure(r)
           \/ SegmentFailure(r) \/ AttachFailure(r)
           \/ \E what \in {"bseg", "htopo"} : SharePathFailure(r, what)
           \/ \E what \in {"bseg", "htopo"} : GetPath(r, what) /\ Received(r, "no_path")
    PROVE  Together' /\ Only(r) /\ Joins(r)
<1>1. chan \in [Rank -> Seq(Message)]
  BY TogetherIs
<1>2. CASE ResolveFailure(r) \/ LoadFailure(r) \/ ImportFailure(r)
  <2>1. pc[r] \in {"start", "load", "import"} /\ Return(r, "ERR") /\ linked' = linked
        /\ UNCHANGED <<fixed, groups, topo, bseg, htopo, chan>>
    BY <1>2 DEF ResolveFailure, LoadFailure, ImportFailure, Fail, memory
  <2>. QED  BY <1>1, <2>1, Stops
<1>3. CASE SegmentFailure(r)
  <2>1. Return(r, "ERR") /\ UNCHANGED <<fixed, groups, topo, bseg, htopo, chan>>
    BY <1>3 DEF SegmentFailure, Fail, memory
  <2>2. /\ pc[r] \in {"bseg_create", "htopo_create", "bseg_init"}
        /\ \/ linked' = linked
           \/ pc[r] = "bseg_create" /\ linked' = linked \cup {<<"bseg", r>>}
           \/ pc[r] = "htopo_create" /\ linked' = linked \cup {<<"htopo", r>>}
    BY <1>3 DEF SegmentFailure, memory
  <2>. QED  BY <1>1, <2>1, <2>2, Stops
<1>4. CASE AttachFailure(r)
  <2>1. pc[r] \in {"bseg_attach", "htopo_attach"} /\ Return(r, "ERR") /\ linked' = linked
        /\ UNCHANGED <<fixed, groups, topo, bseg, htopo, chan>>
    BY <1>4 DEF AttachFailure, memory
  <2>. QED  BY <1>1, <2>1, Stops
<1>5. ASSUME NEW what \in {"bseg", "htopo"}, SharePathFailure(r, what) PROVE Together' /\ Only(r) /\ Joins(r)
  <2>1. pc[r] \in {"bseg_path", "htopo_path"} /\ Return(r, "NO_PATH") /\ linked' = linked
        /\ UNCHANGED <<fixed, groups, topo, bseg, htopo>> /\ Broadcast(r, "no_path")
    BY <1>5 DEF SharePathFailure, PathStep, memory
  <2>2. chan' \in [Rank -> Seq(Message)]
    BY <2>1, BroadcastTyped DEF Message
  <2>. QED  BY <2>1, <2>2, Stops
<1>6. ASSUME NEW what \in {"bseg", "htopo"}, GetPath(r, what), Received(r, "no_path")
      PROVE  Together' /\ Only(r) /\ Joins(r)
  <2>1. pc[r] \in {"bseg_path", "htopo_path"} /\ linked' = linked
        /\ UNCHANGED <<fixed, groups, topo, bseg, htopo>>
    BY <1>6 DEF GetPath, PathStep, memory
  <2>2. Return(r, "NO_PATH")
    <3>1. ~Received(r, what)
      BY <1>6 DEF Received
    <3>. QED  BY <1>6, <3>1 DEF GetPath
  <2>3. chan' \in [Rank -> Seq(Message)]
    BY <1>6, ReceivedTyped
  <2>. QED  BY <2>1, <2>2, <2>3, Stops
<1>. QED  BY <1>2, <1>3, <1>4, <1>5, <1>6

\* Each step of a rank keeps the invariant, and joins the operations in their
\* order.
LEMMA StepKeeps == ASSUME Together, NEW r \in Rank, Step(r) PROVE Together' /\ Only(r) /\ Joins(r)
<1>1. CASE FindNode(r)
  BY <1>1, WalksKeep, StopsKeep, GetColorKeeps, SplitKeeps, CountNodesKeeps DEF FindNode
<1>2. CASE AgreeOnPath(r)
  <2>1. ASSUME NEW what \in {"bseg", "htopo"}, GetPath(r, what) PROVE Together' /\ Only(r) /\ Joins(r)
    <3>1. Received(r, what) \/ Received(r, "no_path")
      BY <2>1 DEF GetPath
    <3>. QED  BY <2>1, <3>1, WalksKeep, StopsKeep
  <2>. QED  BY <1>2, <2>1, WalksKeep, StopsKeep DEF AgreeOnPath
<1>3. CASE SetUpBarrier(r)
  BY <1>3, WalksKeep, BarrierCreateKeeps, BarrierInitKeeps, BarrierUnlinkKeeps DEF SetUpBarrier
<1>4. CASE ShareTopology(r)
  BY <1>4, WalksKeep, StopsKeep, LoadKeeps, TopologyCreateKeeps, TopologyFillKeeps,
     TopologyUnlinkKeeps, ImportKeeps DEF ShareTopology
<1>5. CASE SegmentFailure(r) \/ AttachFailure(r)
  BY <1>5, StopsKeep
<1>. QED  BY <1>1, <1>2, <1>3, <1>4, <1>5 DEF Step

\* Every step keeps the invariant.
LEMMA TogetherStep == Together /\ [Next]_vars => Together'
<1>. SUFFICES ASSUME Together, [Next]_vars PROVE Together'
  OBVIOUS
<1>1. ASSUME NEW r \in Rank, Step(r) PROVE Together'
  BY <1>1, StepKeeps
<1>2. CASE UNCHANGED vars
  <2>1. \A r \in Rank : UNCHANGED fixed /\ Host(r)' = Host(r) /\ Lowest(r)' = Lowest(r)
            /\ Hosts' = Hosts /\ Color(netnums, r)' = Color(netnums, r)
    BY <1>2, FixedKept DEF vars, fixed
  <2>2. TypeOK' /\ (netnums \in Orders(netnum))'
    BY <1>2 DEF vars, Together, TypeOK, Orders
  <2>3. ASSUME NEW r \in Rank PROVE Alone(r)'
    BY <1>2, <2>1 DEF vars, Together, Alone, Attends, Known, Placed, HasBarrier, HasTopology
  <2>4. ASSUME NEW r \in Rank PROVE Waited(r)'
    BY <1>2, <2>1 DEF vars, Together, Waited
  <2>. QED  BY <2>2, <2>3, <2>4 DEF Together
<1>. QED  BY <1>1, <1>2 DEF Next

\* The invariant holds before any rank has moved.
LEMMA TogetherInit == Init => Together
<1>. SUFFICES ASSUME Init PROVE Together
  OBVIOUS
<1>1. netnum \in NetNums /\ netnum \in [Rank -> Nat] /\ netnums \in Orders(netnum) /\ noMT \in Flags
  BY CreateContextAssumption DEF Init
<1>2. netnums \in [1 .. N -> Range(netnum)]
  <2>1. PICK rank \in Bijection(1 .. N, Rank) : netnums = [k \in 1 .. N |-> netnum[rank[k]]]
    BY <1>1 DEF Orders
  <2>2. rank \in [1 .. N -> Rank]
    BY <2>1 DEF Bijection, Injection
  <2>. QED  BY <1>1, <2>1, <2>2 DEF Range
<1>3. TypeOK
  <2>1. joined \in [Rank -> [commchan : 0 .. 3, smpcomm : 0 .. 3, barrier : 0 .. 2]]
    BY DEF Init
  <2>2. pc \in [Rank -> Label] /\ chan \in [Rank -> Seq({"bseg", "htopo", "no_path", "length"})]
    BY LabelIs DEF Init
  <2>3. color \in [Rank -> -1 .. N - 1] /\ nnodes \in [Rank -> 0 .. N] /\ node \in [Rank -> SUBSET Rank]
    BY RankIs DEF Init
  <2>4. /\ linked \subseteq {"bseg", "htopo"} \X Rank
        /\ bseg \in [Rank -> {"none", "zeros", "barrier"}]
        /\ htopo \in [Rank -> {NoTopology} \cup Topologies]
        /\ topo \in [Rank -> {NoTopology} \cup Topologies]
        /\ result \in [Rank -> {"none", "SUCCESS", "NO_PATH", "ERR"}]
    BY DEF Init
  <2>. QED  BY <1>1, <1>2, <2>1, <2>2, <2>3, <2>4 DEF TypeOK
<1>4. ASSUME NEW r \in Rank PROVE Alone(r) /\ Waited(r)
  <2>1. /\ pc[r] = "start" /\ joined[r] = [commchan |-> 0, smpcomm |-> 0, barrier |-> 0]
        /\ color[r] = -1 /\ node[r] = {} /\ nnodes[r] = 0 /\ linked = {} /\ bseg[r] = "none"
        /\ htopo[r] = NoTopology /\ topo[r] = NoTopology /\ result[r] = "none"
    BY DEF Init
  <2>2. joined[r].commchan = 0 /\ joined[r].smpcomm = 0 /\ joined[r].barrier = 0
    BY <2>1
  <2>3. Attended(joined[r], "start")
    BY <2>2 DEF Attended
  <2>4. Alone(r)
    BY <2>1, <2>2, <2>3
    DEF Alone, Attends, Known, Placed, HasBarrier, HasTopology, LowestPlaces, OtherPlaces
  <2>5. Waited(r)
    BY <2>1, <2>2 DEF Waited
  <2>. QED  BY <2>4, <2>5
<1>. QED  BY <1>1, <1>3, <1>4 DEF Together

\* The invariant holds in every reachable state.
LEMMA TogetherAlways == Spec => []Together
<1>1. Init => Together
  BY TogetherInit
<1>2. Together /\ [Next]_vars => Together'
  BY TogetherStep
<1>. QED  BY <1>1, <1>2, PTL DEF Spec

(***************************************************************************)
(* Theorems                                                                *)
(***************************************************************************)
\* Every variable keeps its type: a rank comes to three meetings of each
\* communicator and to two barriers at most, whoever fails on the way.
THEOREM CreateTyping == Spec => []TypeOK
<1>1. Together => TypeOK
  BY DEF Together
<1>. QED  BY <1>1, TogetherAlways, PTL

\* The ranks of a node are those of one host and the hosts are counted right,
\* for any hosts and in any order that qsort may leave their numbers in.
THEOREM NodesOfHosts == Spec => []NodesAreHosts
<1>1. Together => NodesAreHosts
  <2>. SUFFICES ASSUME Together, NEW r \in Rank
                PROVE  /\ node[r] # {} => node[r] = {q \in Rank : netnum[q] = netnum[r]}
                       /\ nnodes[r] # 0 => nnodes[r] = Cardinality(Range(netnum))
    BY DEF NodesAreHosts
  <2>1. Known(r)
    BY TogetherIs DEF Alone
  <2>. QED  BY <2>1 DEF Known, Host, Hosts
<1>. QED  BY <1>1, TogetherAlways, PTL

\* Whoever attaches finds the segment there and finished, and the barrier that
\* a rank comes to is initialised.
THEOREM FindsWhatIsPublished == Spec => []FindsPublished
<1>1. Together => FindsPublished
  <2>. SUFFICES ASSUME Together, NEW r \in Rank
                PROVE  /\ pc[r] = "bseg_attach" =>
                              <<"bseg", Leader(r)>> \in linked /\ bseg[Leader(r)] = "barrier"
                       /\ pc[r] = "htopo_attach" =>
                              <<"htopo", Leader(r)>> \in linked /\ htopo[Leader(r)] # NoTopology
                       /\ joined[r].barrier > 0 => bseg[Leader(r)] = "barrier"
    BY DEF FindsPublished
  <2>. DEFINE low == Lowest(r)
  <2>1. /\ low \in Host(r) /\ low \in Rank /\ Lowest(low) = low /\ r \in Host(r)
        /\ Host(low) = Host(r)
    BY LowestIs, TogetherIs
  <2>2. /\ joined[r] \in Counts /\ joined[low] \in Counts
        /\ Attends(r) /\ Attends(low) /\ Placed(r) /\ Placed(low)
        /\ Waited(r) /\ Waited(low) /\ HasBarrier(low) /\ HasTopology(low)
    BY <2>1, TogetherIs DEF Fits, Alone
  <2>3. ASSUME joined[r].commchan = 3 PROVE Leader(r) = low
    BY <2>3, LeadsIs
  <2>. HIDE DEF low
  <2>4. ASSUME pc[r] = "bseg_attach"
        PROVE  <<"bseg", Leader(r)>> \in linked /\ bseg[Leader(r)] = "barrier"
    <3>1. /\ Leader(r) = low /\ joined[low].smpcomm >= 2
          /\ joined[r].smpcomm = 2
      BY <2>1, <2>2, <2>3, <2>4 DEF Waited, Attends, Attended
    <3>2. ~(pc[low] # "bseg_mapped" /\ joined[low].smpcomm = 3)
      BY <2>1, <2>2, <3>1 DEF Waited
    <3>3. pc[low] \in {"bseg_made", "bseg_mapped"}
      BY <2>1, <2>2, <3>1, <3>2 DEF Attends, Attended, Placed, Counts, OtherPlaces
    <3>. QED  BY <2>1, <2>2, <3>1, <3>3 DEF HasBarrier
  <2>5. ASSUME pc[r] = "htopo_attach"
        PROVE  <<"htopo", Leader(r)>> \in linked /\ htopo[Leader(r)] # NoTopology
    <3>1. /\ Leader(r) = low /\ joined[low].barrier >= 1
          /\ joined[r].barrier = 1
      BY <2>1, <2>2, <2>3, <2>5 DEF Waited, Attends, Attended
    <3>2. ~(pc[low] # "htopo_mapped" /\ joined[low].barrier = 2)
      BY <2>1, <2>2, <3>1 DEF Waited
    <3>3. pc[low] \in {"htopo_filled", "htopo_mapped"}
      BY <2>1, <2>2, <3>1, <3>2 DEF Attends, Attended, Placed, Counts, OtherPlaces
    <3>. QED  BY <2>1, <2>2, <3>1, <3>3, TogetherIs, TopoIs DEF HasTopology
  <2>6. ASSUME joined[r].barrier > 0 PROVE bseg[Leader(r)] = "barrier"
    <3>1. joined[r].smpcomm = 3 /\ joined[r].commchan = 3
      <4>1. PICK label \in Label \ {"done"} : Attended(joined[r], label)
        BY <2>2, TogetherIs DEF Attends, Fits
      <4>. QED  BY <2>6, <4>1 DEF Attended
    <3>2. joined[low].smpcomm >= 2
      BY <2>1, <2>2, <3>1 DEF Waited
    <3>. QED  BY <2>1, <2>2, <2>3, <3>1, <3>2 DEF HasBarrier
  <2>. QED  BY <2>4, <2>5, <2>6
<1>. QED  BY <1>1, TogetherAlways, PTL

\* Whether a rank loaded its topology or imported what node rank 0 had
\* restricted and published, it has the one that its flags ask for.
THEOREM TopologiesAgree == Spec => []SameTopology
<1>1. Together => SameTopology
  BY TogetherIs DEF SameTopology, Alone, HasTopology
<1>. QED  BY <1>1, TogetherAlways, PTL

\* When the call succeeds for the ranks of a node, both of its segments have
\* lost their files, in spite of whatever failed on other nodes.
THEOREM LeavesNothingLinked == Spec => []NothingLeftLinked
<1>1. Together => NothingLeftLinked
  <2>. SUFFICES ASSUME Together, NEW r \in Rank, node[r] # {},
                       \A q \in node[r] : result[q] = "SUCCESS",
                       NEW what \in {"bseg", "htopo"}
                PROVE  <<what, Leader(r)>> \notin linked
    BY DEF NothingLeftLinked
  <2>1. joined[r].commchan = 3
    BY TogetherIs DEF Alone, Known
  <2>2. node[r] = Host(r) /\ Leader(r) = Lowest(r) /\ Lowest(r) \in Host(r) /\ Lowest(r) \in Rank
    BY <2>1, LeadsIs, LowestIs, TogetherIs
  <2>. DEFINE low == Lowest(r)
  <2>3. result[low] = "SUCCESS" /\ Alone(low)
    BY <2>2, TogetherIs
  <2>. HIDE DEF low
  <2>4. pc[low] = "done" /\ Attended(joined[low], "import")
    BY <2>3 DEF Alone, Attends
  <2>5. <<"bseg", low>> \notin linked /\ <<"htopo", low>> \notin linked
    BY <2>3, <2>4 DEF Alone, HasBarrier, HasTopology, Attended
  <2>. QED  BY <2>2, <2>5 DEF low
<1>. QED  BY <1>1, TogetherAlways, PTL

(***************************************************************************)
(* The segments of the node that rank 0 leads are handed out as Publish    *)
(* promises.  What a rank maps is decided by the invariant before and      *)
(* after its step; only the steps that touch memory move a stage.          *)
(***************************************************************************)
Segs == {"bseg", "htopo"}
Readers == {q \in Rank \ {0} : netnum[q] = netnum[0]}
HasMapped(q, what) == IF what = "bseg" THEN joined[q].smpcomm = 3 ELSE joined[q].barrier = 2

SameStages == \A s \in Segs : Stage(s)' = Stage(s)
SameMapped(s) == \A q \in Readers : HasMapped(q, s)' <=> HasMapped(q, s)

\* The readers of a segment, as the abstract publication counts them.
LEMMA MappedIs ==
    ASSUME NEW s \in Segs
    PROVE  Mapped(s) = {q \in Readers : HasMapped(q, s)}
BY DEF Mapped, Readers, HasMapped

\* The kinds of steps that Publish allows.
LEMMA PublishKinds ==
    ASSUME Readers' = Readers
    PROVE  /\ SameStages /\ (\A s \in Segs : SameMapped(s)) => UNCHANGED Publication!vars
           /\ \A s \in Segs :
                /\ \A k \in Segs : SameMapped(k)
                /\ \A k \in Segs \ {s} : Stage(k)' = Stage(k)
                => /\ Stage(s) = "none" /\ Stage(s)' = "made" => Publication!Next
                   /\ Stage(s) = "made" /\ Stage(s)' = "complete" => Publication!Next
                   /\ /\ Stage(s) = "complete" /\ Stage(s)' = "withdrawn"
                      /\ \A q \in Readers : HasMapped(q, s)
                      => Publication!Next
           /\ \A s \in Segs, r \in Readers :
                /\ SameStages
                /\ \A k \in Segs \ {s} : SameMapped(k)
                /\ \A q \in Readers \ {r} : HasMapped(q, s)' <=> HasMapped(q, s)
                /\ Stage(s) = "complete" /\ HasMapped(r, s)'
                => Publication!Next
<1>. DEFINE St == [s \in Segs |-> Stage(s)]
            Ma == [s \in Segs |-> Mapped(s)]
            Re == [s \in Segs |-> Readers]
<1>1. ASSUME SameStages PROVE St' = St
  BY <1>1 DEF SameStages
<1>2. ASSUME NEW s \in Segs PROVE Mapped(s)' = {q \in Readers : HasMapped(q, s)'}
  <2>1. Mapped(s)' = {q \in Readers' : HasMapped(q, s)'}
    BY DEF Mapped, Readers, HasMapped
  <2>. QED  BY <2>1
<1>3. ASSUME \A s \in Segs : SameMapped(s) PROVE Ma' = Ma
  BY <1>2, <1>3, MappedIs DEF SameMapped
<1>4. Re' = Re
  OBVIOUS
<1>5. SameStages /\ (\A s \in Segs : SameMapped(s)) => UNCHANGED Publication!vars
  BY <1>1, <1>3, <1>4 DEF Publication!vars, Segs, Readers
<1>6. ASSUME NEW s \in Segs, \A k \in Segs : SameMapped(k),
             \A k \in Segs \ {s} : Stage(k)' = Stage(k)
      PROVE  /\ Stage(s) = "none" /\ Stage(s)' = "made" => Publication!Next
             /\ Stage(s) = "made" /\ Stage(s)' = "complete" => Publication!Next
             /\ /\ Stage(s) = "complete" /\ Stage(s)' = "withdrawn"
                /\ \A q \in Readers : HasMapped(q, s)
                => Publication!Next
  <2>1. ASSUME NEW to, Stage(s)' = to PROVE St' = [St EXCEPT ![s] = to]
    BY <1>6, <2>1
  <2>2. Ma' = Ma /\ Re' = Re
    BY <1>3, <1>4, <1>6
  <2>3. \A from, to : Stage(s) \in from /\ Stage(s)' = to => Publication!Move(s, from, to)
    BY <2>1, <2>2 DEF Publication!Move, Segs, Readers
  <2>4. Stage(s) = "none" /\ Stage(s)' = "made" => Publication!Next
    BY <2>3 DEF Publication!Next, Publication!Make, Segs
  <2>5. Stage(s) = "made" /\ Stage(s)' = "complete" => Publication!Next
    BY <2>3 DEF Publication!Next, Publication!Complete, Segs
  <2>6. /\ Stage(s) = "complete" /\ Stage(s)' = "withdrawn"
        /\ \A q \in Readers : HasMapped(q, s)
        => Publication!Next
    <3>1. (\A q \in Readers : HasMapped(q, s)) => Ma[s] = Re[s]
      BY MappedIs
    <3>. QED  BY <2>3, <3>1 DEF Publication!Next, Publication!Withdraw, Segs, Readers
  <2>. QED  BY <2>4, <2>5, <2>6
<1>7. ASSUME NEW s \in Segs, NEW r \in Readers, SameStages,
             \A k \in Segs \ {s} : SameMapped(k),
             \A q \in Readers \ {r} : HasMapped(q, s)' <=> HasMapped(q, s),
             Stage(s) = "complete", HasMapped(r, s)'
      PROVE  Publication!Next
  <2>1. St' = St /\ Re' = Re
    BY <1>1, <1>4, <1>7
  <2>2. Ma' = [Ma EXCEPT ![s] = @ \cup {r}]
    <3>1. \A k \in Segs \ {s} : Ma'[k] = Ma[k]
      BY <1>2, <1>7, MappedIs DEF SameMapped
    <3>2. Ma'[s] = Ma[s] \cup {r}
      BY <1>2, <1>7, MappedIs
    <3>. QED  BY <3>1, <3>2
  <2>3. r \in Re[s]
    OBVIOUS
  <2>4. Publication!Map(s, r)
    BY <1>7, <2>1, <2>2 DEF Publication!Map, Segs, Readers
  <2>. QED  BY <2>3, <2>4 DEF Publication!Next, Segs, Readers
<1>. QED  BY <1>5, <1>6, <1>7

\* What the invariant says of the node that rank 0 leads.
LEMMA ZeroIs ==
    ASSUME Together
    PROVE  /\ 0 \in Rank /\ 0 = Lowest(0) /\ Readers = Host(0) \ {0}
           /\ pc[0] \in Label /\ joined[0] \in Counts
           /\ Attends(0) /\ Placed(0) /\ HasBarrier(0) /\ HasTopology(0) /\ Waited(0)
           /\ \E label \in Label \ {"done"} :
                  Attended(joined[0], label) /\ (pc[0] # "done" => pc[0] = label)
           /\ Finished("bseg") <=> joined[0].smpcomm >= 2
           /\ Finished("htopo") <=> joined[0].barrier >= 1
<1>1. 0 \in Rank
  BY RankIs DEF Rank
<1>2. /\ pc[0] \in Label /\ joined[0] \in Counts
      /\ Attends(0) /\ Placed(0) /\ HasBarrier(0) /\ HasTopology(0) /\ Waited(0)
  BY <1>1, TogetherIs DEF Fits, Alone
<1>3. 0 = Lowest(0)
  <2>1. Lowest(0) \in Rank /\ Lowest(0) <= 0
    BY <1>1, LowestIs, TogetherIs
  <2>. DEFINE low == Lowest(0)
  <2>. HIDE DEF low
  <2>2. low \in Nat /\ low <= 0
    BY <2>1, RankIs DEF low
  <2>3. low = 0
    BY <2>2
  <2>. QED  BY <2>3 DEF low
<1>4. Readers = Host(0) \ {0}
  BY DEF Readers, Host
<1>5. Finished("bseg") <=> joined[0].smpcomm >= 2
  BY <1>2, <1>3 DEF Finished, HasBarrier
<1>6. Finished("htopo") <=> joined[0].barrier >= 1
  BY <1>2, <1>3, TopoIs, TogetherIs DEF Finished, HasTopology
<1>7. \E label \in Label \ {"done"} :
          Attended(joined[0], label) /\ (pc[0] # "done" => pc[0] = label)
  BY <1>2 DEF Attends
<1>. QED  BY <1>1, <1>2, <1>3, <1>4, <1>5, <1>6, <1>7

\* A segment is complete from when rank 0 has finished it until every reader
\* has mapped it.
LEMMA CompleteIs ==
    ASSUME Together, NEW r \in Readers
    PROVE  /\ joined[0].smpcomm >= 2 /\ joined[r].smpcomm # 3 => Stage("bseg") = "complete"
           /\ joined[0].barrier >= 1 /\ joined[r].barrier # 2 => Stage("htopo") = "complete"
           /\ joined[0].barrier >= 1 => joined[r].smpcomm = 3
<1>1. r \in Host(0)
  BY ZeroIs
<1>2. PICK label \in Label \ {"done"} :
          Attended(joined[0], label) /\ (pc[0] # "done" => pc[0] = label)
  BY ZeroIs
<1>3. ASSUME joined[0].smpcomm >= 2, joined[r].smpcomm # 3 PROVE Stage("bseg") = "complete"
  <2>1. ~(pc[0] # "bseg_mapped" /\ joined[0].smpcomm = 3)
    BY <1>1, <1>3, ZeroIs DEF Waited
  <2>2. pc[0] \in {"bseg_made", "bseg_mapped"}
    BY <1>2, <1>3, <2>1, ZeroIs DEF Attended, Placed, Counts, OtherPlaces
  <2>. QED  BY <1>3, <2>2, ZeroIs DEF HasBarrier, Stage
<1>4. ASSUME joined[0].barrier >= 1, joined[r].barrier # 2 PROVE Stage("htopo") = "complete"
  <2>1. ~(pc[0] # "htopo_mapped" /\ joined[0].barrier = 2)
    BY <1>1, <1>4, ZeroIs DEF Waited
  <2>2. pc[0] \in {"htopo_filled", "htopo_mapped"}
    BY <1>2, <1>4, <2>1, ZeroIs DEF Attended, Placed, Counts, OtherPlaces
  <2>. QED  BY <1>4, <2>2, ZeroIs DEF HasTopology, Stage
<1>5. ASSUME joined[0].barrier >= 1 PROVE joined[r].smpcomm = 3
  <2>1. joined[0].smpcomm = 3 /\ pc[0] # "bseg_mapped"
    BY <1>2, <1>5 DEF Attended
  <2>. QED  BY <1>1, <2>1, ZeroIs DEF Waited
<1>. QED  BY <1>3, <1>4, <1>5

\* Each step of a rank is a step of the abstract publication, or leaves it
\* unchanged.
LEMMA PublishStep ==
    ASSUME Together, NEW r \in Rank, Step(r)
    PROVE  Publication!Next \/ UNCHANGED Publication!vars
<1>1. Together' /\ Only(r) /\ Joins(r) /\ UNCHANGED fixed
  BY StepKeeps DEF Only
<1>2. Readers' = Readers
  BY <1>1 DEF fixed, Readers
<1>3. ASSUME NEW q \in Rank, q # r PROVE joined'[q] = joined[q]
  BY <1>1, <1>3, OnlyIs
<1>4. ASSUME NEW s \in Segs, NEW q \in Readers, q # r PROVE HasMapped(q, s)' <=> HasMapped(q, s)
  BY <1>3, <1>4 DEF HasMapped, Readers
\* A step of another rank than rank 0.
<1>5. CASE r # 0
  <2>1. SameStages
    <3>1. /\ bseg'[0] = bseg[0] /\ htopo'[0] = htopo[0]
          /\ <<"bseg", 0>> \in linked' <=> <<"bseg", 0>> \in linked
          /\ <<"htopo", 0>> \in linked' <=> <<"htopo", 0>> \in linked
      BY <1>1, <1>5, OnlyIs, ZeroIs
    <3>2. Finished("bseg")' = Finished("bseg") /\ Finished("htopo")' = Finished("htopo")
      BY <3>1 DEF Finished
    <3>3. Stage("bseg")' = Stage("bseg") /\ Stage("htopo")' = Stage("htopo")
      BY <3>1, <3>2 DEF Stage
    <3>. QED  BY <3>3 DEF SameStages, Segs
  <2>2. CASE r \notin Readers
    <3>1. \A s \in Segs : SameMapped(s)
      BY <1>4, <2>2 DEF SameMapped
    <3>. QED  BY <1>2, <2>1, <3>1, PublishKinds
  <2>3. CASE r \in Readers
    <3>. USE <2>3
    <3>1. joined'[0] = joined[0]
      BY <1>3, <1>5, ZeroIs
    <3>2. /\ joined[r] \in Counts /\ joined'[r] \in Counts
          /\ joined[0] \in Counts
      <4>1. joined[r] \in Counts /\ joined[0] \in Counts
        BY TogetherIs, ZeroIs DEF Fits
      <4>2. joined' \in [Rank -> Counts]
        BY <1>1 DEF Together, TypeOK, Counts
      <4>. QED  BY <4>1, <4>2
    <3>3. Waited(r) /\ Waited(r)' /\ Host(r)' = Host(r) /\ 0 \in Host(r) /\ r \in Host(r)
      <4>1. Waited(r) /\ Waited(r)'
        BY <1>1, TogetherIs DEF Together
      <4>2. Host(r)' = Host(r)
        BY <1>1, FixedKept
      <4>3. 0 \in Host(r) /\ r \in Host(r)
        BY ZeroIs DEF Readers, Host
      <4>. QED  BY <4>1, <4>2, <4>3
    <3>4. /\ HasMapped(r, "bseg") => HasMapped(r, "bseg")'
          /\ HasMapped(r, "htopo") => HasMapped(r, "htopo")'
      <4>1. /\ joined[r].smpcomm \in 0 .. 3 /\ joined'[r].smpcomm \in 0 .. 3
            /\ joined[r].barrier \in 0 .. 2 /\ joined'[r].barrier \in 0 .. 2
        BY <3>2 DEF Counts
      <4>2. /\ joined[r].smpcomm = 3 => joined'[r].smpcomm = 3
            /\ joined[r].barrier = 2 => joined'[r].barrier = 2
        BY <1>1, <4>1 DEF Joins
      <4>. QED  BY <4>2 DEF HasMapped
    <3>5. HasMapped(r, "bseg")' /\ ~HasMapped(r, "bseg") => Stage("bseg") = "complete"
      BY <3>1, <3>3, CompleteIs DEF Waited, HasMapped
    <3>6. HasMapped(r, "htopo")' => joined[0].barrier >= 1
      BY <3>1, <3>3 DEF Waited, HasMapped
    <3>7. HasMapped(r, "htopo")' /\ ~HasMapped(r, "htopo") => Stage("htopo") = "complete"
      BY <3>6, CompleteIs DEF HasMapped
    <3>8. HasMapped(r, "htopo")' => HasMapped(r, "bseg")
      BY <3>6, CompleteIs DEF HasMapped
    <3>9. ASSUME NEW s \in Segs, HasMapped(r, s)' <=> HasMapped(r, s) PROVE SameMapped(s)
      BY <1>4, <3>9 DEF SameMapped
    <3>10. CASE HasMapped(r, "bseg")' /\ ~HasMapped(r, "bseg")
      <4>1. SameMapped("htopo") /\ "bseg" \in Segs /\ Segs \ {"bseg"} = {"htopo"}
        BY <3>4, <3>8, <3>9, <3>10 DEF Segs
      <4>. QED  BY <1>2, <1>4, <2>1, <3>5, <3>10, <4>1, PublishKinds
    <3>11. CASE HasMapped(r, "htopo")' /\ ~HasMapped(r, "htopo")
      <4>1. SameMapped("bseg") /\ "htopo" \in Segs /\ Segs \ {"htopo"} = {"bseg"}
        BY <3>4, <3>8, <3>9, <3>11 DEF Segs
      <4>. QED  BY <1>2, <1>4, <2>1, <3>7, <3>11, <4>1, PublishKinds
    <3>12. CASE /\ HasMapped(r, "bseg")' => HasMapped(r, "bseg")
                /\ HasMapped(r, "htopo")' => HasMapped(r, "htopo")
      <4>1. \A s \in Segs : SameMapped(s)
        BY <3>4, <3>9, <3>12 DEF Segs
      <4>. QED  BY <1>2, <2>1, <4>1, PublishKinds
    <3>. QED  BY <3>10, <3>11, <3>12
  <2>. QED  BY <2>2, <2>3
\* A step of rank 0: nobody maps anything.
<1>6. CASE r = 0
  <2>. USE <1>6
  <2>1. \A s \in Segs : SameMapped(s)
    BY <1>4 DEF SameMapped, Readers
  <2>2. ASSUME UNCHANGED memory PROVE UNCHANGED Publication!vars
    <3>1. Stage("bseg")' = Stage("bseg") /\ Stage("htopo")' = Stage("htopo")
      BY <2>2 DEF memory, Stage, Finished
    <3>2. SameStages
      BY <3>1 DEF SameStages, Segs
    <3>. QED  BY <1>2, <2>1, <3>2, PublishKinds
  <2>3. /\ bseg \in [Rank -> {"none", "zeros", "barrier"}]
        /\ htopo \in [Rank -> {NoTopology} \cup Topologies] /\ 0 \in Rank
    BY ZeroIs DEF Together, TypeOK
  <2>4. PICK label \in Label \ {"done"} :
            Attended(joined[0], label) /\ (pc[0] # "done" => pc[0] = label)
    BY ZeroIs
  <2>5. ASSUME Stage("htopo")' = Stage("htopo")
        PROVE  /\ Stage("bseg") = "none" /\ Stage("bseg")' = "made" => Publication!Next
               /\ Stage("bseg") = "made" /\ Stage("bseg")' = "complete" => Publication!Next
               /\ /\ Stage("bseg") = "complete" /\ Stage("bseg")' = "withdrawn"
                  /\ \A q \in Readers : HasMapped(q, "bseg")
                  => Publication!Next
    <3>1. "bseg" \in Segs /\ Segs \ {"bseg"} = {"htopo"}
      BY DEF Segs
    <3>. QED  BY <1>2, <2>1, <2>5, <3>1, PublishKinds
  <2>6. ASSUME Stage("bseg")' = Stage("bseg")
        PROVE  /\ Stage("htopo") = "none" /\ Stage("htopo")' = "made" => Publication!Next
               /\ Stage("htopo") = "made" /\ Stage("htopo")' = "complete" => Publication!Next
               /\ /\ Stage("htopo") = "complete" /\ Stage("htopo")' = "withdrawn"
                  /\ \A q \in Readers : HasMapped(q, "htopo")
                  => Publication!Next
    <3>1. "htopo" \in Segs /\ Segs \ {"htopo"} = {"bseg"}
      BY DEF Segs
    <3>. QED  BY <1>2, <2>1, <2>6, <3>1, PublishKinds
  <2>7. ASSUME htopo' = htopo, <<"htopo", 0>> \in linked' <=> <<"htopo", 0>> \in linked
        PROVE  Stage("htopo")' = Stage("htopo")
    BY <2>7 DEF Stage, Finished
  <2>8. ASSUME bseg' = bseg, <<"bseg", 0>> \in linked' <=> <<"bseg", 0>> \in linked
        PROVE  Stage("bseg")' = Stage("bseg")
    BY <2>8 DEF Stage, Finished
  <2>9. CASE BarrierCreate(0)
    <3>1. /\ pc[0] = "bseg_create" /\ bseg'[0] = "zeros" /\ <<"bseg", 0>> \in linked'
          /\ htopo' = htopo /\ linked' = linked \cup {<<"bseg", 0>>}
      BY <2>3, <2>9 DEF BarrierCreate
    <3>2. Stage("bseg") = "none"
      BY <2>4, <3>1, ZeroIs DEF Stage, HasBarrier, Attended
    <3>3. Stage("bseg")' = "made"
      BY <3>1 DEF Stage, Finished
    <3>. QED  BY <2>5, <2>7, <3>1, <3>2, <3>3
  <2>10. CASE BarrierInit(0)
    <3>1. /\ pc[0] = "bseg_init" /\ bseg'[0] = "barrier" /\ htopo' = htopo /\ linked' = linked
      BY <2>3, <2>10 DEF BarrierInit
    <3>2. Stage("bseg") = "made" /\ <<"bseg", 0>> \in linked
      BY <2>4, <3>1, ZeroIs DEF Stage, HasBarrier, Attended
    <3>3. Stage("bseg")' = "complete"
      BY <3>1, <3>2 DEF Stage, Finished
    <3>. QED  BY <2>5, <2>7, <3>1, <3>2, <3>3
  <2>11. CASE BarrierUnlink(0)
    <3>1. /\ pc[0] = "bseg_unlink" /\ bseg' = bseg /\ htopo' = htopo
          /\ linked' = linked \ {<<"bseg", 0>>}
      BY <2>11 DEF BarrierUnlink
    <3>2. joined[0].smpcomm = 3
      BY <2>4, <3>1 DEF Attended
    <3>3. Stage("bseg") = "complete" /\ Finished("bseg")
      BY <3>1, <3>2, ZeroIs DEF Stage, HasBarrier
    <3>4. Stage("bseg")' = "withdrawn"
      BY <3>1, <3>3 DEF Stage, Finished
    <3>5. \A q \in Readers : HasMapped(q, "bseg")
      BY <3>1, <3>2, ZeroIs DEF Waited, HasMapped
    <3>. QED  BY <2>5, <2>7, <3>1, <3>3, <3>4, <3>5
  <2>12. CASE TopologyCreate(0)
    <3>1. /\ pc[0] = "htopo_create" /\ bseg' = bseg /\ htopo' = htopo
          /\ linked' = linked \cup {<<"htopo", 0>>}
      BY <2>12 DEF TopologyCreate
    <3>2. Stage("htopo") = "none" /\ ~Finished("htopo")
      BY <2>4, <3>1, ZeroIs DEF Stage, HasTopology, Attended
    <3>3. Stage("htopo")' = "made"
      BY <3>1, <3>2 DEF Stage, Finished
    <3>. QED  BY <2>6, <2>8, <3>1, <3>2, <3>3
  <2>13. CASE TopologyFill(0)
    <3>1. /\ pc[0] = "htopo_fill" /\ bseg' = bseg /\ linked' = linked
      BY <2>13 DEF TopologyFill
    <3>2. Stage("htopo") = "made" /\ <<"htopo", 0>> \in linked
      BY <2>4, <3>1, ZeroIs DEF Stage, HasTopology, Attended
    <3>3. Finished("htopo")'
      <4>1. htopo'[0] = topo[0]
        BY <2>3, <2>13 DEF TopologyFill
      <4>2. topo[0] = TopoOf(noMT)
        BY <3>1, ZeroIs DEF HasTopology
      <4>. QED  BY <4>1, <4>2, TopoIs, TogetherIs DEF Finished
    <3>4. Stage("htopo")' = "complete"
      BY <3>1, <3>2, <3>3 DEF Stage
    <3>. QED  BY <2>6, <2>8, <3>1, <3>2, <3>4
  <2>14. CASE TopologyUnlink(0)
    <3>1. /\ pc[0] = "htopo_unlink" /\ bseg' = bseg /\ htopo' = htopo
          /\ linked' = linked \ {<<"htopo", 0>>}
      BY <2>14 DEF TopologyUnlink
    <3>2. joined[0].barrier = 2
      BY <2>4, <3>1 DEF Attended
    <3>3. Stage("htopo") = "complete" /\ Finished("htopo")
      BY <3>1, <3>2, ZeroIs DEF Stage, HasTopology
    <3>4. Stage("htopo")' = "withdrawn"
      BY <3>1, <3>3 DEF Stage, Finished
    <3>5. \A q \in Readers : HasMapped(q, "htopo")
      BY <3>1, <3>2, ZeroIs DEF Waited, HasMapped
    <3>. QED  BY <2>6, <2>8, <3>1, <3>3, <3>4, <3>5
  <2>15. CASE SegmentFailure(0) /\ ~UNCHANGED memory
    <3>1. bseg' = bseg /\ htopo' = htopo
          /\ \/ pc[0] = "bseg_create" /\ linked' = linked \cup {<<"bseg", 0>>}
             \/ pc[0] = "htopo_create" /\ linked' = linked \cup {<<"htopo", 0>>}
      BY <2>15 DEF SegmentFailure, memory
    <3>2. CASE pc[0] = "bseg_create" /\ linked' = linked \cup {<<"bseg", 0>>}
      <4>1. Stage("bseg") = "none" /\ ~Finished("bseg")
        BY <2>4, <3>2, ZeroIs DEF Stage, HasBarrier, Attended
      <4>2. Stage("bseg")' = "made"
        BY <3>1, <3>2, <4>1 DEF Stage, Finished
      <4>. QED  BY <2>5, <2>7, <3>1, <3>2, <4>1, <4>2
    <3>3. CASE pc[0] = "htopo_create" /\ linked' = linked \cup {<<"htopo", 0>>}
      <4>1. Stage("htopo") = "none" /\ ~Finished("htopo")
        BY <2>4, <3>3, ZeroIs DEF Stage, HasTopology, Attended
      <4>2. Stage("htopo")' = "made"
        BY <3>1, <3>3, <4>1 DEF Stage, Finished
      <4>. QED  BY <2>6, <2>8, <3>1, <3>3, <4>1, <4>2
    <3>. QED  BY <3>1, <3>2, <3>3
  <2>16. \/ UNCHANGED memory
         \/ BarrierCreate(0) \/ BarrierInit(0) \/ BarrierUnlink(0)
         \/ TopologyCreate(0) \/ TopologyFill(0) \/ TopologyUnlink(0) \/ SegmentFailure(0)
    BY DEF Step, FindNode, AgreeOnPath, SetUpBarrier, ShareTopology, Resolve, ResolveFailure, GetColor,
           Split, CountNodes, Neighbours, SharePath, SharePathFailure, GetPath, BarrierMade,
           BarrierAttach, BarrierMapped, Load, LoadFailure, GetLength, TopologyFilled,
           TopologyAttach, TopologyMapped, Import, ImportFailure, AttachFailure
  <2>. QED  BY <2>2, <2>9, <2>10, <2>11, <2>12, <2>13, <2>14, <2>15, <2>16
<1>. QED  BY <1>5, <1>6

\* Both segments of the node that rank 0 leads are handed out as Publish
\* promises, whoever fails: made and finished before any rank of the host maps
\* them, and unlinked only when all of them have.
THEOREM PublishesSegments == Spec => Publishes
<1>1. Init => Publication!Init
  <2>. SUFFICES ASSUME Init PROVE Publication!Init
    OBVIOUS
  <2>1. 0 \in Rank
    BY RankIs DEF Rank
  <2>2. \A s \in Segs : Stage(s) = "none"
    BY <2>1 DEF Init, Stage, Finished, Segs
  <2>3. \A s \in Segs : Mapped(s) = {}
    BY DEF Init, Mapped, Segs
  <2>4. Readers \in SUBSET Rank
    BY DEF Readers
  <2>. QED  BY <2>2, <2>3, <2>4 DEF Publication!Init, Segs, Readers
<1>2. Together /\ [Next]_vars => [Publication!Next]_(Publication!vars)
  <2>. SUFFICES ASSUME Together, [Next]_vars PROVE Publication!Next \/ UNCHANGED Publication!vars
    OBVIOUS
  <2>1. ASSUME NEW r \in Rank, Step(r) PROVE Publication!Next \/ UNCHANGED Publication!vars
    BY <2>1, PublishStep
  <2>2. ASSUME UNCHANGED vars PROVE UNCHANGED Publication!vars
    <3>1. Readers' = Readers
      BY <2>2 DEF vars, Readers
    <3>2. SameStages
      BY <2>2 DEF vars, SameStages, Stage, Finished
    <3>3. \A s \in Segs : SameMapped(s)
      BY <2>2 DEF vars, SameMapped, HasMapped
    <3>. QED  BY <3>1, <3>2, <3>3, PublishKinds
  <2>. QED  BY <2>1, <2>2 DEF Next
<1>. QED  BY <1>1, <1>2, TogetherAlways, PTL DEF Spec, Publishes, Publication!Spec

===============================================================================
