--------------------------- MODULE AutoDistribProofs ---------------------------
(***************************************************************************)
(* Proofs about AutoDistrib, for any number of ranks, any node, any        *)
(* sequence of calls and any of the failures: typing, and what the ranks   *)
(* agree on.  Two things hold with every failure that the model has: the   *)
(* books of each rank, and that the ranks agree in each call up to the     *)
(* first in which one of them failed alone.  While none has, they go       *)
(* through the calls in lockstep, and the rest follows from it: what the   *)
(* segments hold, the tables the decisions are taken from, that the        *)
(* decisions add up, and that the segments are handed out as Publish       *)
(* promises.                                                               *)
(***************************************************************************)
EXTENDS AutoDistrib, DataLemmas, FiniteSetTheorems

(***************************************************************************)
(* Constants                                                               *)
(***************************************************************************)
\* The places at which a rank waits for the barrier, and the place beyond
\* each.
LEMMA BeyondIs ==
    /\ DOMAIN Beyond = {"start", "published", "collect", "sized", "mapped"}
    /\ Beyond["start"] = "measure"
    /\ Beyond["published"] = "collect"
    /\ Beyond["collect"] = "unlink"
    /\ Beyond["sized"] = "attach"
    /\ Beyond["mapped"] = "copy"
BY DEF Beyond

\* The places of the model, as an explicit set.
LEMMA LabelIs ==
    Label = {"app", "start", "measure", "path", "query", "length", "create", "fill",
             "published", "sized", "collect", "attach", "mapped", "unlink", "copy", "choose"}
BY BeyondIs DEF Label

\* The calls are numbered from 1.
LEMMA CallsAre == Len(Calls) \in Nat /\ DOMAIN Calls = 1 .. Len(Calls)
BY AutoDistribAssumption, LenProperties

\* The ranks are finitely many numbers, and 0 is one of them.
LEMMA RankIs == N \in Nat \ {0} /\ 0 \in Rank /\ IsFiniteSet(Rank) /\ Rank \subseteq Nat
BY AutoDistribAssumption, FS_Interval DEF Rank

\* The objects of a call are numbered from 1: the loop over them ends at
\* their number.
LEMMA ResourceIs ==
    ASSUME NEW k \in DOMAIN Calls
    PROVE  \E n \in Nat : Resource(k) = 1 .. n /\ Cardinality(Resource(k)) = n
<1>1. ASSUME KnownType(Type(k)) PROVE NObjs(Levels, Type(k)) \in Nat
  <2>1. Ext2Int[Type(k)] \in HwlocType
    BY <1>1 DEF KnownType, Ext2Int, HwlocType
  <2>2. Levels[Ext2Int[Type(k)]] \in Seq(SUBSET PU)
    BY <2>1, TopologyAssumption DEF Topologies
  <2>. QED  BY <2>2, LenProperties DEF NObjs, Objects
<1>2. {} = 1 .. 0
  OBVIOUS
<1>3. PICK n \in Nat : Resource(k) = 1 .. n
  BY <1>1, <1>2 DEF Resource
<1>4. Cardinality(1 .. n) = n
  BY FS_Interval
<1>. QED  BY <1>3, <1>4

\* The types of the tables that a call makes.
LEMMA TablesAre ==
    ASSUME NEW k \in DOMAIN Calls
    PROVE  /\ [Resource(k) -> SUBSET Rank] \subseteq Tables
           /\ EmptyTable(k) \in [Resource(k) -> SUBSET Rank]
           /\ NoTable \in Tables
BY DEF Tables, EmptyTable

(***************************************************************************)
(* What holds of every rank by itself, whoever fails                       *)
(***************************************************************************)
\* The places that only rank 0, or only the others, come to.
RootPlaces == {"query", "create", "fill", "published", "collect", "unlink"}
OtherPlaces == {"length", "sized", "attach", "mapped", "copy"}

\* What a call returns that finds nothing to distribute over.
NoObjects(k) == IF KnownType(Type(k)) THEN "NOT_FOUND" ELSE "INVLD_ARG"

\* A rank's histories are as long as the number of its calls says.
Entered(r) ==
    /\ Len(entered[r]) = call[r]
    /\ Len(answer[r]) = IF pc[r] = "app" THEN call[r] ELSE call[r] - 1
    /\ pc[r] # "app" => call[r] > 0 /\ entered[r][call[r]] = bind[r]

\* Where a rank can be.
Placed(r) ==
    /\ r \in waiting => pc[r] \in DOMAIN Beyond
    /\ r = 0 => pc[r] \notin OtherPlaces
    /\ r # 0 => pc[r] \notin RootPlaces
    /\ pc[r] \in OtherPlaces => path[r] # 0
    /\ pc[r] \notin {"app", "start", "measure"} => Resource(call[r]) # {}

\* A call fails for want of objects exactly when there are none, on every rank.
Measured(r) ==
    \A k \in DOMAIN answer[r] :
        IF Resource(k) = {} THEN answer[r][k] = NoObjects(k)
                            ELSE answer[r][k] \notin {"NOT_FOUND", "INVLD_ARG"}

\* Rank 0 has a table for the resources of its call.
OwnTable ==
    pc[0] \in {"path", "query", "create", "fill"} =>
        table[0] \in [Resource(call[0]) -> SUBSET Rank]

\* TypeOK apart from the end of the queries.
Types ==
    /\ bind \in [Rank -> Affinities]
    /\ pc \in [Rank -> Label]
    /\ call \in [Rank -> 0 .. Len(Calls)]
    /\ waiting \in (SUBSET Rank) \ {Rank}
    /\ chan \in [Others -> Seq(Message)]
    /\ queried \in Nat
    /\ table \in [Rank -> Tables]
    /\ path \in [Rank -> 0 .. Len(Calls)]
    /\ linked \subseteq DOMAIN Calls
    /\ segment \in [DOMAIN Calls -> Tables]
    /\ entered \in [Rank -> Seq(Affinities)]
    /\ answer \in [Rank -> Seq(Result)]

InQueries == pc[0] = "query" => queried <= N * Cardinality(Resource(call[0]))

\* The type invariant in two parts: what each variable holds, and where the
\* queries end.
LEMMA TypeOKIs == TypeOK <=> Types /\ InQueries
BY DEF TypeOK, Types, InQueries

\* The part of the invariant that no failure breaks.
Books ==
    /\ Types /\ InQueries
    /\ OwnTable
    /\ \A r \in Rank : Entered(r) /\ Placed(r) /\ Measured(r)

\* Nobody has called anything yet: the books are in order.
LEMMA BooksInit == Init => Books
<1>. SUFFICES ASSUME Init PROVE Books
  OBVIOUS
<1>. USE RankIs, CallsAre
<1>1. Types /\ InQueries
  <2>1. {} # Rank
    OBVIOUS
  <2>2. segment \in [DOMAIN Calls -> Tables]
    BY DEF Init, Tables
  <2>3. table \in [Rank -> Tables]
    BY DEF Init, Tables
  <2>. QED  BY <2>1, <2>2, <2>3, LabelIs DEF Init, Types, InQueries
<1>2. \A r \in Rank : Entered(r) /\ Placed(r) /\ Measured(r)
  BY DEF Init, Entered, Placed, Measured, OtherPlaces, RootPlaces
<1>3. OwnTable
  BY DEF Init, OwnTable
<1>. QED  BY <1>1, <1>2, <1>3 DEF Books

\* A step that leaves rank 0 where it is, or takes it out of these places,
\* keeps what is known of its table and of its queries.
LEMMA RootKept ==
    ASSUME InQueries, OwnTable, queried' = queried,
           pc'[0] \in {"path", "query", "create", "fill"} =>
               pc'[0] = pc[0] /\ call'[0] = call[0] /\ table'[0] = table[0]
    PROVE  InQueries' /\ OwnTable'
<1>1. InQueries'
  BY DEF InQueries
<1>2. OwnTable'
  BY DEF OwnTable
<1>. QED  BY <1>1, <1>2

\* What a broadcast and a reception leave in the channels.
LEMMA BroadcastTyped ==
    ASSUME Types, NEW m \in Message, Broadcast(m)
    PROVE  chan' \in [Others -> Seq(Message)]
BY AppendProperties DEF Types, Broadcast

\* A receive takes a message off the rank's channel and leaves the channels
\* well typed.
LEMMA ReceivedTyped ==
    ASSUME Types, NEW r \in Rank, NEW what, Received(r, what), Receive(r)
    PROVE  Head(chan[r]) \in Message /\ chan' \in [Others -> Seq(Message)]
<1>1. r \in Others /\ chan[r] \in Seq(Message) /\ chan[r] # <<>>
  BY DEF Types, Received
<1>2. Tail(chan[r]) \in Seq(Message) /\ Head(chan[r]) \in Message
  BY <1>1, HeadTailProperties
<1>. QED  BY <1>1, <1>2 DEF Types, Receive

\* How many queries there can be.
LEMMA CardNat ==
    ASSUME NEW k \in DOMAIN Calls
    PROVE  N * Cardinality(Resource(k)) \in Nat
<1>1. PICK n \in Nat : Cardinality(Resource(k)) = n
  BY ResourceIs
<1>. QED  BY <1>1, RankIs

\* What a return changes of the histories.
LEMMA Returned ==
    ASSUME Types, NEW r \in Rank, NEW result \in Result, Return(r, result)
    PROVE  /\ pc' \in [Rank -> Label] /\ pc' = [pc EXCEPT ![r] = "app"]
           /\ answer' \in [Rank -> Seq(Result)]
           /\ \A q \in Rank \ {r} : answer'[q] = answer[q]
           /\ Len(answer[r]) \in Nat
           /\ Len(answer'[r]) = Len(answer[r]) + 1
           /\ DOMAIN answer[r] = 1 .. Len(answer[r])
           /\ DOMAIN answer'[r] = 1 .. Len(answer[r]) + 1
           /\ answer'[r][Len(answer[r]) + 1] = result
           /\ \A k \in DOMAIN answer[r] : answer'[r][k] = answer[r][k]
<1>1. answer[r] \in Seq(Result) /\ answer' = [answer EXCEPT ![r] = Append(@, result)]
  BY DEF Types, Return
<1>2. answer'[r] = Append(answer[r], result) /\ answer' \in [Rank -> Seq(Result)]
  BY <1>1, AppendProperties DEF Types
<1>3. pc' \in [Rank -> Label] /\ pc' = [pc EXCEPT ![r] = "app"]
  BY LabelIs DEF Types, Return, Goto
<1>. QED  BY <1>1, <1>2, <1>3, AppendProperties, LenProperties DEF Types

\* Every query is for a rank and a resource of the call.
LEMMA QueryTyped ==
    ASSUME NEW k \in DOMAIN Calls, NEW n \in Nat, n < N * Cardinality(Resource(k))
    PROVE  QueryOf(n).res \in Resource(k) /\ QueryOf(n).rank \in Rank
<1>1. PICK m \in Nat : Resource(k) = 1 .. m /\ Cardinality(Resource(k)) = m
  BY ResourceIs
<1>2. n \div N \in Nat /\ n % N \in Rank
  BY RankIs, Division DEF Rank
<1>3. n \div N < m
  BY <1>1, RankIs, Rows
<1>. QED  BY <1>1, <1>2, <1>3 DEF QueryOf

\* A rank in the call is in a call that the application makes.
LEMMA InCall ==
    ASSUME Books, NEW r \in Rank, pc[r] # "app"
    PROVE  call[r] \in DOMAIN Calls
<1>1. call[r] \in 0 .. Len(Calls) /\ call[r] > 0
  BY DEF Books, Types, Entered
<1>. QED  BY <1>1, CallsAre

\* A return keeps the books of the rank that returns, if it answers as it measured.
LEMMA ReturnedBooks ==
    ASSUME Books, NEW r \in Rank, NEW result \in Result, Return(r, result),
           pc[r] # "app", r \notin waiting,
           UNCHANGED <<bind, call, waiting, entered, path>>,
           IF Resource(call[r]) = {} THEN result = NoObjects(call[r])
                                     ELSE result \notin {"NOT_FOUND", "INVLD_ARG"}
    PROVE  \A q \in Rank : Entered(q)' /\ Placed(q)' /\ Measured(q)'
<1>. TAKE q \in Rank
<1>. USE Returned DEF Books
<1>1. Len(answer[r]) + 1 = call[r]
  BY DEF Entered, Types
<1>2. Entered(q)'
  <2>1. pc'[r] = "app" /\ Len(answer'[r]) = call[r]
    BY <1>1 DEF Types
  <2>2. q # r => pc'[q] = pc[q] /\ answer'[q] = answer[q]
    BY DEF Types
  <2>. HIDE Returned
  <2>. QED  BY <2>1, <2>2 DEF Entered
<1>3. Placed(q)'
  <2>1. pc' = [pc EXCEPT ![r] = "app"] /\ pc \in [Rank -> Label]
    BY DEF Types
  <2>2. pc'[r] = "app" /\ \A x \in Rank \ {r} : pc'[x] = pc[x]
    BY <2>1
  <2>. HIDE Returned
  <2>3. CASE q = r
    BY <2>2, <2>3 DEF Placed, OtherPlaces, RootPlaces
  <2>4. CASE q # r
    BY <2>2, <2>4 DEF Placed
  <2>. QED  BY <2>3, <2>4
<1>4. ASSUME q = r PROVE Measured(q)'
  <2>. SUFFICES ASSUME NEW k \in DOMAIN answer'[r]
                PROVE  IF Resource(k) = {} THEN answer'[r][k] = NoObjects(k)
                                           ELSE answer'[r][k] \notin {"NOT_FOUND", "INVLD_ARG"}
    BY <1>4 DEF Measured
  <2>1. CASE k \in DOMAIN answer[r]
    BY <2>1 DEF Measured
  <2>2. CASE k = Len(answer[r]) + 1
    BY <1>1, <2>2
  <2>. QED  BY <2>1, <2>2
<1>5. ASSUME q # r PROVE Measured(q)'
  BY <1>5 DEF Measured
<1>. QED  BY <1>2, <1>3, <1>4, <1>5


\* Going from one place to another inside the call keeps the books, too.
LEMMA MovedBooks ==
    ASSUME Books, NEW r \in Rank, NEW label \in Label \ {"app"}, Goto(r, label),
           pc[r] \notin {"app", "start", "measure"} \cup DOMAIN Beyond,
           IF r = 0 THEN label \notin OtherPlaces ELSE label \notin RootPlaces,
           label \in OtherPlaces => path'[r] # 0,
           \A q \in Rank \ {r} : path'[q] = path[q],
           UNCHANGED <<bind, call, waiting, entered, answer>>
    PROVE  /\ pc' \in [Rank -> Label]
           /\ \A q \in Rank : Entered(q)' /\ Placed(q)' /\ Measured(q)'
<1>. USE DEF Books
<1>1. pc' \in [Rank -> Label] /\ pc' = [pc EXCEPT ![r] = label]
  BY DEF Types, Goto
<1>2. ASSUME NEW q \in Rank PROVE Entered(q)'
  BY <1>1 DEF Entered, Types
<1>3. ASSUME NEW q \in Rank PROVE Placed(q)'
  BY <1>1 DEF Placed, Types
<1>4. ASSUME NEW q \in Rank PROVE Measured(q)'
  BY DEF Measured
<1>. QED  BY <1>1, <1>2, <1>3, <1>4

\* So does failing alone.
LEMMA FailedBooks ==
    ASSUME Books, NEW r \in Rank, Return(r, "ERR"),
           pc[r] \notin {"app", "start", "measure"} \cup DOMAIN Beyond,
           linked' \subseteq DOMAIN Calls, segment' \in [DOMAIN Calls -> Tables],
           UNCHANGED <<bind, call, waiting, chan, queried, table, path, entered>>
    PROVE  Books'
<1>. USE DEF Books
<1>1. "ERR" \in Result
  BY DEF Result
<1>2. Resource(call[r]) # {} /\ r \notin waiting /\ pc[r] # "app"
  BY DEF Placed
<1>3. \A q \in Rank : Entered(q)' /\ Placed(q)' /\ Measured(q)'
  BY <1>1, <1>2, ReturnedBooks
<1>4. Types'
  BY <1>1, Returned DEF Types
<1>5. pc' = [pc EXCEPT ![r] = "app"] /\ pc \in [Rank -> Label]
  BY <1>1, Returned DEF Types
<1>6. InQueries' /\ OwnTable'
  BY <1>5, RankIs, RootKept
<1>. QED  BY <1>3, <1>4, <1>6

\* Every step keeps the books, failures included: the proof has one step for
\* each action.
LEMMA BooksStep == Books /\ [Next]_vars => Books'
<1>. SUFFICES ASSUME Books, [Next]_vars PROVE Books'
  OBVIOUS
<1>. USE RankIs, CallsAre, LabelIs, BeyondIs DEF Books
<1>1. CASE UNCHANGED vars
  <2>1. Types' /\ InQueries' /\ OwnTable'
    BY <1>1 DEF vars, Types, InQueries, OwnTable
  <2>2. \A r \in Rank : Entered(r)' /\ Placed(r)' /\ Measured(r)'
    BY <1>1 DEF vars, Entered, Placed, Measured
  <2>. QED  BY <2>1, <2>2
<1>2. ASSUME NEW r \in Rank, NEW b \in Affinities, Rebind(r, b) PROVE Books'
  <2>1. /\ pc[r] = "app" /\ bind' = [bind EXCEPT ![r] = b]
        /\ UNCHANGED <<pc, call, waiting, chan, queried, table, path, linked, segment,
                       entered, answer>>
    BY <1>2 DEF Rebind
  <2>2. Types'
    BY <2>1 DEF Types
  <2>3. InQueries' /\ OwnTable'
    BY <2>1, RootKept
  <2>4. ASSUME NEW q \in Rank PROVE Entered(q)' /\ Placed(q)' /\ Measured(q)'
    <3>1. pc[q] # "app" => bind'[q] = bind[q]
      BY <2>1 DEF Types
    <3>. QED  BY <2>1, <3>1 DEF Entered, Placed, Measured
  <2>. QED  BY <2>2, <2>3, <2>4
<1>3. ASSUME NEW r \in Rank, Call(r) PROVE Books'
  <2>1. /\ entered' \in [Rank -> Seq(Affinities)]
        /\ Len(entered'[r]) = call[r] + 1
        /\ entered'[r][call[r] + 1] = bind[r]
    <3>1. entered[r] \in Seq(Affinities) /\ bind[r] \in Affinities
      BY DEF Types
    <3>2. entered' = [entered EXCEPT ![r] = Append(@, bind[r])]
      BY <1>3 DEF Call
    <3>3. entered'[r] = Append(entered[r], bind[r])
      BY <3>2 DEF Types
    <3>4. entered' \in [Rank -> Seq(Affinities)]
      BY <3>1, <3>2, AppendProperties DEF Types
    <3>. QED  BY <3>1, <3>3, <3>4, AppendProperties DEF Entered
  <2>2. Types'
    <3>1. pc' \in [Rank -> Label]
      BY <1>3 DEF Call, Goto, Types
    <3>2. call' \in [Rank -> 0 .. Len(Calls)]
      BY <1>3, SMTT(30) DEF Call, Types
    <3>. QED  BY <1>3, <2>1, <3>1, <3>2 DEF Call, Types
  <2>3. InQueries' /\ OwnTable'
    BY <1>3, RootKept DEF Call, Goto, Types
  <2>4. ASSUME NEW q \in Rank PROVE Entered(q)'
    BY <1>3, <2>1 DEF Call, Goto, Types, Entered
  <2>5. ASSUME NEW q \in Rank PROVE Placed(q)' /\ Measured(q)'
    <3>1. pc[r] = "app" /\ pc'[r] = "start" /\ \A x \in Rank \ {r} : pc'[x] = pc[x]
      BY <1>3 DEF Call, Goto, Types
    <3>2. UNCHANGED <<waiting, path, answer>> /\ \A x \in Rank \ {r} : call'[x] = call[x]
      BY <1>3 DEF Call, Types
    <3>3. ASSUME q = r PROVE Placed(q)'
      BY <3>1, <3>2, <3>3 DEF Placed, OtherPlaces, RootPlaces
    <3>4. ASSUME q # r PROVE Placed(q)'
      <4>1. UNCHANGED <<waiting, path>> /\ pc'[q] = pc[q] /\ call'[q] = call[q]
        BY <3>1, <3>2, <3>4
      <4>2. Placed(q)
        OBVIOUS
      <4>. QED  BY <4>1, <4>2 DEF Placed
    <3>5. Measured(q)'
      BY <3>2 DEF Measured
    <3>. QED  BY <3>3, <3>4, <3>5
  <2>. QED  BY <2>2, <2>3, <2>4, <2>5
<1>4. ASSUME NEW r \in Rank, Arrive(r) PROVE Books'
  <2>1. CASE waiting \cup {r} = Rank
    <3>1. \A q \in Rank : pc[q] \in DOMAIN Beyond /\ pc'[q] = Beyond[pc[q]]
      BY <1>4, <2>1 DEF Arrive, Placed
    <3>2. Types'
      <4>1. pc' \in [Rank -> Label]
        BY <1>4, <2>1, <3>1 DEF Arrive
      <4>2. {} \in (SUBSET Rank) \ {Rank}
        OBVIOUS
      <4>. QED  BY <1>4, <2>1, <4>1, <4>2 DEF Arrive, Types
    <3>3. ASSUME NEW q \in Rank PROVE Entered(q)'
      <4>1. UNCHANGED <<entered, answer, call, bind>>
        BY <1>4 DEF Arrive
      <4>2. pc[q] # "app" /\ pc'[q] # "app"
        BY <3>1
      <4>. QED  BY <4>1, <4>2 DEF Entered
    <3>4. ASSUME NEW q \in Rank PROVE Placed(q)'
      <4>1. waiting' = {} /\ path' = path /\ call' = call
        BY <1>4, <2>1 DEF Arrive
      <4>2. /\ pc[q] \in DOMAIN Beyond /\ pc'[q] = Beyond[pc[q]]
            /\ pc[q] # "start" => Resource(call[q]) # {}
        BY <3>1 DEF Placed
      <4>3. \/ pc[q] = "start" /\ pc'[q] = "measure"
            \/ pc[q] \in RootPlaces /\ pc'[q] \in {"collect", "unlink"}
            \/ pc[q] \in OtherPlaces /\ pc'[q] \in {"attach", "copy"}
        BY <4>2 DEF RootPlaces, OtherPlaces
      <4>4. (q = 0 => pc'[q] \notin OtherPlaces) /\ (q # 0 => pc'[q] \notin RootPlaces)
        BY <4>3 DEF Placed, RootPlaces, OtherPlaces
      <4>5. pc'[q] \in OtherPlaces => path[q] # 0
        BY <4>3 DEF Placed, RootPlaces, OtherPlaces
      <4>6. pc'[q] \notin {"app", "start", "measure"} => Resource(call[q]) # {}
        BY <4>2, <4>3
      <4>. QED  BY <4>1, <4>4, <4>5, <4>6 DEF Placed
    <3>6. ASSUME NEW q \in Rank PROVE Measured(q)'
      BY <1>4 DEF Arrive, Measured
    <3>5. InQueries' /\ OwnTable'
      BY <1>4, <2>1, <3>1, RootKept DEF Arrive
    <3>. QED  BY <3>2, <3>3, <3>4, <3>5, <3>6
  <2>2. CASE waiting \cup {r} # Rank
    <3>1. Types' /\ InQueries' /\ OwnTable'
      BY <1>4, <2>2, RootKept DEF Arrive, Types
    <3>2. ASSUME NEW q \in Rank PROVE Entered(q)' /\ Placed(q)'
      BY <1>4, <2>2 DEF Arrive, Entered, Placed
    <3>3. ASSUME NEW q \in Rank PROVE Measured(q)'
      BY <1>4 DEF Arrive, Measured
    <3>. QED  BY <3>1, <3>2, <3>3
  <2>. QED  BY <2>1, <2>2
<1>5. ASSUME NEW r \in Rank, Measure(r) PROVE Books'
  <2>. DEFINE k == call[r]
  <2>1. k \in DOMAIN Calls /\ r \notin waiting
    <3>1. k \in 0 .. Len(Calls) /\ k > 0
      BY <1>5 DEF Measure, Types, Entered
    <3>. QED  BY <1>5, <3>1 DEF Measure, Placed
  <2>2. CASE Resource(k) = {}
    <3>1. NoObjects(k) \in Result /\ Return(r, NoObjects(k))
      BY <1>5, <2>2 DEF Measure, NoObjects, Result
    <3>2. Types'
      BY <1>5, <2>2, <3>1, Returned DEF Measure, Types
    <3>3. \A q \in Rank : Entered(q)' /\ Placed(q)' /\ Measured(q)'
      BY <1>5, <2>1, <2>2, <3>1, ReturnedBooks DEF Measure
    <3>4. InQueries' /\ OwnTable'
      <4>1. pc' = [pc EXCEPT ![r] = "app"] /\ pc \in [Rank -> Label]
        BY <3>1, Returned DEF Types
      <4>2. UNCHANGED <<queried, call, table>>
        BY <1>5, <2>2 DEF Measure
      <4>. QED  BY <4>1, <4>2, RootKept
    <3>. QED  BY <3>2, <3>3, <3>4
  <2>3. CASE Resource(k) # {}
    <3>0. /\ pc[r] = "measure" /\ pc' = [pc EXCEPT ![r] = "path"]
          /\ table' = [table EXCEPT ![r] = EmptyTable(k)]
          /\ UNCHANGED <<bind, call, waiting, chan, queried, path, linked, segment, entered,
                         answer>>
      BY <1>5, <2>3 DEF Measure, Goto
    <3>1. Types'
      <4>1. pc' \in [Rank -> Label]
        BY <3>0 DEF Types
      <4>2. table' \in [Rank -> Tables]
        BY <2>1, <3>0, TablesAre DEF Types
      <4>. QED  BY <3>0, <4>1, <4>2 DEF Types
    <3>2. ASSUME NEW q \in Rank PROVE Entered(q)'
      BY <1>5, <2>3, SMTT(30) DEF Measure, Goto, Types, Entered
    <3>3. ASSUME NEW q \in Rank PROVE Placed(q)'
      <4>1. pc'[r] = "path" /\ \A x \in Rank \ {r} : pc'[x] = pc[x]
        BY <3>0 DEF Types
      <4>2. CASE q = r
        BY <2>1, <2>3, <3>0, <4>1, <4>2 DEF Placed, OtherPlaces, RootPlaces
      <4>3. CASE q # r
        BY <3>0, <4>1, <4>3 DEF Placed
      <4>. QED  BY <4>2, <4>3
    <3>4. ASSUME NEW q \in Rank PROVE Measured(q)'
      BY <1>5, <2>3 DEF Measure, Measured
    <3>5. InQueries'
      BY <1>5, <2>3 DEF Measure, Goto, Types, InQueries
    <3>6. OwnTable'
      BY <1>5, <2>1, <2>3, TablesAre DEF Measure, Goto, Types, OwnTable
    <3>. QED  BY <3>1, <3>2, <3>3, <3>4, <3>5, <3>6
  <2>. QED  BY <2>2, <2>3
<1>6. ASSUME SharePath PROVE Books'
  <2>1. pc[0] = "path" /\ pc'[0] = "query" /\ call[0] \in DOMAIN Calls
    BY <1>6, InCall DEF SharePath, Goto, Types
  <2>2. [what |-> "path", segment |-> call[0]] \in Message
    BY <2>1 DEF Message
  <2>3. chan' \in [Others -> Seq(Message)]
    BY <1>6, <2>2, BroadcastTyped DEF SharePath
  <2>4. pc' \in [Rank -> Label] /\ \A q \in Rank : Entered(q)' /\ Placed(q)' /\ Measured(q)'
    BY <1>6, MovedBooks DEF SharePath, OtherPlaces
  <2>5. Types'
    BY <1>6, <2>3, <2>4 DEF SharePath, Types
  <2>6. InQueries'
    <3>1. N * Cardinality(Resource(call[0])) \in Nat
      BY <2>1, CardNat
    <3>2. queried' = 0 /\ call' = call
      BY <1>6 DEF SharePath
    <3>. QED  BY <3>1, <3>2 DEF InQueries
  <2>7. OwnTable'
    BY <1>6 DEF SharePath, OwnTable
  <2>. QED  BY <2>4, <2>5, <2>6, <2>7
<1>7. ASSUME SharePathFailure PROVE Books'
  <2>1. pc[0] = "path" /\ Resource(call[0]) # {} /\ 0 \notin waiting
    BY <1>7 DEF SharePathFailure, Placed
  <2>2. "NO_PATH" \in Result /\ NoPath \in Message
    BY DEF Result, NoPath, Message
  <2>3. chan' \in [Others -> Seq(Message)]
    BY <1>7, <2>2, BroadcastTyped DEF SharePathFailure
  <2>4. \A q \in Rank : Entered(q)' /\ Placed(q)' /\ Measured(q)'
    BY <1>7, <2>1, <2>2, ReturnedBooks DEF SharePathFailure
  <2>5. Types'
    BY <1>7, <2>2, <2>3, Returned DEF SharePathFailure, Types
  <2>7. pc'[0] = "app"
    BY <1>7 DEF SharePathFailure, Return, Goto, Types
  <2>6. InQueries' /\ OwnTable'
    BY <1>7, <2>7, RootKept DEF SharePathFailure
  <2>. QED  BY <2>4, <2>5, <2>6
<1>8. ASSUME NEW r \in Rank, GetPath(r) PROVE Books'
  <2>1. /\ pc[r] = "path" /\ Resource(call[r]) # {} /\ r \notin waiting /\ r # 0
        /\ Received(r, "path") /\ Receive(r) /\ Head(chan[r]).what = "path"
    BY <1>8 DEF GetPath, Placed, Received, Others
  <2>2. Head(chan[r]) \in Message /\ chan' \in [Others -> Seq(Message)]
    BY <2>1, ReceivedTyped
  <2>3. CASE Head(chan[r]) = NoPath
    <3>1. "NO_PATH" \in Result
      BY DEF Result
    <3>2. \A q \in Rank : Entered(q)' /\ Placed(q)' /\ Measured(q)'
      BY <1>8, <2>1, <2>3, <3>1, ReturnedBooks DEF GetPath
    <3>3. Types'
      BY <1>8, <2>2, <2>3, <3>1, Returned DEF GetPath, Types
    <3>4. InQueries' /\ OwnTable'
      <4>1. pc' = [pc EXCEPT ![r] = "app"] /\ pc \in [Rank -> Label]
        BY <1>8, <2>3, <3>1, Returned DEF GetPath, Types
      <4>2. UNCHANGED <<queried, call, table>>
        BY <1>8 DEF GetPath
      <4>. QED  BY <2>1, <4>1, <4>2, RootKept
    <3>. QED  BY <3>2, <3>3, <3>4
  <2>4. CASE Head(chan[r]) # NoPath
    <3>1. Head(chan[r]).segment \in 0 .. Len(Calls) /\ Head(chan[r]).segment # 0
      BY <2>1, <2>2, <2>4 DEF Message, NoPath
    <3>2. path' = [path EXCEPT ![r] = Head(chan[r]).segment] /\ Goto(r, "length")
      BY <1>8, <2>4 DEF GetPath
    <3>3. path'[r] # 0 /\ path' \in [Rank -> 0 .. Len(Calls)]
      BY <3>1, <3>2 DEF Types
    <3>4. UNCHANGED <<bind, call, waiting, queried, table, linked, segment, entered, answer>>
      BY <1>8, <2>4 DEF GetPath
    <3>5. pc' \in [Rank -> Label] /\ \A q \in Rank : Entered(q)' /\ Placed(q)' /\ Measured(q)'
      BY <2>1, <3>2, <3>3, <3>4, MovedBooks DEF RootPlaces
    <3>6. Types'
      BY <2>2, <3>3, <3>4, <3>5 DEF Types
    <3>7. InQueries' /\ OwnTable'
      BY <2>1, <3>2, <3>4, RootKept DEF Goto, Types
    <3>. QED  BY <3>5, <3>6, <3>7
  <2>. QED  BY <2>3, <2>4
<1>9. ASSUME Query PROVE Books'
  <2>. DEFINE k == call[0]
              q == QueryOf(queried)
  <2>1. pc[0] = "query" /\ k \in DOMAIN Calls /\ queried < N * Cardinality(Resource(k))
    BY <1>9, InCall DEF Query
  <2>2. UNCHANGED <<bind, pc, call, waiting, chan, path, linked, segment, entered, answer>>
    BY <1>9 DEF Query
  <2>3. table[0] \in [Resource(k) -> SUBSET Rank]
    BY <2>1 DEF OwnTable
  <2>4. q.res \in Resource(k) /\ q.rank \in Rank
    BY <2>1, QueryTyped DEF Types
  <2>5. /\ table'[0] \in [Resource(k) -> SUBSET Rank]
        /\ table' \in [Rank -> Tables]
    <3>1. PICK S \in SUBSET Rank : table' = [table EXCEPT ![0] = [table[0] EXCEPT ![q.res] = S]]
      <4>1. table[0][q.res] \in SUBSET Rank /\ table[0][q.res] \cup {q.rank} \in SUBSET Rank
        BY <2>3, <2>4
      <4>. QED  BY <1>9, <4>1 DEF Query
    <3>2. [table[0] EXCEPT ![q.res] = S] \in [Resource(k) -> SUBSET Rank]
      BY <2>3, <2>4
    <3>. QED  BY <2>1, <3>1, <3>2, TablesAre DEF Types
  <2>6. Types'
    <3>1. queried' \in Nat
      BY <1>9 DEF Query, Types
    <3>. QED  BY <2>2, <2>5, <3>1 DEF Types
  <2>7. OwnTable'
    BY <2>2, <2>5 DEF OwnTable
  <2>8. InQueries'
    <3>1. N * Cardinality(Resource(k)) \in Nat /\ queried \in Nat /\ queried' = queried + 1
      BY <1>9, <2>1, CardNat DEF Query, Types
    <3>. QED  BY <2>1, <2>2, <3>1 DEF InQueries
  <2>9. \A x \in Rank : Entered(x)' /\ Placed(x)' /\ Measured(x)'
    BY <2>2 DEF Entered, Placed, Measured
  <2>. QED  BY <2>6, <2>7, <2>8, <2>9
<1>10. ASSUME QueryFailure PROVE Books'
  <2>1. linked' \subseteq DOMAIN Calls /\ segment' \in [DOMAIN Calls -> Tables]
    BY <1>10 DEF QueryFailure, Types
  <2>. QED  BY <1>10, <2>1, FailedBooks DEF QueryFailure
<1>11. ASSUME ShareLength PROVE Books'
  <2>1. pc[0] = "query" /\ pc'[0] = "create" /\ call[0] \in DOMAIN Calls
    BY <1>11, InCall DEF ShareLength, Goto, Types
  <2>2. [what |-> "length", segment |-> call[0]] \in Message
    BY <2>1 DEF Message
  <2>3. chan' \in [Others -> Seq(Message)]
    BY <1>11, <2>2, BroadcastTyped DEF ShareLength
  <2>4. pc' \in [Rank -> Label] /\ \A q \in Rank : Entered(q)' /\ Placed(q)' /\ Measured(q)'
    BY <1>11, MovedBooks DEF ShareLength, OtherPlaces
  <2>5. Types'
    BY <1>11, <2>3, <2>4 DEF ShareLength, Types
  <2>6. InQueries' /\ OwnTable'
    BY <1>11, <2>1 DEF ShareLength, InQueries, OwnTable
  <2>. QED  BY <2>4, <2>5, <2>6
<1>12. ASSUME NEW r \in Rank, GetLength(r) PROVE Books'
  <2>1. /\ pc[r] = "length" /\ r \notin waiting /\ r # 0 /\ path[r] # 0
        /\ Received(r, "length") /\ Receive(r)
    BY <1>12 DEF GetLength, Placed, Received, Others, OtherPlaces
  <2>2. chan' \in [Others -> Seq(Message)]
    BY <2>1, ReceivedTyped
  <2>3. pc' \in [Rank -> Label] /\ \A q \in Rank : Entered(q)' /\ Placed(q)' /\ Measured(q)'
    BY <1>12, <2>1, MovedBooks DEF GetLength, RootPlaces
  <2>4. Types'
    BY <1>12, <2>2, <2>3 DEF GetLength, Types
  <2>5. InQueries' /\ OwnTable'
    BY <1>12, <2>1, RootKept DEF GetLength, Goto, Types
  <2>. QED  BY <2>3, <2>4, <2>5
<1>13. ASSUME Create PROVE Books'
  <2>1. pc[0] = "create" /\ pc'[0] = "fill" /\ call[0] \in DOMAIN Calls
    BY <1>13, InCall DEF Create, Goto, Types
  <2>2. pc' \in [Rank -> Label] /\ \A q \in Rank : Entered(q)' /\ Placed(q)' /\ Measured(q)'
    BY <1>13, MovedBooks DEF Create, OtherPlaces
  <2>3. Types'
    BY <1>13, <2>1, <2>2, TablesAre DEF Create, Types
  <2>4. InQueries' /\ OwnTable'
    BY <1>13, <2>1 DEF Create, InQueries, OwnTable
  <2>. QED  BY <2>2, <2>3, <2>4
<1>14. ASSUME OpenFailure PROVE Books'
  <2>1. linked' \subseteq DOMAIN Calls /\ segment' \in [DOMAIN Calls -> Tables]
    BY <1>14 DEF OpenFailure, Types
  <2>. QED  BY <1>14, <2>1, FailedBooks DEF OpenFailure
<1>15. ASSUME MapFailure PROVE Books'
  <2>1. pc[0] = "create" /\ call[0] \in DOMAIN Calls
    BY <1>15, InCall DEF MapFailure
  <2>2. linked' \subseteq DOMAIN Calls /\ segment' \in [DOMAIN Calls -> Tables]
    BY <1>15, <2>1, TablesAre DEF MapFailure, Types
  <2>. QED  BY <1>15, <2>1, <2>2, FailedBooks DEF MapFailure
<1>16. ASSUME Fill PROVE Books'
  <2>1. pc[0] = "fill" /\ pc'[0] = "published" /\ call[0] \in DOMAIN Calls
    BY <1>16, InCall DEF Fill, Goto, Types
  <2>2. pc' \in [Rank -> Label] /\ \A q \in Rank : Entered(q)' /\ Placed(q)' /\ Measured(q)'
    BY <1>16, MovedBooks DEF Fill, OtherPlaces
  <2>3. Types'
    BY <1>16, <2>1, <2>2 DEF Fill, Types
  <2>4. InQueries' /\ OwnTable'
    BY <1>16, <2>1, RootKept DEF Fill
  <2>. QED  BY <2>2, <2>3, <2>4
<1>17. ASSUME Unlink PROVE Books'
  <2>1. pc[0] = "unlink" /\ pc'[0] = "choose"
    BY <1>17 DEF Unlink, Goto, Types
  <2>2. pc' \in [Rank -> Label] /\ \A q \in Rank : Entered(q)' /\ Placed(q)' /\ Measured(q)'
    BY <1>17, MovedBooks DEF Unlink, OtherPlaces
  <2>3. Types'
    BY <1>17, <2>2 DEF Unlink, Types
  <2>4. InQueries' /\ OwnTable'
    BY <1>17, <2>1, RootKept DEF Unlink
  <2>. QED  BY <2>2, <2>3, <2>4
<1>18. ASSUME NEW r \in Rank, Attach(r) PROVE Books'
  <2>1. pc[r] = "attach" /\ r # 0 /\ path[r] # 0
    BY <1>18 DEF Attach, Placed, OtherPlaces
  <2>2. pc' \in [Rank -> Label] /\ \A q \in Rank : Entered(q)' /\ Placed(q)' /\ Measured(q)'
    BY <1>18, <2>1, MovedBooks DEF Attach, RootPlaces
  <2>3. Types'
    BY <1>18, <2>2 DEF Attach, Types
  <2>4. InQueries' /\ OwnTable'
    BY <1>18, <2>1, RootKept DEF Attach, Goto, Types
  <2>. QED  BY <2>2, <2>3, <2>4
<1>19. ASSUME NEW r \in Rank, AttachFailure(r) PROVE Books'
  <2>1. linked' \subseteq DOMAIN Calls /\ segment' \in [DOMAIN Calls -> Tables]
    BY <1>19 DEF AttachFailure, Types
  <2>. QED  BY <1>19, <2>1, FailedBooks DEF AttachFailure
<1>20. ASSUME NEW r \in Rank, Copy(r) PROVE Books'
  <2>1. pc[r] = "copy" /\ r # 0 /\ path[r] # 0
    BY <1>20 DEF Copy, Placed, OtherPlaces
  <2>2. pc' \in [Rank -> Label] /\ \A q \in Rank : Entered(q)' /\ Placed(q)' /\ Measured(q)'
    BY <1>20, <2>1, MovedBooks DEF Copy, RootPlaces, OtherPlaces
  <2>3. path[r] \in DOMAIN Calls
    BY <2>1 DEF Types
  <2>4. Types'
    BY <1>20, <2>2, <2>3 DEF Copy, Types
  <2>5. InQueries' /\ OwnTable'
    BY <1>20, <2>1, RootKept DEF Copy, Goto, Types
  <2>. QED  BY <2>2, <2>4, <2>5
<1>21. ASSUME NEW r \in Rank, Choose(r) PROVE Books'
  <2>. DEFINE result == IF Selected(call[r], r, table[r]) THEN "selected" ELSE "not selected"
  <2>1. pc[r] = "choose" /\ Resource(call[r]) # {} /\ r \notin waiting /\ Return(r, result)
    BY <1>21 DEF Choose, Placed
  <2>2. result \in Result /\ result \notin {"NOT_FOUND", "INVLD_ARG"}
    BY DEF Result
  <2>. HIDE DEF result
  <2>3. \A q \in Rank : Entered(q)' /\ Placed(q)' /\ Measured(q)'
    BY <1>21, <2>1, <2>2, ReturnedBooks DEF Choose
  <2>4. NoTable \in Tables
    BY DEF Tables
  <2>5. Types'
    BY <1>21, <2>1, <2>2, <2>4, Returned DEF Choose, Types
  <2>6. InQueries' /\ OwnTable'
    <3>1. pc' = [pc EXCEPT ![r] = "app"] /\ pc \in [Rank -> Label]
      BY <2>1, <2>2, Returned DEF Types
    <3>2. table' = [table EXCEPT ![r] = NoTable] /\ queried' = queried /\ call' = call
      BY <1>21 DEF Choose
    <3>. QED  BY <3>1, <3>2, RootKept DEF Types
  <2>. QED  BY <2>3, <2>5, <2>6
<1>. QED
  BY <1>1, <1>2, <1>3, <1>4, <1>5, <1>6, <1>7, <1>8, <1>9, <1>10, <1>11, <1>12, <1>13,
     <1>14, <1>15, <1>16, <1>17, <1>18, <1>19, <1>20, <1>21
     DEF Next, LibraryStep, RootStep, OtherStep

\* The books are in order in every reachable state.
LEMMA BooksAlways == Spec => []Books
<1>1. Init => Books
  BY BooksInit
<1>2. Books /\ [Next]_vars => Books'
  BY BooksStep
<1>. QED  BY <1>1, <1>2, PTL DEF Spec

\* The variables keep their types, whatever fails: in particular no barrier
\* keeps all the ranks, and rank 0 never asks for an affinity too many.
THEOREM AutoDistribTyping == Spec => []TypeOK
<1>1. Books => TypeOK
  BY TypeOKIs DEF Books
<1>. QED  BY <1>1, BooksAlways, PTL

(***************************************************************************)
(* The ranks in lockstep, while nobody has failed alone.  A rank's turn is *)
(* the call it is in or, until it passes the first barrier of the next one,*)
(* the latest call it has returned from; its place is where it is in that  *)
(* turn, a result standing for having returned.                            *)
(***************************************************************************)
Turn(r) == IF pc[r] \in {"app", "start"} THEN Len(answer[r]) ELSE call[r]

Place(r) ==
    IF pc[r] \notin {"app", "start"} THEN pc[r]
    ELSE IF answer[r] = <<>> THEN "not selected" ELSE answer[r][Len(answer[r])]

Decided == {"selected", "not selected"}
Missing == {"NOT_FOUND", "INVLD_ARG"}

PathOf(k) == [what |-> "path", segment |-> k]
LengthOf(k) == [what |-> "length", segment |-> k]

\* Where rank r can be, and which broadcasts it has yet to receive, given where
\* rank 0 is: every broadcast is received, in order, before the next barrier.
Follows(r) ==
    LET k == Turn(0)
        At(places, messages) == Place(r) \in places /\ chan[r] = messages
    IN  CASE Place(0) \in {"measure", "path"} \cup Missing ->
                At({"measure", "path"} \cup Missing, <<>>)
          [] Place(0) = "NO_PATH" ->
                At({"measure", "path"}, <<NoPath>>) \/ At({"NO_PATH"}, <<>>)
          [] Place(0) = "query" ->
                At({"measure", "path"}, <<PathOf(k)>>) \/ At({"length"}, <<>>)
          [] Place(0) \in {"create", "fill", "published"} ->
                \/ At({"measure", "path"}, <<PathOf(k), LengthOf(k)>>)
                \/ At({"length"}, <<LengthOf(k)>>)
                \/ At({"sized"}, <<>>)
          [] Place(0) = "collect" ->
                At({"attach", "mapped"}, <<>>)
          [] OTHER ->
                At({"copy", "choose"} \cup Decided, <<>>)

Lockstep == \A r \in Others : Turn(r) = Turn(0) /\ Follows(r)

\* Rank x's affinity for resource res of the call is one that rank 0 has read.
AlreadyRead(res, x) ==
    LET q == QueryOf(queried) IN res < q.res \/ (res = q.res /\ x < q.rank)

\* What rank 0 has in its table.
RootTable ==
    LET k == Turn(0)
    IN  /\ pc[0] = "path" => table[0] = EmptyTable(k)
        /\ pc[0] = "query" =>
               table[0] = [res \in Resource(k) |->
                              {x \in TableOf(k)[res] : AlreadyRead(res, x)}]
        /\ pc[0] \in {"create", "fill", "published", "collect", "unlink", "choose"} =>
               table[0] = TableOf(k)

\* What is linked, and what a segment that ranks may map holds.
Segments ==
    LET k == Turn(0)
    IN  /\ linked = IF pc[0] \in {"fill", "published", "collect", "unlink"} THEN {k} ELSE {}
        /\ k \in DOMAIN Calls
             /\ Place(0) \in {"published", "collect", "unlink", "choose"} \cup Decided =>
               segment[k] = TableOf(k)

\* What the others have.
OtherTables ==
    \A r \in Others :
        /\ pc[r] \in OtherPlaces => path[r] = Turn(r)
        /\ pc[r] = "choose" => table[r] = TableOf(Turn(0))

\* What the calls that have returned have returned.
Decisions ==
    \A r \in Rank : \A k \in DOMAIN answer[r] :
        answer[r][k] \in Decided =>
            (answer[r][k] = "selected" <=> Selected(k, r, TableOf(k)))

\* A path that could not be made up fails the call of all the ranks.
PathsAgree ==
    \A r \in Others : \A k \in DOMAIN answer[0] \cap DOMAIN answer[r] :
        answer[0][k] = "NO_PATH" <=> answer[r][k] = "NO_PATH"

Together == Lockstep /\ RootTable /\ Segments /\ OtherTables /\ Decisions /\ PathsAgree

\* How the turn and the place of a rank sit with its books.
Position(r) ==
    /\ Turn(r) \in Nat /\ Turn(r) <= call[r] /\ call[r] <= Len(Calls)
    /\ Len(entered[r]) = call[r]
    /\ DOMAIN answer[r] = 1 .. Len(answer[r]) /\ Len(answer[r]) \in Nat
    /\ \/ /\ pc[r] \in {"app", "start"} /\ Len(answer[r]) = Turn(r)
          /\ Place(r) \in Result
          /\ Turn(r) = 0 => Place(r) \in Decided
          /\ Turn(r) > 0 => Place(r) = answer[r][Turn(r)]
          /\ Place(r) \in Missing <=> Turn(r) > 0 /\ Resource(Turn(r)) = {}
       \/ /\ pc[r] \notin {"app", "start"} /\ Len(answer[r]) = Turn(r) - 1
          /\ Turn(r) = call[r] /\ Turn(r) > 0
          /\ Place(r) = pc[r] /\ Place(r) \in Label \ {"app", "start"}
          /\ Place(r) # "measure" => Resource(Turn(r)) # {}

Positions == \A r \in Rank : Position(r)

\* The books place every rank in exactly one position of its turn.
LEMMA PositionsHold == Books => Positions
<1>. SUFFICES ASSUME Books, NEW r \in Rank PROVE Position(r)
  BY DEF Positions
<1>. USE DEF Books
<1>1. /\ call[r] \in Nat /\ call[r] <= Len(Calls) /\ pc[r] \in Label
      /\ answer[r] \in Seq(Result)
  BY CallsAre DEF Types
<1>2. /\ DOMAIN answer[r] = 1 .. Len(answer[r]) /\ Len(answer[r]) \in Nat
      /\ Len(entered[r]) = call[r]
  BY <1>1, LenProperties DEF Entered
<1>3. CASE pc[r] \notin {"app", "start"}
  BY <1>1, <1>2, <1>3 DEF Entered, Turn, Place, Placed, Position
<1>4. CASE pc[r] \in {"app", "start"}
  <2>1. Turn(r) = Len(answer[r]) /\ Turn(r) <= call[r]
    BY <1>1, <1>2, <1>4 DEF Turn, Entered
  <2>2. CASE Turn(r) = 0
    <3>1. answer[r] = <<>>
      BY <1>1, <2>1, <2>2, EmptySeq
    <3>2. Place(r) = "not selected"
      BY <1>4, <3>1 DEF Place
    <3>3. Place(r) \in Result /\ Place(r) \in Decided /\ ~(Place(r) \in Missing)
      BY <3>2 DEF Decided, Missing, Result
    <3>4. Turn(r) \in Nat /\ ~(Turn(r) > 0)
      BY <2>2
    <3>. HIDE DEF Books
    <3>. QED  BY <1>1, <1>2, <1>4, <2>1, <2>2, <3>3, <3>4 DEF Position
  <2>3. CASE Turn(r) > 0
    <3>1. answer[r] # <<>> /\ Turn(r) \in DOMAIN answer[r]
      BY <1>2, <2>1, <2>3
    <3>2. Place(r) = answer[r][Turn(r)] /\ Place(r) \in Result
      BY <1>1, <1>2, <1>4, <2>1, <3>1, ElementOfSeq DEF Place
    <3>3. Place(r) \in Missing <=> Resource(Turn(r)) = {}
      BY <3>1, <3>2 DEF Measured, Missing, NoObjects
    <3>. QED  BY <1>1, <1>2, <1>4, <2>1, <2>3, <3>2, <3>3 DEF Position
  <2>4. Turn(r) \in Nat
    BY <1>2, <2>1
  <2>5. Turn(r) = 0 \/ Turn(r) > 0
    BY <2>4
  <2>. QED  BY <2>2, <2>3, <2>5
<1>. QED  BY <1>3, <1>4

\* Both ends of a step have every rank in a position.
LEMMA PositionsNext ==
    ASSUME Books, [Next]_vars
    PROVE  Positions /\ Positions' /\ 0 \in Rank /\ Others \subseteq Rank
<1>1. Positions /\ Positions'
  BY PositionsHold, BooksStep, PTL
<1>. QED  BY <1>1, RankIs DEF Others

\* The histories only grow.
Grows(old, new) ==
    /\ Len(old) <= Len(new)
    /\ \A k \in 1 .. Len(old) : new[k] = old[k]

\* A step never rewrites what a rank was answered or entered with.
LEMMA HistoriesGrow ==
    ASSUME Books, [Next]_vars, NEW r \in Rank
    PROVE  Grows(answer[r], answer'[r]) /\ Grows(entered[r], entered'[r])
<1>. DEFINE Kept(h) == h'[r] = h[r]
<1>1. /\ answer \in [Rank -> Seq(Result)] /\ Len(answer[r]) \in Nat
      /\ entered \in [Rank -> Seq(Affinities)] /\ Len(entered[r]) \in Nat
  BY LenProperties DEF Books, Types
<1>2. ASSUME NEW q \in Rank, NEW result, answer' = [answer EXCEPT ![q] = Append(@, result)]
      PROVE  Grows(answer[r], answer'[r])
  <2>1. answer'[r] = IF q = r THEN Append(answer[r], result) ELSE answer[r]
    BY <1>1, <1>2
  <2>2. Len(Append(answer[r], result)) = Len(answer[r]) + 1
        /\ \A k \in 1 .. Len(answer[r]) : Append(answer[r], result)[k] = answer[r][k]
    BY <1>1, AppendProperties
  <2>. QED  BY <1>1, <2>1, <2>2 DEF Grows
<1>3. ASSUME NEW q \in Rank, NEW b, entered' = [entered EXCEPT ![q] = Append(@, b)]
      PROVE  Grows(entered[r], entered'[r])
  <2>1. entered'[r] = IF q = r THEN Append(entered[r], b) ELSE entered[r]
    BY <1>1, <1>3
  <2>2. Len(Append(entered[r], b)) = Len(entered[r]) + 1
        /\ \A k \in 1 .. Len(entered[r]) : Append(entered[r], b)[k] = entered[r][k]
    BY <1>1, AppendProperties
  <2>. QED  BY <1>1, <2>1, <2>2 DEF Grows
<1>4. /\ answer' = answer
         \/ \E q \in Rank : \E result : answer' = [answer EXCEPT ![q] = Append(@, result)]
      /\ entered' = entered
         \/ \E q \in Rank : \E b : entered' = [entered EXCEPT ![q] = Append(@, b)]
  <2>. USE RankIs
  <2>1. CASE UNCHANGED vars
    BY <2>1 DEF vars
  <2>2. CASE \E q \in Rank : Call(q)
    BY <2>2 DEF Call
  <2>3. CASE \E q \in Rank : (\E b \in Affinities : Rebind(q, b)) \/ Arrive(q)
    BY <2>3 DEF Rebind, Arrive
  <2>4. CASE \E q \in Rank : Measure(q) \/ Choose(q) \/ OtherStep(q)
    BY <2>4 DEF Measure, Choose, OtherStep, GetPath, GetLength, Attach, AttachFailure, Copy,
                Return
  <2>5. CASE RootStep
    BY <2>5 DEF RootStep, SharePath, SharePathFailure, Query, QueryFailure, ShareLength,
                Create, OpenFailure, MapFailure, Fill, Unlink, Return
  <2>. QED  BY <2>1, <2>2, <2>3, <2>4, <2>5 DEF Next, LibraryStep
<1>5. answer' = answer => Grows(answer[r], answer'[r])
  BY <1>1 DEF Grows
<1>6. entered' = entered => Grows(entered[r], entered'[r])
  BY <1>1 DEF Grows
<1>. QED  BY <1>2, <1>3, <1>4, <1>5, <1>6

\* The table of a call that all the ranks have entered does not change any more.
LEMMA TableKept ==
    ASSUME Books, Lockstep, [Next]_vars, NEW k \in DOMAIN Calls, k <= Turn(0)
    PROVE  (TableOf(k))' = TableOf(k)
<1>1. ASSUME NEW x \in Rank
      PROVE  (Len(entered'[x]) >= k <=> Len(entered[x]) >= k) /\ entered'[x][k] = entered[x][k]
  <2>1. Turn(x) = Turn(0)
    BY DEF Lockstep, Others
  <2>2. k \in 1 .. Len(entered[x]) /\ Len(entered[x]) \in Nat
    <3>1. Position(x)
      BY PositionsHold DEF Positions
    <3>2. Turn(x) \in Nat /\ Turn(x) <= call[x] /\ Len(entered[x]) = call[x] /\ call[x] \in Nat
      BY <3>1, CallsAre DEF Position, Books, Types
    <3>3. k \in Nat /\ k >= 1
      BY CallsAre
    <3>. QED  BY <2>1, <3>2, <3>3
  <2>3. Grows(entered[x], entered'[x])
    BY HistoriesGrow
  <2>4. Len(entered'[x]) \in Nat
    BY BooksStep, LenProperties DEF Books, Types
  <2>. QED  BY <2>2, <2>3, <2>4, CallsAre DEF Grows
<1>. QED  BY <1>1 DEF TableOf

\* A rank that stays where it is keeps its turn and its place.
Still(q) == UNCHANGED <<pc[q], call[q], answer[q]>>

\* A rank that a step leaves still keeps its turn and its place.
LEMMA StillThere ==
    ASSUME NEW q, Still(q)
    PROVE  Turn(q)' = Turn(q) /\ Place(q)' = Place(q)
BY DEF Still, Turn, Place

\* A rank goes on following rank 0 when neither of them moves and its channel
\* is untouched.
LEMMA FollowsKept ==
    ASSUME NEW r, Follows(r), Turn(0)' = Turn(0), Place(0)' = Place(0),
           Place(r)' = Place(r), chan'[r] = chan[r]
    PROVE  Follows(r)'
BY DEF Follows

\* Rank 0's table stays what it was while rank 0 stays where it is, or merely
\* calls.
LEMMA RootTableKept ==
    ASSUME RootTable, pc'[0] = pc[0] \/ {pc[0], pc'[0]} \subseteq {"app", "start"},
           Turn(0)' = Turn(0), table'[0] = table[0], queried' = queried,
           (TableOf(Turn(0)))' = TableOf(Turn(0)) \/ pc[0] \in {"app", "start"}
    PROVE  RootTable'
BY DEF RootTable, AlreadyRead

\* The segments stay what they were while rank 0 stays where it is, or merely
\* calls.
LEMMA SegmentsKept ==
    ASSUME Segments, pc'[0] = pc[0] \/ {pc[0], pc'[0]} \subseteq {"app", "start"},
           Turn(0)' = Turn(0), Place(0)' = Place(0), linked' = linked, segment' = segment,
           (TableOf(Turn(0)))' = TableOf(Turn(0)) \/ ~(Turn(0) \in DOMAIN Calls)
    PROVE  Segments'
BY DEF Segments

\* Decisions stay, and a rank that returns decides from the table of its call.
LEMMA DecisionsKept ==
    ASSUME Books, Lockstep, Decisions, [Next]_vars,
           \/ answer' = answer
           \/ \E r \in Rank : \E result \in Result :
                  /\ Return(r, result)
                  /\ call[r] = Turn(0) /\ Len(answer[r]) = Turn(0) - 1
                  /\ result \in Decided =>
                         (result = "selected" <=> Selected(Turn(0), r, TableOf(Turn(0))))
    PROVE  Decisions'
<1>. SUFFICES ASSUME NEW q \in Rank, NEW k \in DOMAIN answer'[q], answer'[q][k] \in Decided
              PROVE  answer'[q][k] = "selected" <=> Selected(k, q, (TableOf(k))')
  BY DEF Decisions
<1>1. Turn(q) = Turn(0) /\ Positions
  BY PositionsHold DEF Lockstep, Others
<1>2. CASE k \in DOMAIN answer[q] /\ answer'[q][k] = answer[q][k]
  <2>1. k \in DOMAIN Calls /\ k <= Turn(0)
    BY <1>1, <1>2, CallsAre DEF Positions, Position
  <2>. QED  BY <1>2, <2>1, TableKept DEF Decisions
<1>3. CASE answer' = answer
  BY <1>2, <1>3
<1>4. ASSUME NEW r \in Rank, NEW result \in Result,
             /\ Return(r, result)
             /\ call[r] = Turn(0) /\ Len(answer[r]) = Turn(0) - 1
             /\ result \in Decided =>
                    (result = "selected" <=> Selected(Turn(0), r, TableOf(Turn(0))))
      PROVE  answer'[q][k] = "selected" <=> Selected(k, q, (TableOf(k))')
  <2>1. CASE q # r \/ k \in DOMAIN answer[r]
    BY <1>2, <1>4, <2>1, Returned DEF Books
  <2>2. CASE q = r /\ k \notin DOMAIN answer[r]
    <3>1. k = Turn(0) /\ answer'[q][k] = result
      <4>1. Turn(0) \in Nat /\ Len(answer[r]) + 1 = Turn(0)
        BY <1>1, <1>4, RankIs DEF Positions, Position
      <4>. QED  BY <1>4, <2>2, <4>1, Returned DEF Books
    <3>2. Turn(0) \in DOMAIN Calls
      BY <1>1, <1>4, CallsAre, RankIs DEF Positions, Position
    <3>3. Turn(0) \in Nat
      BY <3>2, CallsAre
    <3>. QED  BY <1>4, <2>2, <3>1, <3>2, <3>3, TableKept
  <2>. QED  BY <2>1, <2>2
<1>. QED  BY <1>3, <1>4

\* Ranks agree on the lack of a path when they agree about the latest turn.
LEMMA PathsAgreeKept ==
    ASSUME Books, [Next]_vars, Lockstep', PathsAgree,
           \A r \in Rank : Len(answer[r]) >= Turn(r)' - 1
    PROVE  PathsAgree'
<1>1. Positions' /\ Positions
  BY BooksStep, PositionsHold, PTL
<1>. SUFFICES ASSUME NEW r \in Others, NEW k \in DOMAIN answer'[0] \cap DOMAIN answer'[r]
              PROVE  answer'[0][k] = "NO_PATH" <=> answer'[r][k] = "NO_PATH"
  BY DEF PathsAgree
<1>2. r \in Rank /\ 0 \in Rank /\ Turn(r)' = Turn(0)' /\ Turn(0)' \in Nat
  BY <1>1, RankIs DEF Others, Lockstep, Positions, Position
<1>3. CASE k < Turn(0)'
  <2>1. k \in DOMAIN answer[0] /\ k \in DOMAIN answer[r]
    BY <1>1, <1>2, <1>3 DEF Positions, Position
  <2>2. answer'[0][k] = answer[0][k] /\ answer'[r][k] = answer[r][k]
    BY <1>1, <1>2, <2>1, HistoriesGrow DEF Grows, Positions, Position
  <2>. QED  BY <2>1, <2>2 DEF PathsAgree
<1>4. CASE k = Turn(0)'
  <2>1. /\ Place(0)' = answer'[0][k] /\ Place(0)' \in Result
        /\ Place(r)' = answer'[r][k] /\ Place(r)' \in Result
    BY <1>1, <1>2, <1>4 DEF Positions, Position
  <2>2. Follows(r)'
    BY DEF Lockstep
  <2>3. Place(0)' = "NO_PATH" <=> Place(r)' = "NO_PATH"
    BY <2>1, <2>2 DEF Follows, Result, Missing, Decided
  <2>. QED  BY <2>1, <2>3
<1>5. k <= Turn(0)'
  BY <1>1, <1>2 DEF Positions, Position
<1>. QED  BY <1>1, <1>2, <1>3, <1>4, <1>5 DEF Positions, Position

\* Steps in the application, and waiting.
LEMMA TogetherIdle ==
    ASSUME Books, Together, [Next]_vars,
           UNCHANGED <<chan, queried, table, path, linked, segment, answer>>,
           \A q \in Rank : \/ pc'[q] = pc[q] /\ call'[q] = call[q]
                           \/ {pc[q], pc'[q]} \subseteq {"app", "start"}
    PROVE  Together'
<1>. USE DEF Together
<1>1. Positions /\ Positions' /\ 0 \in Rank /\ Others \subseteq Rank
  BY PositionsNext
<1>2. ASSUME NEW q \in Rank PROVE Turn(q)' = Turn(q) /\ Place(q)' = Place(q)
  BY DEF Turn, Place
<1>3. (TableOf(Turn(0)))' = TableOf(Turn(0)) \/ ~(Turn(0) \in DOMAIN Calls)
  BY <1>1, TableKept DEF Positions, Position
<1>4. Lockstep'
  BY <1>1, <1>2, FollowsKept DEF Lockstep
<1>5. RootTable'
  <2>1. Turn(0) \in DOMAIN Calls \/ pc[0] \in {"app", "start"}
    BY <1>1, CallsAre DEF Positions, Position
  <2>. QED  BY <1>1, <1>2, <1>3, <2>1, RootTableKept
<1>6. Segments'
  BY <1>1, <1>2, <1>3, SegmentsKept
<1>7. OtherTables'
  <2>. SUFFICES ASSUME NEW r \in Others
                PROVE  /\ pc'[r] \in OtherPlaces => path'[r] = Turn(r)'
                       /\ pc'[r] = "choose" => table'[r] = (TableOf(Turn(0)))'
    BY DEF OtherTables
  <2>1. r \in Rank /\ Turn(r) = Turn(0)
    BY <1>1 DEF Lockstep
  <2>2. CASE pc'[r] = pc[r]
    <3>1. pc[r] = "choose" => Turn(0) \in DOMAIN Calls
      BY <1>1, <2>1, CallsAre DEF Positions, Position
    <3>. QED  BY <1>2, <1>3, <2>1, <2>2, <3>1 DEF OtherTables
  <2>3. CASE pc'[r] \in {"app", "start"}
    BY <2>3 DEF OtherPlaces
  <2>4. pc'[r] = pc[r] \/ pc'[r] \in {"app", "start"}
    BY <2>1
  <2>. QED  BY <2>2, <2>3, <2>4
<1>8. Decisions'
  BY DecisionsKept
<1>9. PathsAgree'
  <2>1. \A r \in Rank : Len(answer[r]) >= Turn(r)' - 1
    BY <1>1, <1>2 DEF Positions, Position
  <2>. QED  BY <1>4, <2>1, PathsAgreeKept
<1>. QED  BY <1>4, <1>5, <1>6, <1>7, <1>8, <1>9

\* The last one to arrive lets everybody go, all from the same barrier.
LEMMA TogetherRelease ==
    ASSUME Books, Together, [Next]_vars, NEW r \in Rank, Arrive(r), waiting \cup {r} = Rank
    PROVE  Together'
<1>. USE BeyondIs DEF Together
<1>1. Positions /\ Positions' /\ 0 \in Rank /\ Others \subseteq Rank
  BY PositionsNext
<1>2. /\ \A q \in Rank : pc'[q] = Beyond[pc[q]] /\ pc[q] \in DOMAIN Beyond
      /\ UNCHANGED <<call, chan, table, path, linked, segment, answer>>
  BY DEF Arrive, Books, Placed
<1>3. \A q \in Others : pc[q] \in {"start", "sized", "mapped"}
  BY <1>1, <1>2 DEF Books, Placed, RootPlaces, Others
<1>4. pc[0] \in {"start", "published", "collect"}
  BY <1>1, <1>2 DEF Books, Placed, OtherPlaces
<1>5. \A q \in Others : Turn(q) = Turn(0) /\ Follows(q)
  BY DEF Lockstep
<1>6. \A q \in Rank : IF pc[q] = "start" THEN Turn(q)' = Turn(q) + 1 ELSE Turn(q)' = Turn(q)
  <2>. TAKE q \in Rank
  <2>1. pc'[q] \notin {"app", "start"}
    BY <1>2
  <2>2. CASE pc[q] = "start"
    <3>1. Turn(q)' = call[q] /\ Turn(q) = Len(answer[q]) /\ Len(answer[q]) = call[q] - 1
      BY <1>2, <2>1, <2>2 DEF Turn, Books, Entered
    <3>2. call[q] \in Nat
      BY CallsAre DEF Books, Types
    <3>. QED  BY <2>2, <3>1, <3>2
  <2>3. CASE pc[q] # "start"
    BY <1>2, <2>1, <2>3 DEF Turn
  <2>. QED  BY <2>2, <2>3
<1>7. \A q \in Rank : Place(q)' = pc'[q]
  BY <1>2 DEF Place
<1>8. \A q \in Rank : pc[q] # "start" => Place(q) = pc[q]
  BY <1>2 DEF Place
<1>9. \A q \in Rank : pc[q] = "start" => Place(q) \in Result
  BY <1>1 DEF Positions, Position
<1>10. Decisions'
  BY <1>2, DecisionsKept
<1>11. Lockstep' => PathsAgree'
  <2>1. \A q \in Rank : Len(answer[q]) >= Turn(q)' - 1
    <3>. TAKE q \in Rank
    <3>1. Position(q) /\ Turn(q) \in Nat
      BY <1>1 DEF Positions, Position
    <3>2. CASE pc[q] = "start"
      BY <1>6, <3>1, <3>2 DEF Position
    <3>3. CASE pc[q] # "start"
      <4>1. pc[q] # "app"
        BY <1>2
      <4>. QED  BY <1>6, <3>1, <3>3, <4>1 DEF Position
    <3>. QED  BY <3>2, <3>3
  <2>. QED  BY <2>1, PathsAgreeKept
<1>12. CASE pc[0] = "start"
  <2>1. \A q \in Others : pc[q] = "start" /\ chan[q] = <<>>
    BY <1>1, <1>3, <1>5, <1>8, <1>9, <1>12 DEF Follows, Result, Missing, Decided
  <2>2. Lockstep'
    BY <1>1, <1>2, <1>5, <1>6, <1>7, <1>12, <2>1 DEF Lockstep, Follows
  <2>3. RootTable'
    BY <1>1, <1>2, <1>12 DEF RootTable
  <2>4. Segments'
    BY <1>1, <1>2, <1>7, <1>12 DEF Segments, Decided
  <2>5. OtherTables'
    BY <1>1, <1>2, <2>1 DEF OtherTables, OtherPlaces
  <2>. QED  BY <1>10, <1>11, <2>2, <2>3, <2>4, <2>5
<1>13. CASE pc[0] # "start"
  <2>1. /\ (TableOf(Turn(0)))' = TableOf(Turn(0)) /\ Turn(0)' = Turn(0)
        /\ Turn(0) \in DOMAIN Calls
    BY <1>1, <1>2, <1>6, <1>13, CallsAre, TableKept DEF Positions, Position
  <2>2. CASE pc[0] = "published"
    <3>1. \A q \in Others : pc[q] = "sized" /\ chan[q] = <<>>
      BY <1>1, <1>3, <1>5, <1>8, <1>9, <2>2 DEF Follows, Result, Missing, Decided
    <3>2. Lockstep'
      BY <1>1, <1>2, <1>5, <1>6, <1>7, <2>1, <2>2, <3>1 DEF Lockstep, Follows, Missing
    <3>3. RootTable'
      BY <1>1, <1>2, <2>1, <2>2 DEF RootTable
    <3>4. Segments'
      BY <1>1, <1>2, <1>7, <1>8, <2>1, <2>2 DEF Segments
    <3>5. OtherTables'
      BY <1>1, <1>2, <1>6, <3>1 DEF OtherTables, OtherPlaces
    <3>. QED  BY <1>10, <1>11, <3>2, <3>3, <3>4, <3>5
  <2>3. CASE pc[0] = "collect"
    <3>1. \A q \in Others : pc[q] = "mapped" /\ chan[q] = <<>>
      BY <1>1, <1>3, <1>5, <1>8, <1>9, <2>3 DEF Follows, Result, Missing, Decided
    <3>2. Lockstep'
      BY <1>1, <1>2, <1>5, <1>6, <1>7, <2>1, <2>3, <3>1 DEF Lockstep, Follows, Missing
    <3>3. RootTable'
      BY <1>1, <1>2, <2>1, <2>3 DEF RootTable
    <3>4. Segments'
      BY <1>1, <1>2, <1>7, <1>8, <2>1, <2>3 DEF Segments
    <3>5. OtherTables'
      BY <1>1, <1>2, <1>6, <3>1 DEF OtherTables, OtherPlaces
    <3>. QED  BY <1>10, <1>11, <3>2, <3>3, <3>4, <3>5
  <2>. QED  BY <1>4, <1>13, <2>2, <2>3
<1>. QED  BY <1>12, <1>13

\* Inside the call a turn lasts until the next one begins.
LEMMA MovedThere ==
    ASSUME Books, NEW r \in Rank, NEW label, label \notin {"app", "start"},
           pc[r] \notin {"app", "start"}, Goto(r, label), UNCHANGED <<call, answer>>
    PROVE  /\ Turn(r)' = Turn(r) /\ Place(r)' = label /\ pc'[r] = label
           /\ \A q \in Rank \ {r} : Still(q)
<1>1. pc' = [pc EXCEPT ![r] = label] /\ pc \in [Rank -> Label]
  BY DEF Books, Types, Goto
<1>. QED  BY <1>1 DEF Turn, Place, Still

\* A rank that returns a result stays in its turn, and its place becomes that
\* result.
LEMMA ReturnedThere ==
    ASSUME Books, NEW r \in Rank, NEW result \in Result, Return(r, result),
           pc[r] \notin {"app", "start"}, UNCHANGED call
    PROVE  /\ Turn(r)' = Turn(r) /\ Place(r)' = result /\ pc'[r] = "app"
           /\ \A q \in Rank \ {r} : Still(q)
           /\ call[r] = Turn(r) /\ Len(answer[r]) = Turn(r) - 1
<1>1. /\ pc' = [pc EXCEPT ![r] = "app"] /\ pc \in [Rank -> Label]
      /\ \A q \in Rank \ {r} : answer'[q] = answer[q]
      /\ Len(answer[r]) \in Nat /\ Len(answer'[r]) = Len(answer[r]) + 1
      /\ answer'[r][Len(answer[r]) + 1] = result
  BY Returned DEF Books, Types
<1>2. Len(answer[r]) = call[r] - 1 /\ call[r] \in Nat
  BY CallsAre DEF Books, Types, Entered
<1>3. answer'[r] # <<>>
  BY <1>1, EmptySeq
<1>. QED  BY <1>1, <1>2, <1>3 DEF Turn, Place, Still

\* A step of another rank, and a step of rank 0: what is left to show.
LEMMA TogetherOther ==
    ASSUME Books, Together, [Next]_vars, NEW r \in Others,
           UNCHANGED <<queried, linked, segment>>,
           \A q \in Rank \ {r} : Still(q) /\ table'[q] = table[q] /\ path'[q] = path[q],
           \A q \in Others \ {r} : chan'[q] = chan[q],
           Turn(r)' = Turn(r), Follows(r)', Decisions',
           pc'[r] \in OtherPlaces => path'[r] = Turn(0),
           pc'[r] = "choose" => table'[r] = TableOf(Turn(0))
    PROVE  Together'
<1>. USE DEF Together
<1>1. Positions /\ 0 \in Rank \ {r} /\ Others \subseteq Rank /\ 0 \notin Others
  BY PositionsNext DEF Others
<1>2. \A q \in Rank \ {r} : /\ Turn(q)' = Turn(q) /\ Place(q)' = Place(q)
                            /\ pc'[q] = pc[q] /\ answer'[q] = answer[q]
  BY StillThere DEF Still
<1>3. \A q \in Others : Turn(q)' = Turn(q) /\ Turn(q) = Turn(0)
  BY <1>1, <1>2 DEF Lockstep
<1>4. (TableOf(Turn(0)))' = TableOf(Turn(0)) \/ ~(Turn(0) \in DOMAIN Calls)
  <2>1. Turn(0) \in Nat /\ Turn(0)' = Turn(0)
    BY <1>1, <1>2 DEF Positions, Position
  <2>2. ASSUME NEW k \in DOMAIN Calls, k = Turn(0)
        PROVE  (TableOf(Turn(0)))' = TableOf(Turn(0))
    BY <2>1, <2>2, TableKept
  <2>. QED  BY <2>2
<1>5. \A q \in Rank : pc[q] \notin {"app", "start"} => Turn(0) \in DOMAIN Calls
  BY <1>1, <1>3, CallsAre DEF Positions, Position, Others
<1>6. Lockstep'
  <2>1. ASSUME NEW q \in Others \ {r} PROVE Follows(q)'
    BY <1>1, <1>2, <2>1, FollowsKept DEF Lockstep
  <2>. QED  BY <1>1, <1>2, <1>3, <2>1 DEF Lockstep
<1>7. RootTable'
  BY <1>1, <1>2, <1>4, <1>5, RootTableKept
<1>8. Segments'
  BY <1>1, <1>2, <1>4, SegmentsKept
<1>9. OtherTables'
  <2>. SUFFICES ASSUME NEW q \in Others
                PROVE  /\ pc'[q] \in OtherPlaces => path'[q] = Turn(q)'
                       /\ pc'[q] = "choose" => table'[q] = (TableOf(Turn(0)))'
    BY DEF OtherTables
  <2>1. pc'[q] \in OtherPlaces => path'[q] = Turn(0)
    BY <1>1, <1>2, <1>3 DEF OtherTables
  <2>2. pc'[q] = "choose" => table'[q] = TableOf(Turn(0))
    BY <1>1, <1>2 DEF OtherTables
  <2>3. pc'[q] = "choose" => Turn(0) \in DOMAIN Calls
    <3>1. Positions'
      BY PositionsNext
    <3>2. pc'[q] = "choose" => Turn(q)' \in DOMAIN Calls
      BY <1>1, <3>1, CallsAre DEF Positions, Position
    <3>. QED  BY <1>3, <3>2
  <2>. QED  BY <1>3, <1>4, <2>1, <2>2, <2>3
<1>10. PathsAgree'
  <2>1. \A q \in Rank : Len(answer[q]) >= Turn(q)' - 1
    BY <1>1, <1>2, <1>3 DEF Positions, Position, Others
  <2>. QED  BY <1>6, <2>1, PathsAgreeKept
<1>. QED  BY <1>6, <1>7, <1>8, <1>9, <1>10

\* A step of rank 0 alone keeps the lockstep when the others still follow and
\* its own table, segments and decisions are right.
LEMMA TogetherRoot ==
    ASSUME Books, Together, [Next]_vars,
           \A q \in Others : Still(q) /\ table'[q] = table[q] /\ path'[q] = path[q],
           Turn(0)' = Turn(0), \A q \in Others : Follows(q)',
           RootTable', Segments', Decisions'
    PROVE  Together'
<1>. USE DEF Together
<1>1. Positions /\ 0 \in Rank /\ Others \subseteq Rank
  BY PositionsNext
<1>2. \A q \in Others : Turn(q)' = Turn(q) /\ Turn(q) = Turn(0)
  BY StillThere DEF Lockstep
<1>3. Lockstep'
  BY <1>2 DEF Lockstep
<1>4. OtherTables'
  <2>. SUFFICES ASSUME NEW q \in Others
                PROVE  /\ pc'[q] \in OtherPlaces => path'[q] = Turn(q)'
                       /\ pc'[q] = "choose" => table'[q] = (TableOf(Turn(0)))'
    BY DEF OtherTables
  <2>1. pc'[q] = pc[q]
    BY DEF Still
  <2>2. pc[q] = "choose" => Turn(0) \in DOMAIN Calls
    BY <1>1, <1>2, CallsAre DEF Positions, Position
  <2>3. pc[q] = "choose" => (TableOf(Turn(0)))' = TableOf(Turn(0))
    BY <1>1, <2>2, TableKept DEF Positions, Position
  <2>. QED  BY <1>2, <2>1, <2>3 DEF OtherTables
<1>5. PathsAgree'
  <2>1. \A q \in Rank : Len(answer[q]) >= Turn(q)' - 1
    BY <1>1, <1>2 DEF Positions, Position, Others
  <2>. QED  BY <1>3, <2>1, PathsAgreeKept
<1>. QED  BY <1>3, <1>4, <1>5

\* The order of the queries.
LEMMA ReadingOrder ==
    ASSUME NEW n \in Nat, NEW res \in Nat, NEW x \in Rank
    PROVE  LET q == QueryOf(n)
               next == QueryOf(n + 1)
           IN  /\ q.res \in Nat /\ q.rank \in Rank
               /\ (res < next.res \/ (res = next.res /\ x < next.rank))
                   <=> \/ res < q.res \/ (res = q.res /\ x < q.rank)
                       \/ res = q.res /\ x = q.rank
<1>1. /\ n \div N \in Nat /\ n % N \in 0 .. N - 1
      /\ \/ (n + 1) \div N = n \div N /\ (n + 1) % N = (n % N) + 1
         \/ (n + 1) \div N = (n \div N) + 1 /\ (n + 1) % N = 0 /\ n % N = N - 1
  BY RankIs, Division
<1>2. x \in 0 .. N - 1 /\ N \in Nat
  BY RankIs DEF Rank
<1>. DEFINE d == n \div N
            m == n % N
            e == (n + 1) \div N
            o == (n + 1) % N
<1>3. /\ QueryOf(n).res = d + 1 /\ QueryOf(n).rank = m
      /\ QueryOf(n + 1).res = e + 1 /\ QueryOf(n + 1).rank = o
  BY DEF QueryOf
<1>4. /\ d \in Nat /\ m \in 0 .. N - 1
      /\ \/ e = d /\ o = m + 1
         \/ e = d + 1 /\ o = 0 /\ m = N - 1
  BY <1>1
<1>. HIDE DEF d, m, e, o
<1>. QED  BY <1>2, <1>3, <1>4 DEF Rank

\* Rank 0 has read no answer when the queries start, and every answer when
\* they end.
LEMMA ReadingEnds ==
    ASSUME NEW k \in DOMAIN Calls, NEW res \in Resource(k), NEW x \in Rank
    PROVE  /\ LET q == QueryOf(0) IN ~(res < q.res \/ (res = q.res /\ x < q.rank))
           /\ LET q == QueryOf(N * Cardinality(Resource(k)))
              IN  res < q.res \/ (res = q.res /\ x < q.rank)
<1>1. PICK m \in Nat : Resource(k) = 1 .. m /\ Cardinality(Resource(k)) = m
  BY ResourceIs
<1>2. 0 \div N = 0 /\ 0 % N = 0 /\ (N * m) \div N = m /\ (N * m) % N = 0
  BY RankIs, Rows
<1>3. x \in Nat
  BY RankIs
<1>. QED  BY <1>1, <1>2, <1>3 DEF QueryOf

\* An answer "ERR" is a failure alone.
LEMMA ErrIsAlone ==
    ASSUME Books, NEW r \in Rank, Return(r, "ERR")
    PROVE  FailedAlone'
<1>1. "ERR" \in Result
  BY DEF Result
<1>2. Len(answer[r]) + 1 \in DOMAIN answer'[r] /\ answer'[r][Len(answer[r]) + 1] = "ERR"
  BY <1>1, Returned DEF Books
<1>. QED  BY <1>2 DEF FailedAlone, Range

(***************************************************************************)
(* The steps inside the call, one lemma for each that does not fail alone. *)
(***************************************************************************)
LEMMA TogetherMeasure ==
    ASSUME Books, Together, [Next]_vars, NEW r \in Rank, Measure(r)
    PROVE  Together'
<1>1. Positions /\ Positions' /\ 0 \in Rank /\ Others \subseteq Rank
  BY PositionsNext
<1>2. /\ pc[r] = "measure" /\ Place(r) = "measure" /\ Turn(r) = call[r]
      /\ call[r] \in DOMAIN Calls
  BY <1>1, InCall DEF Measure, Positions, Position
<1>3. NoObjects(call[r]) \in Result /\ NoObjects(call[r]) \in Missing
      /\ NoObjects(call[r]) \notin Decided
  BY DEF NoObjects, Result, Missing, Decided
<1>4. UNCHANGED <<call, chan, queried, path, linked, segment>>
  BY DEF Measure
<1>5. \/ /\ Resource(call[r]) # {} /\ Goto(r, "path") /\ answer' = answer
         /\ table' = [table EXCEPT ![r] = EmptyTable(call[r])]
      \/ /\ Resource(call[r]) = {} /\ Return(r, NoObjects(call[r])) /\ table' = table
  BY DEF Measure, NoObjects
<1>6. /\ Turn(r)' = Turn(r) /\ \A q \in Rank \ {r} : Still(q)
      /\ \/ Place(r)' = "path" /\ pc'[r] = "path" /\ Resource(call[r]) # {}
         \/ Place(r)' \in Missing /\ pc'[r] = "app" /\ Resource(call[r]) = {}
  BY <1>2, <1>3, <1>4, <1>5, MovedThere, ReturnedThere
<1>7. \A q \in Rank \ {r} : table'[q] = table[q]
  BY <1>5 DEF Books, Types
<1>8. Decisions'
  <2>1. CASE answer' = answer
    BY <2>1, DecisionsKept DEF Together
  <2>2. CASE Return(r, NoObjects(call[r]))
    <3>1. Turn(r) = Turn(0)
      BY DEF Together, Lockstep, Others
    <3>2. Len(answer[r]) = Turn(0) - 1
      BY <1>1, <1>2, <3>1 DEF Positions, Position
    <3>. QED  BY <1>2, <1>3, <2>2, <3>1, <3>2, DecisionsKept DEF Together
  <2>. QED  BY <1>5, <2>1, <2>2
<1>9. CASE r # 0
  <2>1. r \in Others /\ Turn(r) = Turn(0) /\ Follows(r)
    BY <1>9 DEF Others, Together, Lockstep
  <2>2. Turn(0)' = Turn(0) /\ Place(0)' = Place(0)
    BY <1>1, <1>6, <1>9, StillThere
  <2>3. Resource(call[r]) = {} => Place(0) \in Missing \cup {"measure"}
    BY <1>1, <1>2, <2>1 DEF Positions, Position
  <2>4. Follows(r)'
    BY <1>2, <1>4, <1>6, <2>1, <2>2, <2>3 DEF Follows, Missing, Decided
  <2>. QED  BY <1>4, <1>6, <1>7, <1>8, <2>1, <2>4, TogetherOther DEF OtherPlaces
<1>10. CASE r = 0
  <2>1. \A q \in Others : q \in Rank \ {r} /\ Turn(q) = Turn(0) /\ Follows(q)
    BY <1>1, <1>10 DEF Others, Together, Lockstep
  <2>2. ASSUME NEW q \in Others PROVE Follows(q)'
    <3>1. Place(q)' = Place(q) /\ chan'[q] = chan[q]
      BY <1>4, <1>6, <2>1, StillThere
    <3>. QED  BY <1>2, <1>6, <1>10, <2>1, <3>1 DEF Follows, Missing
  <2>3. RootTable'
    <3>1. pc'[0] = "path" => table'[0] = EmptyTable(call[0])
      BY <1>5, <1>6, <1>10 DEF Books, Types, Return, Goto
    <3>2. Turn(0)' = call[0] /\ pc'[0] \in {"path", "app"}
      BY <1>2, <1>6, <1>10
    <3>. QED  BY <3>1, <3>2 DEF RootTable
  <2>4. Segments'
    BY <1>2, <1>4, <1>6, <1>10 DEF Segments, Together, Missing, Decided
  <2>. QED  BY <1>4, <1>6, <1>7, <1>8, <1>10, <2>1, <2>2, <2>3, <2>4, TogetherRoot
<1>. QED  BY <1>9, <1>10

\* When rank 0 has found resources, the others do.
LEMMA OthersFind ==
    ASSUME Positions, Lockstep, pc[0] \notin {"app", "start", "measure"}
    PROVE  \A q \in Others : q \in Rank /\ Turn(q) = Turn(0) /\ Follows(q) /\ Place(q) \notin Missing
<1>. TAKE q \in Others
<1>1. q \in Rank /\ 0 \in Rank /\ Turn(q) = Turn(0) /\ Follows(q)
  BY RankIs DEF Others, Lockstep
<1>2. Resource(Turn(q)) # {}
  BY <1>1 DEF Positions, Position
<1>3. Position(q)
  BY <1>1 DEF Positions
<1>4. "measure" \notin Missing /\ \A place \in Label : place \notin Missing
  BY LabelIs DEF Missing
<1>. QED  BY <1>1, <1>2, <1>3, <1>4 DEF Position

\* Rank 0 sends the path of its segment: the lockstep is kept.
LEMMA TogetherSharePath ==
    ASSUME Books, Together, [Next]_vars, SharePath
    PROVE  Together'
<1>1. Positions /\ Positions' /\ 0 \in Rank /\ Others \subseteq Rank
  BY PositionsNext
<1>2. /\ pc[0] = "path" /\ Place(0) = "path" /\ Turn(0) = call[0]
      /\ call[0] \in DOMAIN Calls /\ Resource(call[0]) # {}
  BY <1>1, InCall DEF SharePath, Positions, Position
<1>3. /\ UNCHANGED <<call, table, path, linked, segment, answer>>
      /\ queried' = 0 /\ Goto(0, "query") /\ Broadcast(PathOf(Turn(0)))
  BY <1>2 DEF SharePath, PathOf
<1>4. /\ Turn(0)' = Turn(0) /\ Place(0)' = "query" /\ pc'[0] = "query"
      /\ \A q \in Others : Still(q)
  BY <1>1, <1>2, <1>3, MovedThere DEF Others
<1>5. ASSUME NEW q \in Others PROVE Follows(q)'
  <2>1. Follows(q) /\ Place(q) \notin Missing
    BY <1>1, <1>2, OthersFind DEF Together
  <2>2. Place(q) \in {"measure", "path"} /\ chan[q] = <<>>
    BY <1>2, <2>1 DEF Follows
  <2>3. chan'[q] = <<PathOf(Turn(0))>>
    BY <1>3, <2>2, ShortSequences DEF Broadcast
  <2>4. Place(q)' = Place(q)
    BY <1>4, StillThere
  <2>. QED  BY <1>4, <2>2, <2>3, <2>4 DEF Follows, Missing
<1>6. RootTable'
  <2>1. table[0] = EmptyTable(Turn(0))
    BY <1>2 DEF Together, RootTable
  <2>2. ASSUME NEW res \in Resource(Turn(0)), NEW x \in Rank
        PROVE  ~AlreadyRead(res, x)'
    BY <1>2, <1>3, ReadingEnds DEF AlreadyRead
  <2>3. table'[0] = [res \in Resource(Turn(0)) |->
                        {x \in (TableOf(Turn(0))[res])' : AlreadyRead(res, x)'}]
    <3>1. \A res \in Resource(Turn(0)) : (TableOf(Turn(0))[res])' \subseteq Rank
      BY <1>4 DEF TableOf
    <3>. QED  BY <1>3, <2>1, <2>2, <3>1 DEF EmptyTable
  <2>. QED  BY <1>4, <2>3 DEF RootTable
<1>7. Segments'
  BY <1>2, <1>3, <1>4 DEF Segments, Together, Decided
<1>8. Decisions'
  BY <1>3, DecisionsKept DEF Together
<1>. QED  BY <1>3, <1>4, <1>5, <1>6, <1>7, <1>8, TogetherRoot

\* Rank 0 cannot name its segment and sends an empty path: all fail together,
\* and the lockstep is kept.
LEMMA TogetherSharePathFailure ==
    ASSUME Books, Together, [Next]_vars, SharePathFailure
    PROVE  Together'
<1>1. Positions /\ Positions' /\ 0 \in Rank /\ Others \subseteq Rank
  BY PositionsNext
<1>2. pc[0] = "path" /\ Place(0) = "path"
  BY <1>1 DEF SharePathFailure, Positions, Position
<1>3. /\ UNCHANGED <<call, table, path, linked, segment>>
      /\ Return(0, "NO_PATH") /\ Broadcast(NoPath)
  BY DEF SharePathFailure
<1>4. /\ Turn(0)' = Turn(0) /\ Place(0)' = "NO_PATH" /\ pc'[0] = "app"
      /\ call[0] = Turn(0) /\ Len(answer[0]) = Turn(0) - 1 /\ "NO_PATH" \in Result
      /\ \A q \in Others : Still(q)
  BY <1>1, <1>2, <1>3, ReturnedThere DEF Others, Result
<1>5. ASSUME NEW q \in Others PROVE Follows(q)'
  <2>1. Follows(q) /\ Place(q) \notin Missing
    BY <1>1, <1>2, OthersFind DEF Together
  <2>2. Place(q) \in {"measure", "path"} /\ chan[q] = <<>>
    BY <1>2, <2>1 DEF Follows
  <2>3. chan'[q] = <<NoPath>>
    BY <1>3, <2>2, ShortSequences DEF Broadcast
  <2>4. Place(q)' = Place(q)
    BY <1>4, StillThere
  <2>. QED  BY <1>4, <2>2, <2>3, <2>4 DEF Follows, Missing
<1>6. RootTable'
  BY <1>4 DEF RootTable
<1>7. Segments'
  BY <1>2, <1>3, <1>4 DEF Segments, Together, Decided
<1>8. Decisions'
  <2>1. "NO_PATH" \notin Decided
    BY DEF Decided
  <2>. QED  BY <1>1, <1>3, <1>4, <2>1, DecisionsKept DEF Together
<1>. QED  BY <1>3, <1>4, <1>5, <1>6, <1>7, <1>8, TogetherRoot

\* Every affinity that rank 0 reads is the one with which its rank has begun
\* the call: no rank gets out of the call before the table is complete.
LEMMA TogetherQuery ==
    ASSUME Books, Together, [Next]_vars, Query
    PROVE  Together'
<1>. DEFINE k == Turn(0)
            q == QueryOf(queried)
<1>1. Positions /\ Positions' /\ 0 \in Rank /\ Others \subseteq Rank
  BY PositionsNext
<1>2. /\ pc[0] = "query" /\ Place(0) = "query" /\ Turn(0) = call[0]
      /\ k \in DOMAIN Calls /\ k \in Nat
  BY <1>1, InCall DEF Query, Positions, Position
<1>3. /\ UNCHANGED <<bind, pc, call, chan, path, linked, segment, entered, answer>>
      /\ queried \in Nat /\ queried < N * Cardinality(Resource(k)) /\ queried' = queried + 1
      /\ table' = [table EXCEPT ![0][q.res] =
                      IF Covers(k, q.res, bind[q.rank]) THEN @ \cup {q.rank} ELSE @]
  BY <1>2 DEF Query, Books, Types
<1>4. q.res \in Resource(k) /\ q.rank \in Rank
  BY <1>2, <1>3, QueryTyped
<1>5. /\ \A x \in Rank : Still(x) /\ Turn(x)' = Turn(x) /\ Place(x)' = Place(x)
      /\ Turn(0)' = Turn(0) /\ Place(0)' = Place(0)
  BY <1>1, <1>3, StillThere DEF Still
<1>6. \A x \in Others : Follows(x)'
  BY <1>1, <1>3, <1>5, FollowsKept DEF Together, Lockstep
<1>7. ASSUME NEW x \in Rank
      PROVE  Len(entered[x]) >= k /\ bind[x] = entered[x][k]
  <2>1. CASE x = 0
    BY <1>2, <2>1 DEF Books, Entered
  <2>2. CASE x # 0
    <3>1. x \in Others /\ Turn(x) = k /\ Follows(x) /\ Position(x)
      BY <1>1, <2>2 DEF Others, Together, Lockstep, Positions
    <3>2. Place(x) \in {"measure", "path", "length"}
      BY <1>2, <3>1 DEF Follows, Missing
    <3>3. pc[x] \notin {"app", "start"}
      BY <3>1, <3>2 DEF Position, Result
    <3>4. call[x] = k /\ Len(entered[x]) = k
      BY <3>1, <3>3 DEF Position
    <3>. QED  BY <1>2, <3>3, <3>4 DEF Books, Entered
  <2>. QED  BY <2>1, <2>2
<1>8. ASSUME NEW x \in Rank, NEW res \in Resource(k)
      PROVE  x \in TableOf(k)[res] <=> Covers(k, res, bind[x])
  BY <1>7 DEF TableOf
<1>9. (TableOf(Turn(0)))' = TableOf(Turn(0))
  BY <1>3, <1>5 DEF TableOf
<1>10. ASSUME NEW x \in Rank, NEW res \in Resource(k)
       PROVE  AlreadyRead(res, x)' <=> AlreadyRead(res, x) \/ (res = q.res /\ x = q.rank)
  <2>1. res \in Nat
    BY <1>2, ResourceIs
  <2>. QED  BY <1>3, <2>1, ReadingOrder DEF AlreadyRead
<1>11. RootTable'
  <2>1. table[0] = [res \in Resource(k) |-> {x \in TableOf(k)[res] : AlreadyRead(res, x)}]
    BY <1>2 DEF Together, RootTable
  <2>2. \A res \in Resource(k) : TableOf(k)[res] \subseteq Rank
    BY DEF TableOf
  <2>3. table'[0] = [table[0] EXCEPT ![q.res] =
                        IF Covers(k, q.res, bind[q.rank]) THEN @ \cup {q.rank} ELSE @]
    BY <1>1, <1>3 DEF Books, Types
  <2>4. table'[0] = [res \in Resource(k) |-> {x \in TableOf(k)[res] : AlreadyRead(res, x)'}]
    <3>1. ASSUME NEW res \in Resource(k)
          PROVE  table'[0][res] = {x \in TableOf(k)[res] : AlreadyRead(res, x)'}
      <4>1. CASE res # q.res
        BY <1>10, <2>1, <2>2, <2>3, <4>1
      <4>2. CASE res = q.res
        <5>1. table'[0][res] = IF q.rank \in TableOf(k)[res]
                               THEN {x \in TableOf(k)[res] : AlreadyRead(res, x)} \cup {q.rank}
                               ELSE {x \in TableOf(k)[res] : AlreadyRead(res, x)}
          <6>1. table[0][res] = {x \in TableOf(k)[res] : AlreadyRead(res, x)}
            BY <2>1
          <6>2. table'[0][res] = IF Covers(k, res, bind[q.rank])
                                 THEN table[0][res] \cup {q.rank} ELSE table[0][res]
            BY <2>1, <2>3, <4>2
          <6>3. q.rank \in TableOf(k)[res] <=> Covers(k, res, bind[q.rank])
            BY <1>4, <1>8
          <6>. QED  BY <6>1, <6>2, <6>3
        <5>2. \A x \in TableOf(k)[res] : AlreadyRead(res, x)' <=> AlreadyRead(res, x) \/ x = q.rank
          BY <1>10, <2>2, <4>2
        <5>. QED  BY <5>1, <5>2
      <4>. QED  BY <4>1, <4>2
    <3>2. DOMAIN table'[0] = Resource(k) /\ table'[0] = [res \in DOMAIN table'[0] |-> table'[0][res]]
      BY <2>1, <2>3
    <3>. QED  BY <3>1, <3>2
  <2>. QED  BY <1>2, <1>3, <1>5, <1>9, <2>4 DEF RootTable
<1>12. Segments'
  BY <1>3, <1>5, <1>9, SegmentsKept DEF Together
<1>13. Decisions'
  BY <1>3, DecisionsKept DEF Together
<1>. QED
  <2>1. \A x \in Others : table'[x] = table[x] /\ path'[x] = path[x] /\ Still(x)
    BY <1>1, <1>3, <1>5 DEF Books, Types, Others
  <2>. QED  BY <1>5, <1>6, <1>11, <1>12, <1>13, <2>1, TogetherRoot

\* All the affinities that the decision needs are in the table by the time
\* that the length is broadcast.
LEMMA TogetherShareLength ==
    ASSUME Books, Together, [Next]_vars, ShareLength
    PROVE  Together'
<1>. DEFINE k == Turn(0)
<1>1. Positions /\ Positions' /\ 0 \in Rank /\ Others \subseteq Rank
  BY PositionsNext
<1>2. /\ pc[0] = "query" /\ Place(0) = "query" /\ Turn(0) = call[0]
      /\ k \in DOMAIN Calls /\ queried = N * Cardinality(Resource(k))
  BY <1>1, InCall DEF ShareLength, Positions, Position
<1>3. /\ UNCHANGED <<call, table, path, linked, segment, entered, answer>>
      /\ Goto(0, "create") /\ Broadcast(LengthOf(k))
  BY <1>2 DEF ShareLength, LengthOf
<1>4. /\ Turn(0)' = Turn(0) /\ Place(0)' = "create" /\ pc'[0] = "create"
      /\ \A q \in Others : Still(q)
  BY <1>1, <1>2, <1>3, MovedThere DEF Others
<1>5. ASSUME NEW q \in Others PROVE Follows(q)'
  <2>1. Follows(q) /\ Place(q)' = Place(q)
    BY <1>4, StillThere DEF Together, Lockstep
  <2>2. CASE Place(q) \in {"measure", "path"} /\ chan[q] = <<PathOf(k)>>
    <3>1. chan'[q] = <<PathOf(k), LengthOf(k)>>
      BY <1>3, <2>2, ShortSequences DEF Broadcast
    <3>. QED  BY <1>4, <2>1, <2>2, <3>1 DEF Follows, Missing
  <2>3. CASE Place(q) = "length" /\ chan[q] = <<>>
    <3>1. chan'[q] = <<LengthOf(k)>>
      BY <1>3, <2>3, ShortSequences DEF Broadcast
    <3>. QED  BY <1>4, <2>1, <2>3, <3>1 DEF Follows, Missing
  <2>. QED  BY <1>2, <2>1, <2>2, <2>3 DEF Follows, Missing
<1>6. RootTable'
  <2>1. table[0] = [res \in Resource(k) |-> {x \in TableOf(k)[res] : AlreadyRead(res, x)}]
    BY <1>2 DEF Together, RootTable
  <2>2. \A res \in Resource(k) : \A x \in Rank : AlreadyRead(res, x)
    BY <1>2, ReadingEnds DEF AlreadyRead
  <2>3. \A res \in Resource(k) : TableOf(k)[res] \subseteq Rank
    BY DEF TableOf
  <2>4. TableOf(k) = [res \in Resource(k) |-> TableOf(k)[res]]
    BY DEF TableOf
  <2>5. table[0] = TableOf(k)
    BY <2>1, <2>2, <2>3, <2>4
  <2>6. (TableOf(Turn(0)))' = TableOf(Turn(0))
    BY <1>3, <1>4 DEF TableOf
  <2>. QED  BY <1>3, <1>4, <2>5, <2>6 DEF RootTable
<1>7. Segments'
  BY <1>2, <1>3, <1>4 DEF Segments, Together, Decided
<1>8. Decisions'
  BY <1>3, DecisionsKept DEF Together
<1>. QED  BY <1>3, <1>4, <1>5, <1>6, <1>7, <1>8, TogetherRoot

\* Rank 0 creates its segment: the lockstep is kept.
LEMMA TogetherCreate ==
    ASSUME Books, Together, [Next]_vars, Create
    PROVE  Together'
<1>1. Positions /\ Positions' /\ 0 \in Rank /\ Others \subseteq Rank
  BY PositionsNext
<1>2. /\ pc[0] = "create" /\ Place(0) = "create" /\ Turn(0) = call[0]
  BY <1>1 DEF Create, Positions, Position
<1>3. /\ UNCHANGED <<call, chan, table, path, entered, answer>>
      /\ Goto(0, "fill") /\ linked' = linked \cup {Turn(0)}
  BY <1>2 DEF Create
<1>4. /\ Turn(0)' = Turn(0) /\ Place(0)' = "fill" /\ pc'[0] = "fill"
      /\ \A q \in Others : Still(q)
  BY <1>1, <1>2, <1>3, MovedThere DEF Others
<1>5. \A q \in Others : Follows(q)'
  <2>1. \A q \in Others : Follows(q) /\ Place(q)' = Place(q) /\ chan'[q] = chan[q]
    BY <1>3, <1>4, StillThere DEF Together, Lockstep
  <2>. QED  BY <1>2, <1>4, <2>1 DEF Follows, Missing
<1>6. RootTable'
  <2>1. table[0] = TableOf(Turn(0)) /\ (TableOf(Turn(0)))' = TableOf(Turn(0))
    BY <1>2, <1>3, <1>4 DEF Together, RootTable, TableOf
  <2>. QED  BY <1>3, <1>4, <2>1 DEF RootTable
<1>7. Segments'
  BY <1>2, <1>3, <1>4 DEF Segments, Together, Decided
<1>8. Decisions'
  BY <1>3, DecisionsKept DEF Together
<1>. QED  BY <1>3, <1>4, <1>5, <1>6, <1>7, <1>8, TogetherRoot

\* Rank 0 copies its table into the segment: the lockstep is kept.
LEMMA TogetherFill ==
    ASSUME Books, Together, [Next]_vars, Fill
    PROVE  Together'
<1>1. Positions /\ Positions' /\ 0 \in Rank /\ Others \subseteq Rank
  BY PositionsNext
<1>2. /\ pc[0] = "fill" /\ Place(0) = "fill" /\ Turn(0) = call[0] /\ Turn(0) \in DOMAIN Calls
  BY <1>1, InCall DEF Fill, Positions, Position
<1>3. /\ UNCHANGED <<call, chan, table, path, linked, entered, answer>>
      /\ Goto(0, "published") /\ segment' = [segment EXCEPT ![Turn(0)] = table[0]]
  BY <1>2 DEF Fill
<1>4. /\ Turn(0)' = Turn(0) /\ Place(0)' = "published" /\ pc'[0] = "published"
      /\ \A q \in Others : Still(q)
  BY <1>1, <1>2, <1>3, MovedThere DEF Others
<1>5. \A q \in Others : Follows(q)'
  <2>1. \A q \in Others : Follows(q) /\ Place(q)' = Place(q) /\ chan'[q] = chan[q]
    BY <1>3, <1>4, StillThere DEF Together, Lockstep
  <2>. QED  BY <1>2, <1>4, <2>1 DEF Follows, Missing
<1>6. table[0] = TableOf(Turn(0)) /\ (TableOf(Turn(0)))' = TableOf(Turn(0))
  BY <1>2, <1>3, <1>4 DEF Together, RootTable, TableOf
<1>7. RootTable'
  BY <1>3, <1>4, <1>6 DEF RootTable
<1>8. Segments'
  <2>1. segment'[Turn(0)] = TableOf(Turn(0))
    BY <1>2, <1>3, <1>6 DEF Books, Types
  <2>. QED  BY <1>2, <1>3, <1>4, <1>6, <2>1 DEF Segments, Together
<1>9. Decisions'
  BY <1>3, DecisionsKept DEF Together
<1>. QED  BY <1>3, <1>4, <1>5, <1>7, <1>8, <1>9, TogetherRoot

\* Rank 0 unlinks the segment, which everyone has mapped: the lockstep is
\* kept.
LEMMA TogetherUnlink ==
    ASSUME Books, Together, [Next]_vars, Unlink
    PROVE  Together'
<1>1. Positions /\ Positions' /\ 0 \in Rank /\ Others \subseteq Rank
  BY PositionsNext
<1>2. /\ pc[0] = "unlink" /\ Place(0) = "unlink" /\ Turn(0) = call[0]
  BY <1>1 DEF Unlink, Positions, Position
<1>3. /\ UNCHANGED <<call, chan, table, path, segment, entered, answer>>
      /\ Goto(0, "choose") /\ linked' = linked \ {Turn(0)}
  BY <1>2 DEF Unlink
<1>4. /\ Turn(0)' = Turn(0) /\ Place(0)' = "choose" /\ pc'[0] = "choose"
      /\ \A q \in Others : Still(q)
  BY <1>1, <1>2, <1>3, MovedThere DEF Others
<1>5. \A q \in Others : Follows(q)'
  <2>1. \A q \in Others : Follows(q) /\ Place(q)' = Place(q) /\ chan'[q] = chan[q]
    BY <1>3, <1>4, StillThere DEF Together, Lockstep
  <2>. QED  BY <1>2, <1>4, <2>1 DEF Follows, Missing
<1>6. (TableOf(Turn(0)))' = TableOf(Turn(0))
  BY <1>3, <1>4 DEF TableOf
<1>7. RootTable'
  BY <1>2, <1>3, <1>4, <1>6 DEF RootTable, Together
<1>8. Segments'
  <2>1. linked' = {}
    BY <1>2, <1>3 DEF Segments, Together
  <2>. QED  BY <1>2, <1>3, <1>4, <1>6, <2>1 DEF Segments, Together
<1>9. Decisions'
  BY <1>3, DecisionsKept DEF Together
<1>. QED  BY <1>3, <1>4, <1>5, <1>7, <1>8, <1>9, TogetherRoot

\* What the steps of another rank start from.
LEMMA OtherAt ==
    ASSUME Books, Together, [Next]_vars, NEW r \in Others, pc[r] \notin {"app", "start"}
    PROVE  /\ r \in Rank /\ 0 \in Rank \ {r} /\ Others \subseteq Rank
           /\ Place(r) = pc[r] /\ Turn(r) = call[r] /\ Turn(r) = Turn(0)
           /\ Follows(r) /\ Turn(0) \in DOMAIN Calls /\ Turn(0) # 0
<1>1. Positions /\ 0 \in Rank /\ Others \subseteq Rank /\ 0 \notin Others
  BY PositionsNext DEF Others
<1>2. Turn(r) = Turn(0) /\ Follows(r)
  BY DEF Together, Lockstep
<1>3. call[r] \in DOMAIN Calls
  BY <1>1, InCall
<1>. QED  BY <1>1, <1>2, <1>3, CallsAre DEF Positions, Position

\* A rank receives the path, or the empty path that makes it fail with rank
\* 0: the lockstep is kept.
LEMMA TogetherGetPath ==
    ASSUME Books, Together, [Next]_vars, NEW r \in Rank, GetPath(r)
    PROVE  Together'
<1>. DEFINE k == Turn(0)
<1>1. r \in Others /\ pc[r] = "path"
  BY DEF GetPath, Received
<1>2. /\ r \in Rank /\ 0 \in Rank \ {r} /\ Others \subseteq Rank
      /\ Place(r) = "path" /\ Turn(r) = call[r] /\ Turn(r) = Turn(0)
      /\ Follows(r) /\ Turn(0) \in DOMAIN Calls /\ Turn(0) # 0
  BY <1>1, OtherAt
<1>3. /\ UNCHANGED <<call, queried, table, linked, segment>>
      /\ chan' = [chan EXCEPT ![r] = Tail(@)] /\ chan[r] # <<>>
      /\ \/ Head(chan[r]) = NoPath /\ Return(r, "NO_PATH") /\ path' = path
         \/ /\ Head(chan[r]) # NoPath /\ Goto(r, "length") /\ answer' = answer
            /\ path' = [path EXCEPT ![r] = Head(chan[r]).segment]
  BY DEF GetPath, Receive, Received
<1>4. PathOf(k) # NoPath /\ PathOf(k).segment = k
  BY <1>2 DEF PathOf, NoPath
<1>5. \A q \in Others : chan'[q] = IF q = r THEN Tail(chan[r]) ELSE chan[q]
  BY <1>3 DEF Books, Types
<1>6. CASE Head(chan[r]) = NoPath
  <2>1. Place(0) = "NO_PATH" /\ chan[r] = <<NoPath>>
    BY <1>2, <1>3, <1>4, <1>6, ShortSequences DEF Follows, Missing, Decided
  <2>2. chan'[r] = <<>>
    BY <1>1, <1>5, <2>1, ShortSequences
  <2>3. /\ Turn(r)' = Turn(r) /\ Place(r)' = "NO_PATH" /\ pc'[r] = "app" /\ "NO_PATH" \in Result
        /\ call[r] = Turn(0) /\ Len(answer[r]) = Turn(0) - 1 /\ Return(r, "NO_PATH")
        /\ \A q \in Rank \ {r} : Still(q)
    BY <1>1, <1>2, <1>3, <1>6, ReturnedThere DEF Result
  <2>4. Turn(0)' = Turn(0) /\ Place(0)' = Place(0)
    BY <1>2, <2>3, StillThere
  <2>5. Follows(r)'
    BY <2>1, <2>2, <2>3, <2>4 DEF Follows, Missing
  <2>6. Decisions'
    <3>1. "NO_PATH" \notin Decided
      BY DEF Decided
    <3>. QED  BY <2>3, <3>1, DecisionsKept DEF Together
  <2>. QED  BY <1>1, <1>3, <1>5, <1>6, <2>3, <2>5, <2>6, TogetherOther DEF OtherPlaces
<1>7. CASE Head(chan[r]) # NoPath
  <2>1. \/ Place(0) = "query" /\ chan[r] = <<PathOf(k)>>
        \/ /\ Place(0) \in {"create", "fill", "published"}
           /\ chan[r] = <<PathOf(k), LengthOf(k)>>
    BY <1>2, <1>3, <1>7, ShortSequences DEF Follows, Missing, Decided
  <2>2. /\ Head(chan[r]) = PathOf(k)
        /\ \/ Place(0) = "query" /\ chan'[r] = <<>>
           \/ Place(0) \in {"create", "fill", "published"} /\ chan'[r] = <<LengthOf(k)>>
    <3>1. chan'[r] = Tail(chan[r])
      BY <1>1, <1>5
    <3>2. CASE Place(0) = "query" /\ chan[r] = <<PathOf(k)>>
      BY <3>1, <3>2, ShortSequences
    <3>3. CASE /\ Place(0) \in {"create", "fill", "published"}
               /\ chan[r] = <<PathOf(k), LengthOf(k)>>
      <4>1. Head(chan[r]) = PathOf(k)
        BY <3>3, ShortSequences
      <4>2. chan'[r] = <<LengthOf(k)>>
        BY <3>1, <3>3, ShortSequences
      <4>. QED  BY <3>3, <4>1, <4>2
    <3>. QED  BY <2>1, <3>2, <3>3
  <2>3. /\ Turn(r)' = Turn(r) /\ Place(r)' = "length" /\ pc'[r] = "length" /\ answer' = answer
        /\ \A q \in Rank \ {r} : Still(q)
    BY <1>1, <1>2, <1>3, <1>7, MovedThere
  <2>4. Turn(0)' = Turn(0) /\ Place(0)' = Place(0)
    BY <1>2, <2>3, StillThere
  <2>5. Follows(r)'
    BY <2>2, <2>3, <2>4 DEF Follows, Missing
  <2>6. path' = [path EXCEPT ![r] = k]
    BY <1>3, <1>4, <1>7, <2>2
  <2>7. path'[r] = Turn(0) /\ \A q \in Rank \ {r} : path'[q] = path[q]
    BY <2>6 DEF Books, Types
  <2>8. Decisions'
    BY <2>3, DecisionsKept DEF Together
  <2>. QED  BY <1>1, <1>3, <1>5, <2>3, <2>5, <2>7, <2>8, TogetherOther
<1>. QED  BY <1>6, <1>7

\* A rank receives the length: the lockstep is kept.
LEMMA TogetherGetLength ==
    ASSUME Books, Together, [Next]_vars, NEW r \in Rank, GetLength(r)
    PROVE  Together'
<1>1. r \in Others /\ pc[r] = "length"
  BY DEF GetLength, Received
<1>2. /\ r \in Rank /\ 0 \in Rank \ {r} /\ Others \subseteq Rank
      /\ Place(r) = "length" /\ Turn(r) = call[r] /\ Turn(r) = Turn(0) /\ Follows(r)
  BY <1>1, OtherAt
<1>3. /\ UNCHANGED <<call, queried, table, path, linked, segment, answer>>
      /\ chan' = [chan EXCEPT ![r] = Tail(@)] /\ chan[r] # <<>> /\ Goto(r, "sized")
  BY DEF GetLength, Receive, Received
<1>4. Place(0) \in {"create", "fill", "published"} /\ chan[r] = <<LengthOf(Turn(0))>>
  BY <1>2, <1>3 DEF Follows, Missing, Decided
<1>5. chan'[r] = <<>> /\ \A q \in Others \ {r} : chan'[q] = chan[q]
  BY <1>1, <1>3, <1>4, ShortSequences DEF Books, Types
<1>6. /\ Turn(r)' = Turn(r) /\ Place(r)' = "sized" /\ pc'[r] = "sized"
      /\ \A q \in Rank \ {r} : Still(q)
  BY <1>1, <1>2, <1>3, MovedThere
<1>7. Turn(0)' = Turn(0) /\ Place(0)' = Place(0)
  BY <1>2, <1>6, StillThere
<1>8. Follows(r)'
  BY <1>4, <1>5, <1>6, <1>7 DEF Follows, Missing
<1>9. path'[r] = Turn(0)
  BY <1>1, <1>2, <1>3 DEF Together, OtherTables, OtherPlaces
<1>10. Decisions'
  BY <1>3, DecisionsKept DEF Together
<1>. QED  BY <1>1, <1>3, <1>5, <1>6, <1>8, <1>9, <1>10, TogetherOther

\* A rank attaches to the segment that rank 0 published in this call: the
\* lockstep is kept.
LEMMA TogetherAttach ==
    ASSUME Books, Together, [Next]_vars, NEW r \in Rank, Attach(r)
    PROVE  Together'
<1>1. r \in Others /\ pc[r] = "attach"
  BY DEF Attach, Books, Placed, OtherPlaces, Others
<1>2. /\ r \in Rank /\ 0 \in Rank \ {r} /\ Others \subseteq Rank
      /\ Place(r) = "attach" /\ Turn(r) = call[r] /\ Turn(r) = Turn(0) /\ Follows(r)
  BY <1>1, OtherAt
<1>3. /\ UNCHANGED <<call, chan, queried, table, path, linked, segment, answer>>
      /\ Goto(r, "mapped")
  BY DEF Attach
<1>4. Place(0) = "collect" /\ chan[r] = <<>>
  BY <1>2 DEF Follows, Missing, Decided
<1>5. /\ Turn(r)' = Turn(r) /\ Place(r)' = "mapped" /\ pc'[r] = "mapped"
      /\ \A q \in Rank \ {r} : Still(q)
  BY <1>1, <1>2, <1>3, MovedThere
<1>6. Turn(0)' = Turn(0) /\ Place(0)' = Place(0)
  BY <1>2, <1>5, StillThere
<1>7. Follows(r)'
  BY <1>3, <1>4, <1>5, <1>6 DEF Follows, Missing
<1>8. path'[r] = Turn(0)
  BY <1>1, <1>2, <1>3 DEF Together, OtherTables, OtherPlaces
<1>9. Decisions'
  BY <1>3, DecisionsKept DEF Together
<1>. QED  BY <1>1, <1>3, <1>5, <1>7, <1>8, <1>9, TogetherOther

\* The copy is made of the complete table: the segment that was told of is the
\* one of this turn, and rank 0 has filled it in.
LEMMA TogetherCopy ==
    ASSUME Books, Together, [Next]_vars, ~FailedAlone, NEW r \in Rank, Copy(r)
    PROVE  Together'
<1>1. r \in Others /\ pc[r] = "copy"
  BY DEF Copy, Books, Placed, OtherPlaces, Others
<1>2. /\ r \in Rank /\ 0 \in Rank \ {r} /\ Others \subseteq Rank
      /\ Place(r) = "copy" /\ Turn(r) = call[r] /\ Turn(r) = Turn(0) /\ Follows(r)
      /\ Turn(0) \in DOMAIN Calls
  BY <1>1, OtherAt
<1>3. /\ UNCHANGED <<call, chan, queried, path, linked, segment, answer>>
      /\ Goto(r, "choose") /\ table' = [table EXCEPT ![r] = segment[path[r]]]
  BY DEF Copy
<1>4. /\ Place(0) \notin {"measure", "path", "NO_PATH", "query", "create", "fill", "published",
                          "collect"} \cup Missing
      /\ chan[r] = <<>>
  BY <1>2 DEF Follows, Missing, Decided
<1>5. Place(0) \in {"unlink", "choose"} \cup Decided
  <2>1. Position(0) /\ Turn(0) > 0
    BY <1>2, PositionsHold, CallsAre DEF Positions
  <2>2. pc[0] \notin OtherPlaces
    BY <1>2 DEF Books, Placed
  <2>3. Place(0) # "ERR"
    <3>1. "ERR" \notin Label
      BY LabelIs
    <3>2. Place(0) = "ERR" => Turn(0) \in DOMAIN answer[0] /\ answer[0][Turn(0)] = "ERR"
      BY <2>1, <3>1 DEF Position
    <3>. QED  BY <1>2, <3>2 DEF FailedAlone, Range
  <2>4. pc[0] \in {"app", "start"} => Place(0) \in Decided
    <3>1. pc[0] \in {"app", "start"} => Place(0) \in Result
      BY <2>1 DEF Position
    <3>. QED  BY <1>4, <2>3, <3>1 DEF Result, Missing, Decided
  <2>5. pc[0] \notin {"app", "start"} =>
            Place(0) = pc[0] /\ Place(0) \in Label \ (OtherPlaces \cup {"app", "start"})
    BY <2>1, <2>2 DEF Position
  <2>6. pc[0] \notin {"app", "start"} => Place(0) \in {"unlink", "choose"}
    BY <1>4, <2>5, LabelIs DEF OtherPlaces
  <2>. QED  BY <2>4, <2>6
<1>6. /\ Turn(r)' = Turn(r) /\ Place(r)' = "choose" /\ pc'[r] = "choose"
      /\ \A q \in Rank \ {r} : Still(q)
  BY <1>1, <1>2, <1>3, MovedThere
<1>7. Turn(0)' = Turn(0) /\ Place(0)' = Place(0)
  BY <1>2, <1>6, StillThere
<1>8. Follows(r)'
  BY <1>3, <1>4, <1>6, <1>7 DEF Follows
<1>9. Decisions'
  BY <1>3, DecisionsKept DEF Together
<1>10. table'[r] = TableOf(Turn(0)) /\ \A q \in Rank \ {r} : table'[q] = table[q]
  <2>1. path[r] = Turn(0)
    BY <1>1, <1>2 DEF Together, OtherTables, OtherPlaces
  <2>2. segment[Turn(0)] = TableOf(Turn(0))
    BY <1>2, <1>5 DEF Together, Segments
  <2>. QED  BY <1>2, <1>3, <2>1, <2>2 DEF Books, Types
<1>. QED  BY <1>1, <1>3, <1>6, <1>8, <1>9, <1>10, TogetherOther DEF OtherPlaces

\* A rank takes its decision from the table it has: the lockstep is kept.
LEMMA TogetherChoose ==
    ASSUME Books, Together, [Next]_vars, NEW r \in Rank, Choose(r)
    PROVE  Together'
<1>. DEFINE result == IF Selected(call[r], r, table[r]) THEN "selected" ELSE "not selected"
<1>1. Positions /\ Positions' /\ 0 \in Rank /\ Others \subseteq Rank
  BY PositionsNext
<1>2. /\ pc[r] = "choose" /\ Place(r) = "choose" /\ Turn(r) = call[r] /\ Turn(r) = Turn(0)
      /\ call[r] \in DOMAIN Calls
  BY <1>1, InCall DEF Choose, Positions, Position, Together, Lockstep, Others
<1>3. /\ UNCHANGED <<call, chan, queried, path, linked, segment, entered>>
      /\ Return(r, result) /\ table' = [table EXCEPT ![r] = NoTable]
  BY DEF Choose
<1>4. result \in Result /\ result \in Decided /\ result \notin Missing \cup {"NO_PATH", "ERR"}
  BY DEF Result, Decided, Missing
<1>5. table[r] = TableOf(Turn(0))
  BY <1>2 DEF Together, RootTable, OtherTables, Others
<1>6. result = "selected" <=> Selected(Turn(0), r, TableOf(Turn(0)))
  BY <1>2, <1>5
<1>. HIDE DEF result
<1>7. /\ Turn(r)' = Turn(r) /\ Place(r)' = result /\ pc'[r] = "app"
      /\ call[r] = Turn(0) /\ Len(answer[r]) = Turn(0) - 1
      /\ \A q \in Rank \ {r} : Still(q)
  BY <1>2, <1>3, <1>4, ReturnedThere
<1>8. Decisions'
  BY <1>3, <1>4, <1>6, <1>7, DecisionsKept DEF Together
<1>9. \A q \in Rank \ {r} : table'[q] = table[q]
  BY <1>3 DEF Books, Types
<1>10. CASE r # 0
  <2>1. r \in Others /\ 0 \in Rank \ {r} /\ Follows(r)
    BY <1>1, <1>10 DEF Others, Together, Lockstep
  <2>2. Turn(0)' = Turn(0) /\ Place(0)' = Place(0)
    BY <1>7, <2>1, StillThere
  <2>3. Place(0) \notin {"measure", "path", "NO_PATH", "query", "create", "fill", "published",
                         "collect"} \cup Missing /\ chan[r] = <<>>
    BY <1>2, <2>1 DEF Follows, Missing, Decided
  <2>4. Follows(r)'
    BY <1>3, <1>4, <1>7, <2>2, <2>3 DEF Follows
  <2>. QED  BY <1>3, <1>7, <1>8, <1>9, <2>1, <2>4, TogetherOther DEF OtherPlaces
<1>11. CASE r = 0
  <2>1. \A q \in Others : q \in Rank \ {r} /\ Follows(q)
    BY <1>1, <1>11 DEF Others, Together, Lockstep
  <2>2. \A q \in Others : Place(q)' = Place(q) /\ chan'[q] = chan[q] /\ Still(q)
    BY <1>3, <1>7, <2>1, StillThere
  <2>3. ASSUME NEW q \in Others PROVE Follows(q)'
    <3>1. Place(q) \in {"copy", "choose"} \cup Decided /\ chan[q] = <<>>
      BY <1>2, <1>11, <2>1 DEF Follows, Missing
    <3>2. Place(0)' \notin {"measure", "path", "NO_PATH", "query", "create", "fill",
                            "published", "collect"} \cup Missing
      BY <1>4, <1>7, <1>11 DEF Decided
    <3>. QED  BY <2>2, <3>1, <3>2 DEF Follows
  <2>4. RootTable'
    BY <1>7, <1>11 DEF RootTable
  <2>5. (TableOf(Turn(0)))' = TableOf(Turn(0))
    BY <1>3, <1>7, <1>11 DEF TableOf
  <2>6. Segments'
    BY <1>2, <1>3, <1>7, <1>11, <2>5 DEF Segments, Together
  <2>. QED  BY <1>3, <1>7, <1>8, <1>9, <1>11, <2>1, <2>2, <2>3, <2>4, <2>6, TogetherRoot
<1>. QED  BY <1>10, <1>11

\* Until somebody fails alone, every step keeps the ranks together.
LEMMA TogetherStep ==
    ASSUME Books, Together, ~FailedAlone, [Next]_vars
    PROVE  FailedAlone' \/ Together'
<1>. SUFFICES ASSUME ~FailedAlone' PROVE Together'
  OBVIOUS
<1>1. CASE UNCHANGED vars
  BY <1>1, TogetherIdle DEF vars
<1>2. ASSUME NEW r \in Rank, NEW b \in Affinities, Rebind(r, b) PROVE Together'
  BY <1>2, TogetherIdle DEF Rebind
<1>3. ASSUME NEW r \in Rank, Call(r) PROVE Together'
  <2>1. \A q \in Rank : \/ pc'[q] = pc[q] /\ call'[q] = call[q]
                        \/ {pc[q], pc'[q]} \subseteq {"app", "start"}
    BY <1>3 DEF Call, Goto, Books, Types
  <2>. QED  BY <1>3, <2>1, TogetherIdle DEF Call
<1>4. ASSUME NEW r \in Rank, Arrive(r) PROVE Together'
  <2>1. CASE waiting \cup {r} = Rank
    BY <1>4, <2>1, TogetherRelease
  <2>2. CASE waiting \cup {r} # Rank
    BY <1>4, <2>2, TogetherIdle DEF Arrive
  <2>. QED  BY <2>1, <2>2
<1>5. ASSUME NEW r \in Rank, AttachFailure(r) PROVE FALSE
  BY <1>5, ErrIsAlone DEF AttachFailure
<1>6. ASSUME QueryFailure \/ OpenFailure \/ MapFailure PROVE FALSE
  BY <1>6, RankIs, ErrIsAlone DEF QueryFailure, OpenFailure, MapFailure
<1>7. ASSUME NEW r \in Rank, OtherStep(r) PROVE Together'
  BY <1>5, <1>7, TogetherGetPath, TogetherGetLength, TogetherAttach, TogetherCopy DEF OtherStep
<1>8. ASSUME RootStep PROVE Together'
  BY <1>6, <1>8, TogetherSharePath, TogetherSharePathFailure, TogetherQuery, TogetherShareLength,
     TogetherCreate, TogetherFill, TogetherUnlink DEF RootStep
<1>. QED
  BY <1>1, <1>2, <1>3, <1>4, <1>7, <1>8, TogetherMeasure, TogetherChoose
     DEF Next, LibraryStep

\* Once a rank has failed alone it has failed alone for good: results are
\* never taken back.
LEMMA FailedAloneStays ==
    ASSUME Books, [Next]_vars, FailedAlone
    PROVE  FailedAlone'
<1>1. PICK r \in Rank : "ERR" \in Range(answer[r])
  BY DEF FailedAlone
<1>2. PICK k \in DOMAIN answer[r] : answer[r][k] = "ERR"
  BY <1>1 DEF Range
<1>3. Positions /\ Positions' /\ Grows(answer[r], answer'[r])
  BY PositionsNext, HistoriesGrow
<1>4. k \in DOMAIN answer'[r] /\ answer'[r][k] = "ERR"
  BY <1>2, <1>3, SMTT(30) DEF Positions, Position, Grows
<1>. QED  BY <1>4 DEF FailedAlone, Range

\* Before the first call everyone is in lockstep.
LEMMA TogetherInit == Init => Together
<1>. SUFFICES ASSUME Init PROVE Together
  OBVIOUS
<1>. USE RankIs
<1>1. \A r \in Rank : Turn(r) = 0 /\ Place(r) = "not selected"
  BY DEF Init, Turn, Place
<1>2. Lockstep
  <2>1. \A r \in Others : r \in Rank /\ chan[r] = <<>>
    BY DEF Init, Others
  <2>. QED  BY <1>1, <2>1 DEF Lockstep, Follows, Missing, Decided
<1>3. RootTable
  BY DEF Init, RootTable
<1>4. Segments
  <2>1. Turn(0) = 0 /\ 0 \notin DOMAIN Calls /\ pc[0] = "app" /\ linked = {}
    <3>1. Turn(0) = 0 /\ pc[0] = "app" /\ linked = {}
      BY <1>1 DEF Init
    <3>2. 0 \notin DOMAIN Calls
      BY CallsAre
    <3>. QED  BY <3>1, <3>2
  <2>. QED  BY <2>1 DEF Segments
<1>5. OtherTables
  BY DEF Init, OtherTables, OtherPlaces, Others
<1>6. Decisions /\ PathsAgree
  <2>1. \A r \in Rank : DOMAIN answer[r] = {}
    BY DEF Init
  <2>. QED  BY <2>1 DEF Decisions, PathsAgree, Others
<1>. QED  BY <1>2, <1>3, <1>4, <1>5, <1>6 DEF Together

\* The inductive invariant.
Sound == Books /\ (FailedAlone \/ Together)

\* The inductive invariant: the books are in order, and while nobody has
\* failed alone the ranks are in lockstep.
LEMMA SoundAlways == Spec => []Sound
<1>1. Init => Sound
  BY BooksInit, TogetherInit DEF Sound
<1>2. Sound /\ [Next]_vars => Sound'
  BY BooksStep, FailedAloneStays, TogetherStep DEF Sound
<1>. QED  BY <1>1, <1>2, PTL DEF Spec

(***************************************************************************)
(* What the invariant says                                                 *)
(***************************************************************************)
\* Every rank decides from the affinities that all the ranks of the node had
\* when they entered this call, as long as nobody has failed alone: whatever
\* the number of ranks, of calls and of resources, and the other failures.
THEOREM DecidesFromSnapshot == Spec => [](FailedAlone \/ Snapshot)
<1>1. Sound => FailedAlone \/ Snapshot
  <2>. SUFFICES ASSUME Books, Together PROVE Snapshot
    BY DEF Sound
  <2>. SUFFICES ASSUME NEW r \in Rank, pc[r] = "choose"
                PROVE  (\A x \in Rank : call[x] >= call[r]) /\ table[r] = TableOf(call[r])
    BY DEF Snapshot
  <2>1. \A x \in Rank : Turn(x) = Turn(0) /\ Turn(x) <= call[x]
    BY PositionsHold DEF Together, Lockstep, Others, Positions, Position
  <2>2. call[r] = Turn(0)
    BY <2>1 DEF Turn
  <2>3. table[r] = TableOf(Turn(0))
    BY DEF Together, RootTable, OtherTables, Others
  <2>. QED  BY <2>1, <2>2, <2>3
<1>. QED  BY <1>1, SoundAlways, PTL

\* Ranks that wait together wait for the same barrier of the same call.
THEOREM WaitsInPhase == Spec => [](FailedAlone \/ SamePhase)
<1>1. Sound => FailedAlone \/ SamePhase
  <2>. SUFFICES ASSUME Books, Together, ~FailedAlone, NEW q \in waiting, NEW r \in waiting
                PROVE  call[q] = call[r] /\ Phase[pc[q]] = Phase[pc[r]]
    BY DEF Sound, SamePhase
  <2>1. ASSUME NEW x \in waiting
        PROVE  \/ /\ pc[x] = "start" /\ call[x] = Turn(0) + 1
                  /\ Place(0) \notin {"query", "create", "fill", "published", "collect"}
               \/ /\ pc[x] \in {"published", "sized"} /\ call[x] = Turn(0)
                  /\ Place(0) \in {"create", "fill", "published"}
               \/ /\ pc[x] \in {"collect", "mapped"} /\ call[x] = Turn(0)
                  /\ Place(0) = "collect"
    <3>1. x \in Rank /\ pc[x] \in DOMAIN Beyond
      BY DEF Books, Types, Placed
    <3>2. Position(x) /\ Turn(x) = Turn(0) /\ (x # 0 => Follows(x))
      BY <3>1, PositionsHold DEF Positions, Together, Lockstep, Others
    <3>3. CASE pc[x] = "start"
      <4>1. call[x] = Turn(0) + 1
        BY <3>1, <3>2, <3>3, CallsAre DEF Books, Entered, Types, Position
      <4>2. Place(x) \in Result
        BY <3>2, <3>3 DEF Position
      <4>3. x # 0 => Place(0) \notin {"query", "create", "fill", "published", "collect"}
        BY <3>2, <4>2 DEF Follows, Result, Missing
      <4>. QED  BY <3>3, <4>1, <4>2, <4>3 DEF Result
    <3>4. CASE pc[x] # "start"
      <4>1. pc[x] \in {"published", "collect", "sized", "mapped"} /\ Place(x) = pc[x]
        BY <3>1, <3>2, <3>4, BeyondIs DEF Position
      <4>2. call[x] = Turn(0)
        BY <3>2, <4>1 DEF Position
      <4>3. CASE x = 0
        <5>1. pc[x] \notin {"sized", "mapped"}
          BY <3>1, <4>3 DEF Books, Placed, OtherPlaces
        <5>. QED  BY <4>1, <4>2, <4>3, <5>1
      <4>4. CASE x # 0
        <5>1. pc[x] \in {"sized", "mapped"}
          BY <3>1, <4>1, <4>4 DEF Books, Placed, RootPlaces
        <5>. QED  BY <3>2, <4>1, <4>2, <4>4, <5>1 DEF Follows, Missing, Decided
      <4>. QED  BY <4>3, <4>4
    <3>. QED  BY <3>3, <3>4
  <2>2. /\ Phase["start"] = 1 /\ Phase["published"] = 2 /\ Phase["sized"] = 2
        /\ Phase["collect"] = 3 /\ Phase["mapped"] = 3
    BY DEF Phase
  <2>. QED  BY <2>1, <2>2
<1>. QED  BY <1>1, SoundAlways, PTL

\* While nobody has failed alone, a rank about to attach finds its path
\* linked, and rank 0's table in it.
LEMMA AttachingTogether ==
    ASSUME Books, Together, NEW r \in Rank, pc[r] = "attach"
    PROVE  path[r] \in linked /\ segment[path[r]] = table[0]
<1>1. r \in Others
  BY DEF Books, Placed, OtherPlaces, Others
<1>2. Follows(r) /\ Place(r) = "attach" /\ Turn(r) = Turn(0) /\ call[r] = Turn(0)
  BY <1>1 DEF Together, Lockstep, Place, Turn
<1>3. Place(0) = "collect"
  BY <1>2 DEF Follows, Missing, Decided
<1>4. pc[0] = "collect"
  BY <1>3, RankIs, PositionsHold DEF Positions, Position, Result
<1>5. path[r] = Turn(0) /\ Turn(0) \in DOMAIN Calls
  BY <1>1, <1>2, InCall DEF Together, OtherTables, OtherPlaces
<1>. QED  BY <1>3, <1>4, <1>5 DEF Together, Segments, RootTable

\* The segment that a rank is about to attach to is linked and filled in.
THEOREM AttachesWhenPublished == Spec => [](FailedAlone \/ AttachesToPublished)
<1>1. Sound => FailedAlone \/ AttachesToPublished
  BY AttachingTogether DEF Sound, AttachesToPublished
<1>. QED  BY <1>1, SoundAlways, PTL

\* Between calls no segment has a file.
THEOREM NothingStaysLinked == Spec => [](FailedAlone \/ NothingLinked)
<1>1. Sound => FailedAlone \/ NothingLinked
  BY RankIs DEF Sound, NothingLinked, Together, Segments
<1>. QED  BY <1>1, SoundAlways, PTL

\* Whatever fails: until a rank fails alone, the calls return one result to all.
THEOREM AgreesUntilFailure == Spec => []AgreeUntilFailure
<1>1. Sound /\ (FailedAlone \/ Snapshot) => AgreeUntilFailure
  <2>. SUFFICES ASSUME Books, Together, NEW q \in Rank, NEW r \in Rank,
                       NEW k \in DOMAIN answer[q] \cap DOMAIN answer[r],
                       answer[q][k] \in Uniform
                PROVE  answer[r][k] = answer[q][k]
    BY DEF Sound, AgreeUntilFailure
  <2>1. CASE Resource(k) = {}
    BY <2>1 DEF Books, Measured
  <2>2. CASE Resource(k) # {}
    <3>1. answer[q][k] = "NO_PATH"
      BY <2>2 DEF Books, Measured, Uniform
    <3>2. k \in DOMAIN answer[0] /\ answer[0][k] = "NO_PATH"
      <4>1. CASE q = 0
        BY <3>1, <4>1
      <4>2. CASE q # 0
        <5>1. q \in Others /\ Position(q) /\ Position(0) /\ Turn(q) = Turn(0) /\ Follows(q)
          BY <4>2, RankIs, PositionsHold DEF Others, Positions, Together, Lockstep
        <5>2. k \in DOMAIN answer[0]
          <6>1. CASE k < Turn(0)
            BY <5>1, <6>1 DEF Position
          <6>2. CASE k = Turn(0)
            <7>1. Place(q) = "NO_PATH"
              BY <3>1, <5>1, <6>2 DEF Position
            <7>2. Place(0) = "NO_PATH"
              BY <5>1, <7>1 DEF Follows, Missing, Decided
            <7>. QED  BY <5>1, <6>2, <7>2, LabelIs DEF Position
          <6>. QED  BY <5>1, <6>1, <6>2 DEF Position
        <5>. QED  BY <3>1, <5>1, <5>2 DEF Together, PathsAgree
      <4>. QED  BY <4>1, <4>2
    <3>3. answer[r][k] = "NO_PATH"
      BY <3>2 DEF Together, PathsAgree, Others
    <3>. QED  BY <3>1, <3>3
  <2>. QED  BY <2>1, <2>2
<1>. QED  BY <1>1, SoundAlways, DecidesFromSnapshot, PTL

\* Nobody fails alone when nothing but making up the path can fail.
THEOREM NobodyFailsAlone ==
    ASSUME Failing \subseteq {"path"}
    PROVE  Spec => []~FailedAlone
<1>. DEFINE Fine == Sound /\ ~FailedAlone
<1>1. Init => Fine
  <2>1. ASSUME Init PROVE ~FailedAlone
    BY <2>1 DEF Init, FailedAlone, Range
  <2>. QED  BY <2>1, BooksInit, TogetherInit DEF Sound
<1>2. Fine /\ [Next]_vars => Fine'
  <2>. SUFFICES ASSUME Sound, ~FailedAlone, [Next]_vars PROVE Fine'
    OBVIOUS
  <2>1. CASE answer' = answer
    BY <2>1, BooksStep, TogetherStep DEF Sound, FailedAlone
  <2>2. ASSUME NEW r \in Rank, NEW result \in Result, result # "ERR", Return(r, result)
        PROVE  Fine'
    <3>1. ASSUME NEW q \in Rank, NEW k \in DOMAIN answer'[q] PROVE answer'[q][k] # "ERR"
      <4>1. CASE k \in DOMAIN answer[q] /\ answer'[q][k] = answer[q][k]
        BY <4>1 DEF FailedAlone, Range
      <4>2. CASE q = r /\ k = Len(answer[r]) + 1
        BY <2>2, <4>2, Returned DEF Sound, Books
      <4>. QED  BY <2>2, <4>1, <4>2, Returned DEF Sound, Books
    <3>2. ~FailedAlone'
      BY <3>1 DEF FailedAlone, Range
    <3>. QED  BY <3>2, BooksStep, TogetherStep DEF Sound
  <2>. USE RankIs
  <2>3. CASE UNCHANGED vars
    BY <2>1, <2>3 DEF vars
  <2>4. ASSUME NEW r \in Rank,
               \/ \E b \in Affinities : Rebind(r, b)
               \/ Call(r) \/ Arrive(r) \/ GetLength(r) \/ Attach(r) \/ Copy(r)
        PROVE  Fine'
    BY <2>1, <2>4 DEF Rebind, Call, Arrive, GetLength, Attach, Copy
  <2>5. CASE SharePath \/ Query \/ ShareLength \/ Create \/ Fill \/ Unlink
    BY <2>1, <2>5 DEF SharePath, Query, ShareLength, Create, Fill, Unlink
  <2>6. CASE QueryFailure \/ OpenFailure \/ MapFailure
    BY <2>6 DEF QueryFailure, OpenFailure, MapFailure
  <2>7. ASSUME NEW r \in Rank, AttachFailure(r) PROVE FALSE
    <3>1. pc[r] = "attach" /\ path[r] \notin linked
      BY <2>7 DEF AttachFailure
    <3>. QED  BY <3>1, AttachingTogether DEF Sound
  <2>8. CASE SharePathFailure
    BY <2>2, <2>8 DEF SharePathFailure, Result
  <2>9. ASSUME NEW r \in Rank, Measure(r) PROVE Fine'
    <3>1. CASE answer' = answer
      BY <2>1, <3>1
    <3>2. CASE Return(r, NoObjects(call[r]))
      BY <2>2, <3>2 DEF NoObjects, Result
    <3>. QED  BY <2>9, <3>1, <3>2 DEF Measure, NoObjects
  <2>10. ASSUME NEW r \in Rank, GetPath(r) PROVE Fine'
    <3>1. CASE answer' = answer
      BY <2>1, <3>1
    <3>2. CASE Return(r, "NO_PATH")
      BY <2>2, <3>2 DEF Result
    <3>. QED  BY <2>10, <3>1, <3>2 DEF GetPath
  <2>11. ASSUME NEW r \in Rank, Choose(r) PROVE Fine'
    <3>1. Return(r, "selected") \/ Return(r, "not selected")
      BY <2>11 DEF Choose
    <3>. QED  BY <2>2, <3>1 DEF Result
  <2>. QED
    BY <2>3, <2>4, <2>5, <2>6, <2>7, <2>8, <2>9, <2>10, <2>11
       DEF Next, LibraryStep, OtherStep, RootStep
<1>. QED  BY <1>1, <1>2, PTL DEF Spec

(***************************************************************************)
(* The decisions add up                                                    *)
(***************************************************************************)
LEMMA MinOfTwo ==
    ASSUME NEW a \in Int, NEW b \in Int
    PROVE  Min({a, b}) = IF a <= b THEN a ELSE b
BY DEF Min

\* Of a set of ranks, the first m are m of them, or all when there are fewer.
LEMMA FirstAmongCount ==
    ASSUME NEW m \in Nat, NEW S \in SUBSET Rank
    PROVE  Cardinality({r \in Rank : FirstAmong(m, r, S)}) = Min({m, Cardinality(S)})
<1>. DEFINE Below(r) == {x \in S : x < r}
            f == [r \in S |-> Cardinality(Below(r))]
            T == {r \in S : f[r] < m}
<1>1. IsFiniteSet(S) /\ Cardinality(S) \in Nat /\ S \subseteq Nat
  BY RankIs, FS_Subset, FS_CardinalityType
<1>2. \A r \in S : IsFiniteSet(Below(r)) /\ Cardinality(Below(r)) \in Nat
  BY <1>1, FS_Subset, FS_CardinalityType
<1>3. \A r \in S : f[r] = Cardinality(Below(r)) /\ f[r] \in Nat
  BY <1>2
<1>4. ASSUME NEW x \in S, NEW y \in S, x < y PROVE f[x] < f[y]
  <2>1. Below(x) \in SUBSET Below(y) /\ x \in Below(y) /\ x \notin Below(x)
    <3>1. x \in Nat /\ y \in Nat /\ \A z \in S : z \in Nat
      BY <1>1
    <3>2. \A z \in S : z < x => z < y
      BY <1>4, <3>1
    <3>3. ~(x < x)
      BY <3>1
    <3>. QED  BY <1>4, <3>2, <3>3
  <2>2. Cardinality(Below(x)) <= Cardinality(Below(y))
        /\ Cardinality(Below(x)) # Cardinality(Below(y))
    BY <1>2, <2>1, FS_Subset
  <2>. QED  BY <1>2, <1>3, <2>2
<1>5. {r \in Rank : FirstAmong(m, r, S)} = T
  BY <1>3 DEF FirstAmong
<1>6. T \in SUBSET S /\ IsFiniteSet(T) /\ Cardinality(T) \in Nat /\ Cardinality(T) <= Cardinality(S)
  BY <1>1, FS_Subset, FS_CardinalityType
<1>f. \A x : x \in T <=> x \in S /\ f[x] < m
  OBVIOUS
<1>n. \A x \in S : f[x] \in Nat
  BY <1>3
<1>. HIDE DEF f
<1>7. Cardinality(T) <= m
  <2>. SUFFICES ASSUME Cardinality(T) > m PROVE FALSE
    BY <1>6
  <2>1. IsFiniteSet(0 .. m - 1) /\ Cardinality(0 .. m - 1) = m
    <3>1. 0 \in Int /\ m - 1 \in Int /\ (IF 0 > m - 1 THEN 0 ELSE m - 1 - 0 + 1) = m
      OBVIOUS
    <3>. QED  BY <3>1, FS_Interval
  <2>. DEFINE g == [r \in T |-> f[r]]
  <2>2. g \in [T -> 0 .. m - 1]
    <3>1. \A x \in T : f[x] \in 0 .. m - 1
      <4>. SUFFICES ASSUME NEW x \in T PROVE f[x] \in 0 .. m - 1
        OBVIOUS
      <4>1. f[x] \in Nat /\ f[x] < m
        BY <1>f, <1>n
      <4>. QED  BY <4>1
    <3>. QED  BY <3>1
  <2>. HIDE DEF T
  <2>3. \E x, y \in T : x # y /\ g[x] = g[y]
    <3>. HIDE DEF g
    <3>. QED  BY <1>6, <2>1, <2>2, FS_PigeonHole
  <2>4. PICK x \in T, y \in T : x # y /\ g[x] = g[y]
    BY <2>3
  <2>5. f[x] = f[y] /\ x \in S /\ y \in S
    BY <1>6, <2>4
  <2>6. x < y \/ y < x
    <3>1. x \in Nat /\ y \in Nat
      BY <1>1, <2>5
    <3>. QED  BY <2>4, <3>1
  <2>7. f[x] \in Nat /\ f[y] \in Nat
    BY <1>3, <2>5
  <2>. QED  BY <1>4, <2>5, <2>6, <2>7
<1>8. CASE T = S
  <2>1. Cardinality(S) <= m
    BY <1>7, <1>8
  <2>2. Min({m, Cardinality(S)}) = Cardinality(S)
    BY <1>1, <2>1, MinOfTwo
  <2>. QED  BY <1>5, <1>8, <2>2
<1>9. CASE T # S
  <2>1. PICK r \in S \ T : \A x \in S \ T : r <= x
    BY <1>1, <1>6, <1>9, LeastNat
  <2>2. ASSUME NEW x \in S PROVE x \in T <=> x < r
    <3>1. x < r => x \in T
      BY <1>1, <2>1
    <3>2. r < x => x \notin T
      <4>1. f[r] >= m /\ f[r] \in Nat /\ f[x] \in Nat
        <5>1. f[r] \in Nat /\ f[x] \in Nat
          BY <1>n, <2>1
        <5>2. ~(f[r] < m)
          BY <1>f, <2>1
        <5>. QED  BY <5>1, <5>2
      <4>2. r < x => f[r] < f[x]
        BY <1>4, <2>1
      <4>. QED  BY <4>1, <4>2
    <3>. QED  BY <1>1, <2>1, <3>1, <3>2
  <2>3. T = Below(r)
    BY <2>2
  <2>4. Cardinality(T) >= m
    BY <1>3, <2>1, <2>3
  <2>5. Cardinality(T) = m /\ m <= Cardinality(S)
    BY <1>6, <1>7, <2>4
  <2>. QED  BY <1>1, <1>5, <2>5, MinOfTwo
<1>. QED  BY <1>8, <1>9

\* The lower n ranks are n of them, or all when there are fewer.
LEMMA LowerRanks ==
    ASSUME NEW n \in Nat
    PROVE  Cardinality({r \in Rank : r < n}) = Min({N, n})
<1>. USE RankIs
<1>m. Min({N, n}) = IF N <= n THEN N ELSE n
  <2>1. N \in Int /\ n \in Int
    OBVIOUS
  <2>. QED  BY <2>1, MinOfTwo
<1>1. CASE N <= n
  <2>1. {r \in Rank : r < n} = 0 .. N - 1
    BY <1>1 DEF Rank
  <2>2. Cardinality(0 .. N - 1) = N
    <3>1. 0 \in Int /\ N - 1 \in Int /\ (IF 0 > N - 1 THEN 0 ELSE N - 1 - 0 + 1) = N
      OBVIOUS
    <3>. QED  BY <3>1, FS_Interval
  <2>. QED  BY <1>1, <1>m, <2>1, <2>2
<1>2. CASE n < N
  <2>1. {r \in Rank : r < n} = 0 .. n - 1
    BY <1>2 DEF Rank
  <2>2. Cardinality(0 .. n - 1) = n
    <3>1. 0 \in Int /\ n - 1 \in Int /\ (IF 0 > n - 1 THEN 0 ELSE n - 1 - 0 + 1) = n
      OBVIOUS
    <3>. QED  BY <3>1, FS_Interval
  <2>3. ~(N <= n)
    BY <1>2
  <2>. QED  BY <1>m, <2>1, <2>2, <2>3
<1>. QED  BY <1>1, <1>2

\* The decisions of all the ranks from one table: what is selected of a
\* resource's list, of the ranks that share, and of the rest.
LEMMA SelectedOf ==
    ASSUME NEW k \in DOMAIN Calls, NEW lists \in [Resource(k) -> SUBSET Rank],
           SharedRanks(lists) # Rank,
           NEW C \in SUBSET Rank, \A r \in Rank : r \in C <=> Selected(k, r, lists)
    PROVE  /\ C \cap SharedRanks(lists) = {}
           /\ C \subseteq UNION Range(lists)
           /\ \A res \in Resource(k) :
                  C \cap lists[res]
                      = {r \in Rank : FirstAmong(Calls[k].max, r, lists[res] \ SharedRanks(lists))}
<1>1. DOMAIN lists = Resource(k) /\ \A res \in Resource(k) : lists[res] \subseteq Rank
  OBVIOUS
<1>2. \A r \in Rank : r \in C
          <=> \E res \in Resource(k) : FirstAmong(Calls[k].max, r, lists[res] \ SharedRanks(lists))
  BY <1>1 DEF Selected
<1>3. \A r \in C : r \in Rank
  OBVIOUS
<1>4. C \cap SharedRanks(lists) = {}
  BY <1>2, <1>3 DEF FirstAmong
<1>5. C \subseteq UNION Range(lists)
  BY <1>1, <1>2, <1>3 DEF FirstAmong, Range
<1>6. ASSUME NEW res \in Resource(k), NEW r \in Rank
      PROVE  r \in C \cap lists[res]
                 <=> FirstAmong(Calls[k].max, r, lists[res] \ SharedRanks(lists))
  <2>1. ASSUME FirstAmong(Calls[k].max, r, lists[res] \ SharedRanks(lists))
        PROVE  r \in C \cap lists[res]
    BY <1>2, <2>1 DEF FirstAmong
  <2>2. ASSUME r \in C, r \in lists[res]
        PROVE  FirstAmong(Calls[k].max, r, lists[res] \ SharedRanks(lists))
    <3>1. PICK other \in Resource(k) :
              FirstAmong(Calls[k].max, r, lists[other] \ SharedRanks(lists))
      BY <1>2, <2>2
    <3>2. r \in lists[other] /\ r \notin SharedRanks(lists)
      BY <3>1 DEF FirstAmong
    <3>3. other = res
      BY <1>1, <2>2, <3>2 DEF SharedRanks
    <3>. QED  BY <3>1, <3>3
  <2>. QED  BY <2>1, <2>2
<1>. QED  BY <1>3, <1>4, <1>5, <1>6

\* What the ranks decide apart, without asking each other, adds up to the
\* limits of the call, whatever the number of ranks and of resources and
\* however the ranks are bound.
THEOREM DecisionsTakenApart == Spec => [](FailedAlone \/ DecisionsAddUp)
<1>1. Sound => FailedAlone \/ DecisionsAddUp
  <2>. SUFFICES ASSUME Books, Together, NEW k \in DOMAIN Calls, Answered(k)
                PROVE  LET lists == TableOf(k)
                           shared == SharedRanks(lists)
                           max == Calls[k].max
                       IN  IF shared = Rank
                           THEN Cardinality(Chosen(k)) = Min({N, max * Cardinality(Resource(k))})
                           ELSE /\ Chosen(k) \cap shared = {}
                                /\ Chosen(k) \subseteq UNION Range(lists)
                                /\ \A res \in Resource(k) :
                                       Cardinality(Chosen(k) \cap lists[res])
                                           = Min({max, Cardinality(lists[res] \ shared)})
    BY DEF Sound, DecisionsAddUp
  <2>. DEFINE lists == TableOf(k)
              shared == SharedRanks(lists)
              max == Calls[k].max
  <2>1. lists \in [Resource(k) -> SUBSET Rank]
    BY DEF TableOf
  <2>2. max \in Nat
    <3>1. Calls[k] \in [type : STRING, max : Nat \ {0}]
      <4>. DEFINE Argument == [type : STRING, max : Nat \ {0}]
      <4>1. Calls \in Seq(Argument)
        BY AutoDistribAssumption
      <4>. HIDE DEF Argument
      <4>2. Calls[k] \in Argument
        BY <4>1, CallsAre, ElementOfSeq
      <4>. QED  BY <4>2 DEF Argument
    <3>. QED  BY <3>1
  <2>3. Chosen(k) \in SUBSET Rank /\ \A r \in Rank : r \in Chosen(k) <=> Selected(k, r, lists)
    <3>. SUFFICES ASSUME NEW r \in Rank PROVE answer[r][k] = "selected" <=> Selected(k, r, lists)
      BY DEF Chosen
    <3>1. answer[r] \in Seq(Result)
      BY DEF Books, Types
    <3>2. Len(answer[r]) >= k /\ answer[r][k] \in Decided
      BY Zenon DEF Answered, Decided
    <3>3. k \in DOMAIN answer[r]
      BY <3>1, <3>2, CallsAre, LenProperties
    <3>. QED  BY <3>2, <3>3 DEF Together, Decisions
  <2>. HIDE DEF lists, max
  <2>4. CASE shared = Rank
    <3>1. PICK n \in Nat : Cardinality(Resource(k)) = n
      BY ResourceIs
    <3>2. max * n \in Nat
      BY <2>2, <3>1
    <3>3. \A r \in Rank : Selected(k, r, lists) <=> r < max * n
      BY <2>1, <2>4, <3>1 DEF Selected, max
    <3>4. Chosen(k) = {r \in Rank : r < max * n}
      BY <2>3, <3>3
    <3>5. Cardinality(Chosen(k)) = Min({N, max * n})
      BY <3>2, <3>4, LowerRanks
    <3>. QED  BY <2>4, <3>1, <3>5 DEF lists, max
  <2>5. CASE shared # Rank
    <3>1. /\ Chosen(k) \cap shared = {}
          /\ Chosen(k) \subseteq UNION Range(lists)
          /\ \A res \in Resource(k) :
                 Chosen(k) \cap lists[res] = {r \in Rank : FirstAmong(max, r, lists[res] \ shared)}
      BY <2>1, <2>3, <2>5, SelectedOf, ZenonT(30) DEF max
    <3>2. ASSUME NEW res \in Resource(k)
          PROVE  Cardinality(Chosen(k) \cap lists[res]) = Min({max, Cardinality(lists[res] \ shared)})
      <4>1. lists[res] \ shared \in SUBSET Rank
        BY <2>1
      <4>. QED  BY <2>2, <3>1, <4>1, FirstAmongCount
    <3>. QED  BY <2>5, <3>1, <3>2 DEF lists, max
  <2>. QED  BY <2>4, <2>5
<1>. QED  BY <1>1, SoundAlways, PTL

(***************************************************************************)
(* The refinement of Publish                                               *)
(***************************************************************************)
Filling == {"fill", "published", "collect", "unlink", "choose"}

\* Only a call that rank 0 has come to create the segment of has one.
Fresh ==
    \A k \in DOMAIN Calls :
        segment[k] # NoTable => k \in DOMAIN answer[0] \/ (k = call[0] /\ pc[0] \in Filling)

\* Every step keeps that: rank 0 fills a segment after it has come to create it.
LEMMA FreshStep ==
    ASSUME Books, Fresh, [Next]_vars
    PROVE  Fresh'
<1>. USE RankIs
<1>1. DOMAIN answer[0] \subseteq DOMAIN answer'[0]
  <2>1. Len(answer[0]) <= Len(answer'[0])
    BY HistoriesGrow DEF Grows
  <2>2. answer[0] \in Seq(Result) /\ answer'[0] \in Seq(Result)
    BY BooksStep DEF Books, Types
  <2>. QED  BY <2>1, <2>2, LenProperties
\* A step after which rank 0 is still in its call, or has just returned from it.
<1>2. ASSUME segment' = segment, call'[0] = call[0],
             pc[0] \in Filling => pc'[0] \in Filling \/ call[0] \in DOMAIN answer'[0]
      PROVE  Fresh'
  BY <1>1, <1>2 DEF Fresh
<1>3. ASSUME pc[0] \in {"create", "fill"}, call'[0] = call[0],
             segment' = [segment EXCEPT ![call[0]] = segment'[call[0]]],
             pc'[0] \in Filling \/ call[0] \in DOMAIN answer'[0]
      PROVE  Fresh'
  <2>1. \A k \in DOMAIN Calls \ {call[0]} : segment'[k] = segment[k]
    BY <1>3 DEF Books, Types
  <2>. QED  BY <1>1, <1>3, <2>1 DEF Fresh
<1>4. ASSUME NEW result \in Result, pc[0] # "app", Return(0, result)
      PROVE  call[0] \in DOMAIN answer'[0]
  BY <1>4, Returned, SMTT(30) DEF Books, Types, Entered
<1>5. CASE UNCHANGED vars
  BY <1>2, <1>5 DEF vars
<1>6. ASSUME NEW r \in Rank, NEW b \in Affinities, Rebind(r, b) PROVE Fresh'
  BY <1>2, <1>6 DEF Rebind
<1>7. ASSUME NEW r \in Rank, Call(r) PROVE Fresh'
  <2>1. segment' = segment /\ pc[r] = "app"
    BY <1>7 DEF Call
  <2>2. r # 0 => call'[0] = call[0] /\ pc'[0] = pc[0]
    BY <1>7 DEF Call, Goto, Books, Types
  <2>3. r = 0 => pc[0] \notin Filling
    BY <2>1 DEF Filling
  <2>. QED  BY <1>1, <1>2, <2>1, <2>2, <2>3 DEF Fresh
<1>8. ASSUME NEW r \in Rank, Arrive(r) PROVE Fresh'
  <2>1. segment' = segment /\ call' = call
    BY <1>8 DEF Arrive
  <2>2. CASE pc' = pc
    BY <1>2, <2>1, <2>2
  <2>3. CASE waiting \cup {r} = Rank /\ pc' = [q \in Rank |-> Beyond[pc[q]]]
    <3>1. pc[0] \in DOMAIN Beyond
      BY <1>8, <2>3 DEF Arrive, Books, Placed
    <3>2. pc[0] \in Filling => pc'[0] \in Filling
      BY <2>3, <3>1, BeyondIs DEF Filling
    <3>. QED  BY <1>2, <2>1, <3>2
  <2>. QED  BY <1>8, <2>2, <2>3 DEF Arrive
<1>9. ASSUME NEW r \in Rank, Measure(r) PROVE Fresh'
  <2>1. segment' = segment /\ call' = call /\ pc[r] = "measure"
    BY <1>9 DEF Measure
  <2>2. r # 0 => pc'[0] = pc[0]
    BY <1>9 DEF Measure, Return, Goto, Books, Types
  <2>. QED  BY <1>2, <2>1, <2>2 DEF Filling
<1>10. ASSUME NEW r \in Rank, OtherStep(r) PROVE Fresh'
  <2>1. segment' = segment /\ call' = call /\ r # 0
    BY <1>10 DEF OtherStep, GetPath, GetLength, Received, Others, Attach, AttachFailure, Copy,
                 Books, Placed, OtherPlaces
  <2>2. pc'[0] = pc[0]
    BY <1>10, <2>1 DEF OtherStep, GetPath, GetLength, Attach, AttachFailure, Copy, Return, Goto,
                       Books, Types
  <2>. QED  BY <1>2, <2>1, <2>2
<1>11. ASSUME NEW r \in Rank, Choose(r) PROVE Fresh'
  <2>1. segment' = segment /\ call' = call /\ pc[r] = "choose"
    BY <1>11 DEF Choose
  <2>2. r # 0 => pc'[0] = pc[0]
    BY <1>11 DEF Choose, Return, Goto, Books, Types
  <2>3. r = 0 => call[0] \in DOMAIN answer'[0]
    <3>1. r = 0 => Return(0, "selected") \/ Return(0, "not selected")
      BY <1>11 DEF Choose
    <3>2. "selected" \in Result /\ "not selected" \in Result
      BY DEF Result
    <3>. QED  BY <1>4, <2>1, <3>1, <3>2
  <2>. QED  BY <1>2, <2>1, <2>2, <2>3
<1>12. CASE SharePath \/ SharePathFailure \/ Query \/ QueryFailure \/ ShareLength \/ OpenFailure
  <2>1. segment' = segment /\ call' = call /\ pc[0] \in {"path", "query", "create"}
    BY <1>12 DEF SharePath, SharePathFailure, Query, QueryFailure, ShareLength, OpenFailure
  <2>. QED  BY <1>2, <2>1 DEF Filling
<1>13. CASE Unlink
  BY <1>2, <1>13 DEF Unlink, Goto, Filling, Books, Types
<1>14. CASE Create
  BY <1>3, <1>14 DEF Create, Goto, Filling, Books, Types
<1>15. CASE MapFailure
  <2>1. "ERR" \in Result
    BY DEF Result
  <2>2. call[0] \in DOMAIN answer'[0]
    BY <1>4, <1>15, <2>1 DEF MapFailure
  <2>. QED  BY <1>3, <1>15, <2>2 DEF MapFailure, Books, Types
<1>16. CASE Fill
  BY <1>3, <1>16 DEF Fill, Goto, Filling, Books, Types
<1>. QED
  BY <1>5, <1>6, <1>7, <1>8, <1>9, <1>10, <1>11, <1>12, <1>13, <1>14, <1>15, <1>16
     DEF Next, LibraryStep, RootStep

\* The segments are fresh in every reachable state.
LEMMA FreshAlways == Spec => []Fresh
<1>1. Init => Fresh
  BY DEF Init, Fresh
<1>. QED  BY <1>1, BooksAlways, FreshStep, PTL DEF Spec

Inside(k) == call[0] = k /\ pc[0] \in {"published", "collect", "unlink"}

\* A stage depends on no more than these.
LEMMA StageKept ==
    ASSUME NEW k, linked' = linked, segment' = segment, k \in linked => Inside(k)' = Inside(k)
    PROVE  Stage(k)' = Stage(k)
BY DEF Stage, Inside

\* A rank that goes on inside the part of the call where it has mapped the
\* segment, or before it, or that returns without a decision, has mapped what it had.
LEMMA HasMappedKept ==
    ASSUME Books, NEW r \in Rank, NEW k \in DOMAIN Calls, answer'[r] = answer[r],
           \/ pc'[r] = pc[r] /\ call'[r] = call[r]
           \/ call'[r] = call[r] /\ {pc[r], pc'[r]} \subseteq {"mapped", "copy", "choose"}
           \/ {pc[r], pc'[r]} \cap {"mapped", "copy", "choose"} = {}
    PROVE  HasMapped(r, k)' <=> HasMapped(r, k)
BY DEF HasMapped

\* A return that is no decision does not change who has mapped the segment.
LEMMA ReturnedMapped ==
    ASSUME Books, NEW r \in Rank, NEW k \in DOMAIN Calls, NEW result \in Result,
           Return(r, result), pc[r] # "app", call'[r] = call[r],
           result \in Decided <=> pc[r] = "choose", pc[r] \notin {"mapped", "copy"}
    PROVE  HasMapped(r, k)' <=> HasMapped(r, k)
<1>1. Len(answer[r]) + 1 = call[r] /\ pc'[r] = "app"
  BY Returned DEF Books, Types, Entered
<1>2. CASE k = call[r]
  <2>1. k \notin DOMAIN answer[r] /\ k \in DOMAIN answer'[r] /\ answer'[r][k] = result
    BY <1>1, <1>2, Returned DEF Books
  <2>. QED  BY <1>1, <1>2, <2>1 DEF HasMapped, Decided
<1>3. CASE k # call[r]
  <2>1. DOMAIN answer[r] \cup {call[r]} = DOMAIN answer'[r]
    BY <1>1, Returned DEF Books
  <2>2. k \in DOMAIN answer'[r] <=> k \in DOMAIN answer[r]
    BY <1>3, <2>1
  <2>3. k \in DOMAIN answer[r] => answer'[r][k] = answer[r][k]
    BY Returned DEF Books
  <2>. QED  BY <1>1, <1>3, <2>2, <2>3 DEF HasMapped
<1>. QED  BY <1>2, <1>3

SameStage(k) == Stage(k)' = Stage(k)
SameMapped(k) == \A r \in Others : HasMapped(r, k)' <=> HasMapped(r, k)

\* A step changes nothing that Publish tells of, or one segment's stage, or
\* has one more reader map a complete segment.
LEMMA PublishKinds ==
    /\ (\A k \in DOMAIN Calls : SameStage(k) /\ SameMapped(k)) => UNCHANGED Publication!vars
    /\ \A s \in DOMAIN Calls :
        /\ \A k \in DOMAIN Calls : SameMapped(k)
        /\ \A k \in DOMAIN Calls \ {s} : SameStage(k)
        => /\ Stage(s) = "none" /\ Stage(s)' = "made" => Publication!Next
           /\ Stage(s) = "made" /\ Stage(s)' = "complete" => Publication!Next
           /\ /\ Stage(s) = "complete" /\ Stage(s)' = "withdrawn"
              /\ \A r \in Others : HasMapped(r, s)
              => Publication!Next
    /\ \A s \in DOMAIN Calls, r \in Others :
        /\ \A k \in DOMAIN Calls : SameStage(k)
        /\ \A k \in DOMAIN Calls \ {s} : SameMapped(k)
        /\ \A q \in Others \ {r} : HasMapped(q, s)' <=> HasMapped(q, s)
        /\ Stage(s) = "complete" /\ HasMapped(r, s)'
        => Publication!Next
<1>. DEFINE St == [k \in DOMAIN Calls |-> Stage(k)]
            Ma == [k \in DOMAIN Calls |-> {r \in Others : HasMapped(r, k)}]
            Re == [k \in DOMAIN Calls |-> Others]
<1>1. ASSUME \A k \in DOMAIN Calls : SameStage(k) PROVE St' = St
  BY <1>1 DEF SameStage
<1>2. ASSUME \A k \in DOMAIN Calls : SameMapped(k) PROVE Ma' = Ma
  BY <1>2 DEF SameMapped
<1>3. Re' = Re
  OBVIOUS
<1>4. (\A k \in DOMAIN Calls : SameStage(k) /\ SameMapped(k)) => UNCHANGED Publication!vars
  BY <1>1, <1>2, <1>3 DEF Publication!vars
<1>5. ASSUME NEW s \in DOMAIN Calls,
             \A k \in DOMAIN Calls : SameMapped(k),
             \A k \in DOMAIN Calls \ {s} : SameStage(k)
      PROVE  /\ Stage(s) = "none" /\ Stage(s)' = "made" => Publication!Next
             /\ Stage(s) = "made" /\ Stage(s)' = "complete" => Publication!Next
             /\ /\ Stage(s) = "complete" /\ Stage(s)' = "withdrawn"
                /\ \A r \in Others : HasMapped(r, s)
                => Publication!Next
  <2>1. ASSUME NEW to, Stage(s)' = to PROVE St' = [St EXCEPT ![s] = to]
    BY <1>5, <2>1 DEF SameStage
  <2>2. Ma' = Ma /\ Re' = Re
    BY <1>2, <1>3, <1>5
  <2>3. \A from, to : Stage(s) \in from /\ Stage(s)' = to => Publication!Move(s, from, to)
    BY <2>1, <2>2 DEF Publication!Move
  <2>4. Stage(s) = "none" /\ Stage(s)' = "made" => Publication!Next
    BY <2>3 DEF Publication!Next, Publication!Make
  <2>5. Stage(s) = "made" /\ Stage(s)' = "complete" => Publication!Next
    BY <2>3 DEF Publication!Next, Publication!Complete
  <2>6. /\ Stage(s) = "complete" /\ Stage(s)' = "withdrawn"
        /\ \A r \in Others : HasMapped(r, s)
        => Publication!Next
    <3>1. (\A r \in Others : HasMapped(r, s)) => Ma[s] = Re[s]
      OBVIOUS
    <3>. QED  BY <2>3, <3>1 DEF Publication!Next, Publication!Withdraw
  <2>. QED  BY <2>4, <2>5, <2>6
<1>6. ASSUME NEW s \in DOMAIN Calls, NEW r \in Others,
             \A k \in DOMAIN Calls : SameStage(k),
             \A k \in DOMAIN Calls \ {s} : SameMapped(k),
             \A q \in Others \ {r} : HasMapped(q, s)' <=> HasMapped(q, s),
             Stage(s) = "complete", HasMapped(r, s)'
      PROVE  Publication!Next
  <2>1. St' = St /\ Re' = Re
    BY <1>1, <1>3, <1>6
  <2>2. Ma' = [Ma EXCEPT ![s] = @ \cup {r}]
    <3>1. \A k \in DOMAIN Calls \ {s} : Ma'[k] = Ma[k]
      BY <1>6 DEF SameMapped
    <3>2. Ma'[s] = Ma[s] \cup {r}
      BY <1>6
    <3>. QED  BY <3>1, <3>2
  <2>3. r \in Re[s]
    OBVIOUS
  <2>4. Publication!Map(s, r)
    BY <1>6, <2>1, <2>2 DEF Publication!Map
  <2>. QED  BY <2>3, <2>4 DEF Publication!Next
<1>. QED  BY <1>4, <1>5, <1>6

\* Each step of the distribution is a step of the abstract publication, or
\* leaves it unchanged.
LEMMA PublishStep ==
    ASSUME Books, Together, Fresh, ~FailedAlone, ~FailedAlone', [Next]_vars
    PROVE  Publication!Next \/ UNCHANGED Publication!vars
<1>. USE RankIs
<1>1. Positions /\ Positions' /\ 0 \in Rank /\ Others \subseteq Rank
  BY PositionsNext
<1>2. linked = IF pc[0] \in {"fill", "published", "collect", "unlink"} THEN {Turn(0)} ELSE {}
  BY DEF Together, Segments
<1>3. pc[0] \notin {"app", "start"} =>
          Turn(0) = call[0] /\ call[0] \in DOMAIN Calls /\ call[0] \notin DOMAIN answer[0]
  BY <1>1, InCall, CallsAre DEF Positions, Position
\* A step that moves at most one rank, r, and leaves the segments alone.
<1>4. ASSUME NEW r \in Rank, linked' = linked, segment' = segment,
             \A q \in Rank \ {r} : Still(q),
             \A k \in DOMAIN Calls : HasMapped(r, k)' <=> HasMapped(r, k),
             r = 0 => pc[0] \notin {"fill", "published", "collect", "unlink"}
      PROVE  UNCHANGED Publication!vars
  <2>1. ASSUME NEW k \in DOMAIN Calls PROVE SameStage(k)
    <3>1. k \in linked => Inside(k)' = Inside(k)
      BY <1>2, <1>4 DEF Inside, Still
    <3>. QED  BY <1>4, <3>1, StageKept DEF SameStage
  <2>2. ASSUME NEW k \in DOMAIN Calls, NEW q \in Others PROVE HasMapped(q, k)' <=> HasMapped(q, k)
    <3>1. q # r => HasMapped(q, k)' = HasMapped(q, k)
      BY <1>1, <1>4 DEF Still, HasMapped
    <3>. QED  BY <1>4, <3>1
  <2>. QED  BY <2>1, <2>2, PublishKinds DEF SameMapped
<1>5. ASSUME NEW r \in Rank, NEW label, Goto(r, label), UNCHANGED <<call, answer>>
      PROVE  /\ \A q \in Rank \ {r} : Still(q)
             /\ pc'[r] = label /\ call'[r] = call[r] /\ answer'[r] = answer[r]
  BY <1>5 DEF Goto, Still, Books, Types
<1>6. ASSUME NEW r \in Rank, NEW result \in Result, Return(r, result), UNCHANGED call,
             result \in Decided <=> pc[r] = "choose", pc[r] \notin {"app", "mapped", "copy"}
      PROVE  /\ \A q \in Rank \ {r} : Still(q)
             /\ \A k \in DOMAIN Calls : HasMapped(r, k)' <=> HasMapped(r, k)
  <2>1. \A q \in Rank \ {r} : Still(q)
    BY <1>6 DEF Return, Goto, Still, Books, Types
  <2>. QED  BY <1>6, <2>1, ReturnedMapped
<1>7. ASSUME NEW k \in DOMAIN Calls, NEW q \in Others, Still(q)
      PROVE  HasMapped(q, k)' <=> HasMapped(q, k)
  BY <1>7 DEF Still, HasMapped
\* The steps that change nothing of it.
<1>8. CASE UNCHANGED vars
  <2>1. UNCHANGED <<pc, call, answer, linked, segment>>
    BY <1>8 DEF vars
  <2>2. \A q \in Rank : Still(q)
    BY <2>1 DEF Still
  <2>3. \A k \in DOMAIN Calls : SameMapped(k)
    BY <1>1, <1>7, <2>2 DEF SameMapped
  <2>4. \A k \in DOMAIN Calls : SameStage(k)
    BY <2>1, StageKept DEF SameStage, Inside
  <2>. QED  BY <2>3, <2>4, PublishKinds
<1>9. ASSUME NEW r \in Rank, NEW b \in Affinities, Rebind(r, b) PROVE UNCHANGED Publication!vars
  <2>1. \A q \in Rank : Still(q)
    BY <1>9 DEF Rebind, Still
  <2>2. \A k \in DOMAIN Calls : HasMapped(r, k)' <=> HasMapped(r, k)
    BY <2>1 DEF Still, HasMapped
  <2>. QED  BY <1>4, <1>9, <2>1, <2>2 DEF Rebind
<1>10. ASSUME NEW r \in Rank, Call(r) PROVE UNCHANGED Publication!vars
  <2>1. \A q \in Rank \ {r} : Still(q)
    BY <1>10 DEF Call, Goto, Still, Books, Types
  <2>2. pc[r] = "app" /\ pc'[r] = "start" /\ answer'[r] = answer[r]
    BY <1>10 DEF Call, Goto, Books, Types
  <2>3. \A k \in DOMAIN Calls : HasMapped(r, k)' <=> HasMapped(r, k)
    BY <2>2, HasMappedKept
  <2>. QED  BY <1>4, <1>10, <2>1, <2>2, <2>3 DEF Call
<1>11. ASSUME NEW r \in Rank, Arrive(r) PROVE UNCHANGED Publication!vars
  <2>1. UNCHANGED <<call, answer, linked, segment>>
    BY <1>11 DEF Arrive
  <2>2. CASE pc' = pc
    <3>1. \A q \in Rank : Still(q)
      BY <2>1, <2>2 DEF Still
    <3>2. \A k \in DOMAIN Calls : HasMapped(r, k)' <=> HasMapped(r, k)
      BY <3>1 DEF Still, HasMapped
    <3>3. \A k \in DOMAIN Calls : SameStage(k)
      BY <2>1, <2>2, StageKept DEF SameStage, Inside
    <3>4. \A k \in DOMAIN Calls : SameMapped(k)
      BY <1>1, <1>7, <3>1 DEF SameMapped
    <3>. QED  BY <3>3, <3>4, PublishKinds
  <2>3. CASE waiting \cup {r} = Rank /\ pc' = [q \in Rank |-> Beyond[pc[q]]]
    <3>1. \A q \in Rank : pc[q] \in DOMAIN Beyond /\ pc'[q] = Beyond[pc[q]]
      BY <1>11, <2>3 DEF Arrive, Books, Placed
    <3>2. pc[0] \in {"start", "published", "collect"}
      BY <3>1, BeyondIs DEF Books, Placed, OtherPlaces
    <3>3. \A k \in DOMAIN Calls : k \in linked => Inside(k)' = Inside(k)
      BY <1>2, <2>1, <3>1, <3>2, BeyondIs DEF Inside
    <3>4. \A k \in DOMAIN Calls : SameStage(k)
      BY <2>1, <3>3, StageKept DEF SameStage
    <3>5. ASSUME NEW q \in Others PROVE
             \/ {pc[q], pc'[q]} \subseteq {"mapped", "copy", "choose"}
             \/ {pc[q], pc'[q]} \cap {"mapped", "copy", "choose"} = {}
      <4>1. pc[q] \in {"start", "published", "collect", "sized", "mapped"} /\ pc'[q] = Beyond[pc[q]]
        BY <1>1, <3>1, BeyondIs
      <4>2. \/ pc[q] = "mapped" /\ pc'[q] = "copy"
            \/ pc[q] # "mapped" /\ pc'[q] \in {"measure", "collect", "unlink", "attach"}
        BY <4>1, BeyondIs
      <4>. QED  BY <4>1, <4>2
    <3>6. \A k \in DOMAIN Calls : SameMapped(k)
      BY <1>1, <2>1, <3>5, HasMappedKept DEF SameMapped
    <3>. QED  BY <3>4, <3>6, PublishKinds
  <2>. QED  BY <1>11, <2>2, <2>3 DEF Arrive
<1>12. ASSUME NEW r \in Rank, Measure(r) PROVE UNCHANGED Publication!vars
  <2>1. pc[r] = "measure" /\ UNCHANGED <<call, linked, segment>>
    BY <1>12 DEF Measure
  <2>2. CASE Goto(r, "path") /\ answer' = answer
    <3>1. \A k \in DOMAIN Calls : HasMapped(r, k)' <=> HasMapped(r, k)
      BY <1>5, <2>1, <2>2, HasMappedKept
    <3>. QED  BY <1>4, <1>5, <2>1, <2>2, <3>1
  <2>3. CASE Return(r, NoObjects(call[r]))
    <3>1. NoObjects(call[r]) \in Result /\ NoObjects(call[r]) \notin Decided
      BY DEF NoObjects, Result, Decided
    <3>. QED  BY <1>4, <1>6, <2>1, <2>3, <3>1
  <2>. QED  BY <1>12, <2>2, <2>3 DEF Measure, NoObjects
<1>13. ASSUME NEW r \in Rank, GetPath(r) PROVE UNCHANGED Publication!vars
  <2>1. pc[r] = "path" /\ r # 0 /\ UNCHANGED <<call, linked, segment>>
    BY <1>13 DEF GetPath, Received, Others
  <2>2. CASE Goto(r, "length") /\ answer' = answer
    <3>1. \A k \in DOMAIN Calls : HasMapped(r, k)' <=> HasMapped(r, k)
      BY <1>5, <2>1, <2>2, HasMappedKept
    <3>. QED  BY <1>4, <1>5, <2>1, <2>2, <3>1
  <2>3. CASE Return(r, "NO_PATH")
    <3>1. "NO_PATH" \in Result /\ "NO_PATH" \notin Decided
      BY DEF Result, Decided
    <3>. QED  BY <1>4, <1>6, <2>1, <2>3, <3>1
  <2>. QED  BY <1>13, <2>2, <2>3 DEF GetPath
<1>14. ASSUME NEW r \in Rank, GetLength(r) \/ Copy(r) PROVE UNCHANGED Publication!vars
  <2>1. /\ UNCHANGED <<call, answer, linked, segment>> /\ r # 0
        /\ \/ pc[r] = "length" /\ Goto(r, "sized")
           \/ pc[r] = "copy" /\ Goto(r, "choose")
    BY <1>14 DEF GetLength, Copy, Received, Others, Books, Placed, OtherPlaces
  <2>2. \A k \in DOMAIN Calls : HasMapped(r, k)' <=> HasMapped(r, k)
    BY <1>5, <2>1, HasMappedKept
  <2>. QED  BY <1>4, <1>5, <2>1, <2>2
<1>15. ASSUME NEW r \in Rank, AttachFailure(r) PROVE FALSE
  BY <1>15, ErrIsAlone DEF AttachFailure
<1>16. ASSUME QueryFailure \/ OpenFailure \/ MapFailure PROVE FALSE
  BY <1>16, RankIs, ErrIsAlone DEF QueryFailure, OpenFailure, MapFailure
<1>17. ASSUME NEW r \in Rank, Choose(r) PROVE UNCHANGED Publication!vars
  <2>1. pc[r] = "choose" /\ UNCHANGED <<call, linked, segment>>
    BY <1>17 DEF Choose
  <2>2. PICK result \in Decided : Return(r, result)
    BY <1>17 DEF Choose, Decided
  <2>3. result \in Result
    BY <2>2 DEF Decided, Result
  <2>. QED  BY <1>4, <1>6, <2>1, <2>2, <2>3
<1>18. CASE SharePathFailure
  <2>1. "NO_PATH" \in Result /\ "NO_PATH" \notin Decided
    BY DEF Result, Decided
  <2>2. pc[0] = "path" /\ UNCHANGED <<call, linked, segment>> /\ Return(0, "NO_PATH")
    BY <1>18 DEF SharePathFailure
  <2>. QED  BY <1>4, <1>6, <2>1, <2>2
<1>19. CASE SharePath \/ ShareLength \/ Query
  <2>1. /\ pc[0] \in {"path", "query"} /\ UNCHANGED <<call, answer, linked, segment>>
        /\ Goto(0, "query") \/ Goto(0, "create") \/ pc' = pc
    BY <1>19 DEF SharePath, ShareLength, Query
  <2>2. \A q \in Rank \ {0} : Still(q)
    BY <1>5, <2>1 DEF Still
  <2>3. \A k \in DOMAIN Calls : HasMapped(0, k)' <=> HasMapped(0, k)
    BY <1>5, <2>1, HasMappedKept
  <2>. QED  BY <1>4, <2>1, <2>2, <2>3
\* The steps of the publication itself.
<1>20. CASE Create \/ Fill \/ Unlink
  <2>1. /\ UNCHANGED <<call, answer>> /\ pc[0] \in {"create", "fill", "unlink"}
        /\ Goto(0, "fill") \/ Goto(0, "published") \/ Goto(0, "choose")
    BY <1>20 DEF Create, Fill, Unlink
  <2>0. PICK s \in DOMAIN Calls : s = call[0]
    BY <1>3, <2>1
  <2>2. Turn(0) = s /\ s \notin DOMAIN answer[0] /\ Place(0) = pc[0]
    BY <1>3, <2>0, <2>1 DEF Place
  <2>3. \A q \in Others : Still(q)
    BY <1>5, <2>1 DEF Others
  <2>4. \A k \in DOMAIN Calls : SameMapped(k)
    BY <1>7, <2>3 DEF SameMapped
  <2>5. Resource(s) # {}
    BY <1>1, <2>1, <2>2 DEF Positions, Position
  <2>6. CASE Create
    <3>1. /\ pc[0] = "create" /\ pc'[0] = "fill" /\ call' = call /\ linked' = linked \cup {s}
          /\ segment' = [segment EXCEPT ![s] = EmptyTable(s)]
      BY <2>0, <2>6 DEF Create, Goto, Books, Types
    <3>2. linked = {} /\ segment[s] = NoTable
      BY <1>2, <2>0, <2>2, <3>1 DEF Fresh, Filling
    <3>3. Stage(s) = "none" /\ Stage(s)' = "made"
      BY <2>0, <3>1, <3>2 DEF Stage
    <3>4. ASSUME NEW k \in DOMAIN Calls \ {s} PROVE SameStage(k)
      <4>1. k \notin linked /\ k \notin linked' /\ segment'[k] = segment[k]
        BY <3>1, <3>2 DEF Books, Types
      <4>. QED  BY <4>1 DEF SameStage, Stage
    <3>. QED  BY <2>2, <2>4, <3>3, <3>4, PublishKinds
  <2>7. CASE Fill
    <3>1. /\ pc[0] = "fill" /\ pc'[0] = "published" /\ call' = call /\ linked' = linked
          /\ segment' = [segment EXCEPT ![s] = table[0]]
      BY <2>0, <2>7 DEF Fill, Goto, Books, Types
    <3>2. linked = {s}
      BY <1>2, <2>2, <3>1
    <3>3. Stage(s) = "made" /\ Stage(s)' = "complete"
      BY <2>0, <3>1, <3>2 DEF Stage
    <3>4. ASSUME NEW k \in DOMAIN Calls \ {s} PROVE SameStage(k)
      <4>1. k \notin linked /\ k \notin linked' /\ segment'[k] = segment[k]
        BY <3>1, <3>2 DEF Books, Types
      <4>. QED  BY <4>1 DEF SameStage, Stage
    <3>. QED  BY <2>2, <2>4, <3>3, <3>4, PublishKinds
  <2>8. CASE Unlink
    <3>1. /\ pc[0] = "unlink" /\ pc'[0] = "choose" /\ call' = call /\ linked' = linked \ {s}
          /\ segment' = segment
      BY <2>0, <2>8 DEF Unlink, Goto, Books, Types
    <3>2. linked = {s} /\ segment[s] = TableOf(s) /\ segment[s] # NoTable
      <4>1. linked = {s} /\ segment[s] = TableOf(s)
        BY <1>2, <2>2, <3>1 DEF Together, Segments
      <4>2. DOMAIN TableOf(s) = Resource(s) /\ DOMAIN NoTable = {}
        BY DEF TableOf, NoTable
      <4>. QED  BY <2>5, <4>1, <4>2
    <3>3. Stage(s) = "complete" /\ Stage(s)' = "withdrawn"
      BY <2>0, <3>1, <3>2 DEF Stage
    <3>4. ASSUME NEW k \in DOMAIN Calls \ {s} PROVE SameStage(k)
      <4>1. k \notin linked /\ k \notin linked' /\ segment'[k] = segment[k]
        BY <3>1, <3>2
      <4>. QED  BY <4>1 DEF SameStage, Stage
    <3>5. ASSUME NEW q \in Others PROVE HasMapped(q, s)
      <4>1. Position(q) /\ Turn(q) = s /\ Follows(q)
        BY <1>1, <2>2 DEF Positions, Together, Lockstep
      <4>2. Place(q) \in {"copy", "choose"} \cup Decided
        BY <2>2, <3>1, <4>1 DEF Follows, Missing
      <4>3. CASE pc[q] \in {"app", "start"}
        <5>1. s > 0 /\ s \in Nat
          BY CallsAre
        <5>2. Place(q) \in Result /\ Place(q) = answer[q][s] /\ s \in DOMAIN answer[q]
          BY <4>1, <4>3, <5>1 DEF Position
        <5>3. Place(q) \in Decided
          BY <4>2, <5>2 DEF Result
        <5>. QED  BY <5>2, <5>3 DEF HasMapped, Decided
      <4>4. CASE pc[q] \notin {"app", "start"}
        <5>1. pc[q] \in {"copy", "choose"} /\ call[q] = s
          BY <4>1, <4>2, <4>4, LabelIs DEF Position, Decided
        <5>. QED  BY <5>1 DEF HasMapped
      <4>. QED  BY <4>3, <4>4
    <3>. QED  BY <2>2, <2>4, <3>3, <3>4, <3>5, PublishKinds
  <2>. QED  BY <1>20, <2>6, <2>7, <2>8
<1>21. ASSUME NEW r \in Rank, Attach(r) PROVE Publication!Next
  <2>1. r \in Others /\ pc[r] = "attach"
    BY <1>21 DEF Attach, Books, Placed, OtherPlaces, Others
  <2>2. Place(r) = "attach" /\ Turn(r) = call[r] /\ Turn(r) = Turn(0) /\ Follows(r)
    BY <2>1, OtherAt
  <2>3. Place(0) = "collect" /\ chan[r] = <<>>
    BY <2>2 DEF Follows, Missing, Decided
  <2>4. UNCHANGED <<call, answer, linked, segment>> /\ Goto(r, "mapped")
    BY <1>21 DEF Attach
  <2>5. pc[0] = "collect" /\ Turn(0) = call[0] /\ call[0] \in DOMAIN Calls
    <3>1. pc[0] \notin {"app", "start"} /\ Place(0) = pc[0]
      BY <1>1, <2>3, LabelIs DEF Positions, Position, Result
    <3>. QED  BY <1>3, <2>3, <3>1
  <2>0. PICK s \in DOMAIN Calls : s = call[0]
    BY <2>5
  <2>6. Stage(s) = "complete"
    BY <1>2, <2>0, <2>5 DEF Stage
  <2>7. \A q \in Rank \ {r} : Still(q)
    BY <1>5, <2>1, <2>4
  <2>8. pc'[r] = "mapped" /\ call'[r] = s /\ answer'[r] = answer[r]
    BY <1>5, <2>0, <2>1, <2>2, <2>4, <2>5
  <2>9. HasMapped(r, s)'
    BY <2>4, <2>8 DEF HasMapped
  <2>10. \A k \in DOMAIN Calls : SameStage(k)
    <3>1. \A k \in DOMAIN Calls : k \in linked => Inside(k)' = Inside(k)
      BY <2>1, <2>7, RankIs DEF Inside, Still, Others
    <3>. QED  BY <2>4, <3>1, StageKept DEF SameStage
  <2>11. \A q \in Others \ {r} : \A k \in DOMAIN Calls : HasMapped(q, k)' <=> HasMapped(q, k)
    BY <1>1, <1>7, <2>7
  <2>12. ASSUME NEW k \in DOMAIN Calls \ {s} PROVE SameMapped(k)
    <3>1. HasMapped(r, k)' <=> HasMapped(r, k)
      BY <2>0, <2>2, <2>5, <2>8 DEF HasMapped
    <3>2. ASSUME NEW q \in Others PROVE HasMapped(q, k)' <=> HasMapped(q, k)
      <4>1. CASE q = r
        BY <3>1, <4>1
      <4>2. CASE q # r
        BY <2>11, <4>2
      <4>. QED  BY <4>1, <4>2
    <3>. QED  BY <3>2 DEF SameMapped
  <2>. QED  BY <2>1, <2>5, <2>6, <2>9, <2>10, <2>11, <2>12, PublishKinds
<1>. QED
  BY <1>8, <1>9, <1>10, <1>11, <1>12, <1>13, <1>14, <1>15, <1>16, <1>17, <1>18, <1>19, <1>20, <1>21
     DEF Next, LibraryStep, OtherStep, RootStep

\* Where only the path can fail to be made up, every call hands out its segment
\* as Publish promises: complete before the others map it, mapped by all of
\* them before it is unlinked.
THEOREM PublishesTables ==
    ASSUME Failing \subseteq {"path"}
    PROVE  Spec => Publishes
<1>1. Init => Publication!Init
  <2>. SUFFICES ASSUME Init PROVE Publication!Init
    OBVIOUS
  <2>. USE RankIs
  <2>1. \A k \in DOMAIN Calls : Stage(k) = "none"
    BY DEF Init, Stage
  <2>2. \A r \in Others, k \in DOMAIN Calls : ~HasMapped(r, k)
    <3>1. \A r \in Others : pc[r] = "app" /\ DOMAIN answer[r] = {}
      BY DEF Init, Others
    <3>. QED  BY <3>1, Zenon DEF HasMapped
  <2>3. Others \in SUBSET Rank
    BY DEF Others
  <2>. QED  BY <2>1, <2>2, <2>3 DEF Publication!Init
<1>2. Books /\ (FailedAlone \/ Together) /\ Fresh /\ ~FailedAlone /\ (~FailedAlone)' /\ [Next]_vars
          => [Publication!Next]_(Publication!vars)
  BY PublishStep
<1>3. Spec => []Sound /\ []Fresh /\ []~FailedAlone
  BY SoundAlways, FreshAlways, NobodyFailsAlone
<1>. QED  BY <1>1, <1>2, <1>3, PTL DEF Spec, Publishes, Publication!Spec, Sound

\* The same without the proviso: where only the path can fail to be made up,
\* every call decides from a snapshot, meets in its own barriers, attaches to
\* what is published, unlinks it, and selects as many ranks as it was asked to.
THEOREM AlwaysTogether ==
    ASSUME Failing \subseteq {"path"}
    PROVE  Spec => [](Snapshot /\ SamePhase /\ AttachesToPublished /\ NothingLinked /\ DecisionsAddUp)
BY NobodyFailsAlone, DecidesFromSnapshot, WaitsInPhase, AttachesWhenPublished, NothingStaysLinked,
   DecisionsTakenApart, PTL
===============================================================================
