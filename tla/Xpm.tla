---------------------------------- MODULE Xpm ----------------------------------
(***************************************************************************)
(* Cross-process memory (xpm/quo-xpm.c): the processes of a node allocate  *)
(* one shared segment together, and each of them finds its own part and    *)
(* the parts of the others by adding up the sizes they all asked for.      *)
(* Between allocations the processes do what tests/xpm-0.c does: write     *)
(* one's own part, QUO_barrier, read the parts of all.                     *)
(*                                                                         *)
(* Abstractions: MPI and memory allocation do not fail; a byte of memory   *)
(* holds who wrote it last; the segment has no padding up to a page, and   *)
(* a process that writes outside of it is gone.                            *)
(***************************************************************************)
EXTENDS Integers, Sequences, Functions

CONSTANTS
    N,          \* how many processes share the node
    Sizes,      \* for each successive allocation, the local sizes a rank may ask for
    SIZE_MOD,   \* 2^w for a size_t of w bits
    Names,      \* the paths made up from pid and rand(), which srand() may restart
    Failing     \* the steps that may fail: a subset of FailureKinds

FailureKinds == {"path", "open", "mmap", "attach"}

\* What the others are told in place of a path: nothing yet, or that there is none.
Untold == "untold"
NoPath == "no_path"

ASSUME XpmAssumption ==
    /\ N \in Nat \ {0}
    /\ SIZE_MOD \in Nat /\ SIZE_MOD > 1 /\ SIZE_MOD % 2 = 0
    /\ Sizes \in Seq(SUBSET (0 .. SIZE_MOD - 1))
    /\ Names # {} /\ Untold \notin Names /\ NoPath \notin Names
    /\ Failing \subseteq FailureKinds

Rank == 0 .. N - 1
Allocation == DOMAIN Sizes
Custodian == 0

\* The off_t of ftruncate() is as wide as a size_t and has a sign.
OFF_MAX == SIZE_MOD \div 2 - 1

VARIABLES
    pc,      \* rank -> where it is, "app" between allocations
    call,    \* rank -> how many allocations it has begun
    asked,   \* allocation -> the local sizes that have reached the allgather
    told,    \* allocation -> the path that rank 0 has broadcast
    file,    \* path -> the segment linked there, 0 for none
    mem,     \* the segments made so far: sequences of bytes
    held,    \* rank -> allocation -> the segment it has mapped, 0 for none
    waiting, \* the ranks blocked in the node's barrier
    answer   \* history: rank -> what each allocation returned

vars == <<pc, call, asked, told, file, mem, held, waiting, answer>>

(***************************************************************************)
(* Views: range_sum() and base_offset() over the local sizes, in size_t.   *)
(***************************************************************************)
\* The loop that adds up the sizes from start to end.
Added(sizes, start, end) ==
    LET total[i \in start - 1 .. end] == IF i < start THEN 0 ELSE total[i - 1] + sizes[i]
    IN  total[end]

RangeSum(sizes, start, end) == Added(sizes, start, end) % SIZE_MOD

\* Mutant: the offset counts the rank's own part.
BaseOffsetPast(sizes, qid) == RangeSum(sizes, 0, qid)

\* Mutant: every rank is taken to have asked for as much as rank 0.
BaseOffsetEven(sizes, qid) == (qid * sizes[0]) % SIZE_MOD

BaseOffset(sizes, qid) == RangeSum(sizes, 0, qid - 1)

\* QUO_xpm_view_by_qid_range
View(sizes, start, end) ==
    [base |-> BaseOffset(sizes, start), extent |-> RangeSum(sizes, start, end)]

\* QUO_xpm_view_by_qid
ViewOf(sizes, qid) == View(sizes, qid, qid)

GlobalSize(sizes) == RangeSum(sizes, 0, N - 1)

\* The bytes of a view, numbered from 1.
Bytes(view) == view.base + 1 .. view.base + view.extent

(***************************************************************************)
(* Init and helpers                                                        *)
(***************************************************************************)
Unasked == [r \in {} |-> 0]
Nobody == [alloc |-> 0, rank |-> 0]

Init ==
    /\ pc = [r \in Rank |-> "app"]
    /\ call = [r \in Rank |-> 0]
    /\ asked = [k \in Allocation |-> Unasked]
    /\ told = [k \in Allocation |-> Untold]
    /\ file = [p \in Names |-> 0]
    /\ mem = <<>>
    /\ held = [r \in Rank |-> [k \in Allocation |-> 0]]
    /\ waiting = {}
    /\ answer = [r \in Rank |-> <<>>]

Goto(r, label) == pc' = [pc EXCEPT ![r] = label]

Answer(r, result) == answer' = [answer EXCEPT ![r] = Append(@, result)]

Hold(r, segment) == held' = [held EXCEPT ![r][call[r]] = segment]

\* xpm_destruct(): the call fails and what it mapped, if anything, goes.
Fail(r, result) ==
    /\ Goto(r, "app")
    /\ Answer(r, result)
    /\ Hold(r, 0)

Succeed(r) == Goto(r, "use") /\ Answer(r, "SUCCESS")

\* local_sizes: what the allgather of the rank's latest allocation returns.
Local(r) == asked[call[r]]

(***************************************************************************)
(* QUO_xpm_allocate: the allgather of the local sizes ...                  *)
(***************************************************************************)
\* One more size reaches the allgather.
With(sizes, r, size) ==
    [q \in DOMAIN sizes \cup {r} |-> IF q = r THEN size ELSE sizes[q]]

Allocate(r, size) ==
    /\ pc[r] = "app"
    /\ call[r] < Len(Sizes)
    /\ Goto(r, "gather")
    /\ call' = [call EXCEPT ![r] = @ + 1]
    /\ asked' = [asked EXCEPT ![call[r] + 1] = With(@, r, size)]
    /\ UNCHANGED <<told, file, mem, held, waiting, answer>>

Gather(r) ==
    /\ pc[r] = "gather"
    /\ DOMAIN Local(r) = Rank
    /\ Goto(r, "path")
    /\ UNCHANGED <<call, asked, told, file, mem, held, waiting, answer>>

(***************************************************************************)
(* ... the broadcast of the segment's path, or of the lack of one ...      *)
(***************************************************************************)
TellPath(p) ==
    /\ pc[Custodian] = "path"
    /\ told' = [told EXCEPT ![call[Custodian]] = p]
    /\ Goto(Custodian, "create")
    /\ UNCHANGED <<call, asked, file, mem, held, waiting, answer>>

TellNoPath ==
    /\ pc[Custodian] = "path"
    /\ "path" \in Failing
    /\ told' = [told EXCEPT ![call[Custodian]] = NoPath]
    /\ Fail(Custodian, "NO_PATH")
    /\ UNCHANGED <<call, asked, file, mem, waiting>>

\* Mutant: the others do not look at what they are told.
HearAnyPath(r) ==
    /\ r # Custodian
    /\ pc[r] = "path"
    /\ told[call[r]] # Untold
    /\ Goto(r, "sized")
    /\ UNCHANGED <<call, asked, told, file, mem, held, waiting, answer>>

HearPath(r) ==
    /\ r # Custodian
    /\ pc[r] = "path"
    /\ told[call[r]] # Untold
    /\ IF told[call[r]] = NoPath
       THEN Fail(r, "NO_PATH")
       ELSE Goto(r, "sized") /\ UNCHANGED <<held, answer>>
    /\ UNCHANGED <<call, asked, told, file, mem, waiting>>

(***************************************************************************)
(* ... quo_sm_segment_create: open() without O_EXCL or O_TRUNC, so a file  *)
(* that is still there is taken and resized; ftruncate(); mmap() ...       *)
(***************************************************************************)
Resized(bytes, size) ==
    [i \in 1 .. size |-> IF i \in DOMAIN bytes THEN bytes[i] ELSE Nobody]

\* The file that open() finds or makes at the path, with ftruncate()'s size.
OpenFile(size) ==
    LET p == told[call[Custodian]]
    IN  IF file[p] # 0
        THEN mem' = [mem EXCEPT ![file[p]] = Resized(@, size)] /\ UNCHANGED file
        ELSE /\ mem' = Append(mem, Resized(<<>>, size))
             /\ file' = [file EXCEPT ![p] = Len(mem')]

CreatedSize == GlobalSize(Local(Custodian))

Create ==
    /\ pc[Custodian] = "create"
    /\ CreatedSize \in 1 .. OFF_MAX
    /\ OpenFile(CreatedSize)
    /\ Hold(Custodian, file'[told[call[Custodian]]])
    /\ Goto(Custodian, "published")
    /\ UNCHANGED <<call, asked, told, waiting, answer>>

OpenFailure ==
    /\ pc[Custodian] = "create"
    /\ "open" \in Failing
    /\ Fail(Custodian, "open")
    /\ UNCHANGED <<call, asked, told, file, mem, waiting>>

\* The file stays, with the size it had.
SizeFailure ==
    /\ pc[Custodian] = "create"
    /\ CreatedSize > OFF_MAX
    /\ IF file[told[call[Custodian]]] = 0 THEN OpenFile(0) ELSE UNCHANGED <<file, mem>>
    /\ Fail(Custodian, "ftruncate")
    /\ UNCHANGED <<call, asked, told, waiting>>

\* mmap() refuses a length of zero.  The file stays.
MapFailure ==
    /\ pc[Custodian] = "create"
    /\ CreatedSize <= OFF_MAX
    /\ CreatedSize = 0 \/ "mmap" \in Failing
    /\ OpenFile(CreatedSize)
    /\ Fail(Custodian, "mmap")
    /\ UNCHANGED <<call, asked, told, waiting>>

(***************************************************************************)
(* ... quo_sm_segment_attach by the others and the unlink, with a barrier  *)
(* before and after.                                                       *)
(***************************************************************************)
\* Mutant: the custodian does not wait for the others to attach.
BeyondEarly ==
    [published |-> "unlink", sized |-> "attach", mapped |-> "done", sync |-> "read"]

\* Where a rank goes on after the barrier it waits at.
Beyond ==
    [published |-> "collect", collect |-> "unlink",     \* the custodian
     sized     |-> "attach",  mapped  |-> "done",       \* the others
     sync      |-> "read"]                              \* QUO_barrier

\* Mutant: the last to arrive waits like the others.
ArriveForEver(r) ==
    /\ pc[r] \in DOMAIN Beyond
    /\ r \notin waiting
    /\ waiting' = waiting \cup {r}
    /\ UNCHANGED <<pc, call, asked, told, file, mem, held, answer>>

\* quo_mpi_sm_barrier
Arrive(r) ==
    /\ pc[r] \in DOMAIN Beyond
    /\ r \notin waiting
    /\ IF waiting \cup {r} = Rank
       THEN /\ waiting' = {}
            /\ pc' = [q \in Rank |-> Beyond[pc[q]]]
       ELSE /\ waiting' = waiting \cup {r}
            /\ UNCHANGED pc
    /\ UNCHANGED <<call, asked, told, file, mem, held, answer>>

Attach(r) ==
    /\ pc[r] = "attach"
    /\ file[told[call[r]]] # 0
    /\ Hold(r, file[told[call[r]]])
    /\ Goto(r, "mapped")
    /\ UNCHANGED <<call, asked, told, file, mem, waiting, answer>>

AttachFailure(r) ==
    /\ pc[r] = "attach"
    /\ file[told[call[r]]] = 0 \/ "attach" \in Failing
    /\ Fail(r, "attach")
    /\ UNCHANGED <<call, asked, told, file, mem, waiting>>

\* Mutant: the file outlives the allocation.
KeepLinked ==
    /\ pc[Custodian] = "unlink"
    /\ Succeed(Custodian)
    /\ UNCHANGED <<call, asked, told, file, mem, held, waiting>>

Unlink ==
    /\ pc[Custodian] = "unlink"
    /\ file' = [file EXCEPT ![told[call[Custodian]]] = 0]
    /\ Succeed(Custodian)
    /\ UNCHANGED <<call, asked, told, mem, held, waiting>>

Finish(r) ==
    /\ pc[r] = "done"
    /\ Succeed(r)
    /\ UNCHANGED <<call, asked, told, file, mem, held, waiting>>

(***************************************************************************)
(* The application                                                         *)
(***************************************************************************)
\* QUO_xpm_view_local, and a stamp in every byte of it.
OwnBytes(r) == Bytes(ViewOf(Local(r), r))

Segment(r) == held[r][call[r]]

Write(r) ==
    /\ pc[r] = "use"
    /\ OwnBytes(r) \subseteq DOMAIN mem[Segment(r)]
    /\ mem' = [mem EXCEPT ![Segment(r)] =
                  [i \in DOMAIN @ |-> IF i \in OwnBytes(r)
                                      THEN [alloc |-> call[r], rank |-> r] ELSE @[i]]]
    /\ Goto(r, "sync")
    /\ UNCHANGED <<call, asked, told, file, held, waiting, answer>>

Overstep(r) ==
    /\ pc[r] = "use"
    /\ ~(OwnBytes(r) \subseteq DOMAIN mem[Segment(r)])
    /\ Goto(r, "gone")
    /\ UNCHANGED <<call, asked, told, file, mem, held, waiting, answer>>

\* It has read all it wants of the parts of the others.
Read(r) ==
    /\ pc[r] = "read"
    /\ Goto(r, "app")
    /\ UNCHANGED <<call, asked, told, file, mem, held, waiting, answer>>

\* QUO_xpm_free, now or with a later allocation still in use.
Free(r, k) ==
    /\ pc[r] = "app"
    /\ held[r][k] # 0
    /\ held' = [held EXCEPT ![r][k] = 0]
    /\ UNCHANGED <<pc, call, asked, told, file, mem, waiting, answer>>

CustodianStep ==
    \/ \E p \in Names : TellPath(p)
    \/ TellNoPath \/ Create \/ OpenFailure \/ SizeFailure \/ MapFailure \/ Unlink

LibraryStep(r) ==
    \/ Gather(r) \/ HearPath(r) \/ Arrive(r) \/ Attach(r) \/ AttachFailure(r) \/ Finish(r)
    \/ r = Custodian /\ CustodianStep

Allocates(r) == call[r] < Len(Sizes) /\ \E size \in Sizes[call[r] + 1] : Allocate(r, size)

ApplicationStep(r) == Allocates(r) \/ Write(r) \/ Overstep(r) \/ Read(r)

Next ==
    \E r \in Rank :
        LibraryStep(r) \/ ApplicationStep(r) \/ \E k \in Allocation : Free(r, k)

\* A rank that is not blocked keeps running, and allocations are collective.
Fairness == \A r \in Rank : WF_vars(LibraryStep(r)) /\ WF_vars(ApplicationStep(r))

Spec == Init /\ [][Next]_vars /\ Fairness

(***************************************************************************)
(* Properties                                                              *)
(***************************************************************************)
Label == {"app", "gather", "path", "create", "attach", "unlink", "done", "use", "read",
          "gone"} \cup DOMAIN Beyond

Result == {"SUCCESS", "NO_PATH", "open", "ftruncate", "mmap", "attach"}

Byte == {Nobody} \cup [alloc : Allocation, rank : Rank]

TypeOK ==
    /\ pc \in [Rank -> Label]
    /\ call \in [Rank -> 0 .. Len(Sizes)]
    /\ \A k \in Allocation : /\ DOMAIN asked[k] \subseteq Rank
                             /\ Range(asked[k]) \subseteq Sizes[k]
    /\ told \in [Allocation -> Names \cup {Untold, NoPath}]
    /\ file \in [Names -> 0 .. Len(mem)]
    /\ mem \in Seq(Seq(Byte)) /\ \A id \in DOMAIN mem : Len(mem[id]) <= OFF_MAX
    /\ held \in [Rank -> [Allocation -> 0 .. Len(mem)]]
    /\ waiting \in (SUBSET Rank) \ {Rank}
    /\ answer \in [Rank -> Seq(Result)]

Allocated(r, k) == k \in DOMAIN answer[r] /\ answer[r][k] = "SUCCESS"

Sum(k) == Added(asked[k], 0, N - 1)

\* The views that an allocation hands out tile its segment, one rank after the
\* other, and the view of a range of ranks is the union of theirs: exactly when
\* the sizes together fit a size_t.  When they do not, the allocation succeeds
\* all the same and some view reaches beyond the segment.
TilesUnlessWrapped ==
    \A r \in Rank, k \in Allocation :
        Allocated(r, k) /\ held[r][k] # 0 =>
            LET view == [q \in Rank |-> Bytes(ViewOf(asked[k], q))]
                segment == DOMAIN mem[held[r][k]]
            IN  IF Sum(k) < SIZE_MOD
                THEN /\ UNION Range(view) = segment
                     /\ \A a, b \in Rank :
                            /\ a < b => \A i \in view[a], j \in view[b] : i < j
                            /\ a <= b => Bytes(View(asked[k], a, b))
                                            = UNION {view[q] : q \in a .. b}
                ELSE \E q \in Rank : ~(view[q] \subseteq segment)

\* After the barrier a rank finds in the view of every rank what that rank
\* wrote there, in the latest allocation and in the older ones it still holds,
\* although others may already be freeing, or writing to the next one.
ReadsBack ==
    \A r \in Rank : pc[r] = "read" =>
        \A k \in Allocation : held[r][k] # 0 =>
            \A q \in Rank : \A i \in Bytes(ViewOf(asked[k], q)) :
                mem[held[r][k]][i] = [alloc |-> k, rank |-> q]

\* Two allocations never share memory, though their paths may be the same
\* (srand(time(NULL)) in every QUO_create, rand() in every path) and open()
\* does not ask for a new file: the path is free again before it is reused.
\* All the ranks of one allocation share one segment.
Apart ==
    \A q, r \in Rank, j, k \in Allocation :
        held[q][j] # 0 /\ held[r][k] # 0 => (held[q][j] = held[r][k] <=> j = k)

LeftFile(k) ==
    k \in DOMAIN answer[Custodian] /\ answer[Custodian][k] \in {"ftruncate", "mmap"}

\* A path is linked only while the custodian is inside the allocation that
\* made it, or when that allocation failed after open(): those files stay.
LinkedOnlyInside ==
    \A p \in Names : file[p] # 0 =>
        \E k \in Allocation :
            /\ told[k] = p
            /\ \/ /\ k = call[Custodian]
                  /\ held[Custodian][k] = file[p]
                  /\ pc[Custodian] \in {"published", "collect", "unlink"}
               \/ LeftFile(k)

\* Every allocation publishes its segment as Publish promises: made and sized
\* in full, then mapped by the others, then unlinked.
Stage(k) ==
    CASE Allocated(Custodian, k) -> "withdrawn"
      [] LeftFile(k) -> "made"
      [] held[Custodian][k] # 0 /\ ~Allocated(Custodian, k) -> "complete"
      [] OTHER -> "none"

Publication ==
    INSTANCE Publish WITH
        Segments  <- Allocation,
        Processes <- Rank,
        readers   <- [k \in Allocation |-> Rank \ {Custodian}],
        stage     <- [k \in Allocation |-> Stage(k)],
        mapped    <- [k \in Allocation |->
                         {r \in Rank \ {Custodian} : held[r][k] # 0 \/ Allocated(r, k)}]

Publishes == Publication!Spec

\* A rank fails alone, or is gone, and the others are not told.
LeftAlone ==
    \E r \in Rank : pc[r] = "gone" \/ Range(answer[r]) \cap {"open", "ftruncate", "mmap", "attach"} # {}

\* No rank waits for ever in an allocation or in QUO_barrier unless one was left alone.
ReturnsUnlessLeftAlone == \A r \in Rank : pc[r] # "app" ~> pc[r] = "app" \/ LeftAlone

===============================================================================
