# A TLA+ model of libquo

libquo lets the processes of an MPI job rebind themselves to parts of a compute
node, agree on which of them work in the next phase, and wait quietly while the
others do. This directory models the parts of it where processes, contexts or
failing calls meet, and checks them with TLC. TLAPS proves their safety properties for
any number of ranks, contexts and resources, any topology and any sizes: those of the bind
stack and its C++ guards, of context creation, automatic distribution, cross-process memory
and the k-set intersection, and of the bitmaps beneath them that hold every cpuset, for words
of any width and bitmaps of any length. Paths below are relative to the repository, whose library sources are in `src/`.

## 1. The system

| component | state | operations | correct when |
|---|---|---|---|
| bind stack, `src/quo-hwloc.c` | per context: a stack of cpusets of at most `BIND_STACK_SIZE` entries; per process: the affinity mask of the OS, shared by all its contexts | `QUO_bind_push`, `QUO_bind_pop`; the initial push of `QUO_create`; `QUO_free` | a pop restores what was in force before the push it undoes; failing calls leave stack and mask in step |
| topology queries, `src/quo-hwloc.c` | the loaded topology, restricted under `QUO_CREATE_NO_MT` | object by type, covering object, counts, is-in-cpuset | every rank of a node sees the same objects |
| context creation, `src/quo.c`, `src/quo-mpi.c`, `src/quo-hwloc.c` | per rank: node communicator, node rank, barrier segment, topology | `QUO_create` = `quo_mpi_init`, then `quo_hwloc_init` | nodes are hosts; the barrier exists before it is used; everybody gets the topology or an error |
| node communication, `src/quo-mpi.c` | a process-shared pthread barrier in shared memory | `QUO_barrier`, broadcast, allgather, agreeing on a unique path | ranks in the barrier are in the same barrier |
| shared-memory segments, `src/quo-sm.c` | file name, mapping, size | create, attach, unlink, unmap | no attach before publication or after the unlink, no file left behind |
| automatic distribution, `src/quo-auto-distrib.c` | a table of the ranks over each resource, published by node rank 0 | `QUO_auto_distrib` | all ranks decide from one snapshot of the affinities; the decisions add up |
| k-set intersection, `src/quo-set.c` | local | `quo_set_get_k_set_intersection` | exactly the elements of two lists or more |
| cross-process memory, `src/xpm/quo-xpm.c` | one segment per allocation, the local sizes | allocate, free, views | views tile the segment |
| C++ bindings, `src/cxx/` | `BindGuard`: a push tied to a scope | constructor, destructor | constructor and destructor balance |
| Fortran bindings, utilities, `quo-info`, tests, demos | none | forwarders, OS calls, printing | not modelled: no control of their own |
| hwloc bitmaps, `src/hwloc/hwloc/bitmap.c` | an array of words and a flag for all indices beyond it | set, clear, ranges, combinations, comparisons | a bitmap is a set, whatever its number of words |
| the rest of hwloc, `src/hwloc/` | vendored library: the topology tree and its back ends | load, restrict, query, bind | modelled where libquo meets it (`Topology`) |

How they interact. A context owns a topology, a bind stack and a node
communicator. `QUO_create` builds the node communicator with MPI collectives, sets
up a pthread barrier in a shared-memory segment, then uses that barrier to hand
the topology loaded by node rank 0 to the other ranks. `QUO_auto_distrib` reads
the affinity of every rank of the node through the OS, publishes the result
through a segment with the same barrier, and each rank runs the k-set
intersection on its copy. `QUO_xpm_allocate` uses the same barrier and the same
steps to hand out a segment that the application then shares. Nothing in the library is locked; what orders the
processes are collectives, broadcasts and barriers.

What is hard here:

- Several contexts of one process (an application and the libraries it calls, as
  in `demos/callee-driven-ex-p0.c`) keep separate stacks for one mask.
- Push and pop change the mask and the stack in two steps, either of which can
  fail after the other has been done.
- Publication: create, fill, barrier, attach, barrier, unlink. Steps out of order
  are invisible to a test on an idle machine.
- All barriers of a node are one barrier; one that is skipped does not show as an
  error but pairs the wrong steps of the ranks from then on.
- The path of a segment is made of the pid and `rand()`, which every `QUO_create`
  seeds anew: two allocations may well get one path.
- A guard whose constructor throws never runs its destructor, and a destructor that
  throws ends the process.
- Errors are returned by the rank that meets them. Only the exchange of the path
  tells the others.

`PROJECT.json` lists these hazards at their lines, with the properties that cover
them.

## 2. Modules

| module | what it is |
|---|---|
| `Topology` | the hardware of a node as lists of cpusets per object type; the queries; the `QUO_CREATE_NO_MT` restriction |
| `BindScope` | abstract: what one context promises about the affinity of its process |
| `BindStack` | the stacks of all contexts of a process over one mask |
| `BindGuard` | the C++ contexts and guards on top of `BindStack` |
| `BindStackProofs`, `BindGuardProofs` | theorems about `BindStack`, its refinement of `BindScope`, and `BindGuard` |
| `Publish` | abstract: a segment is made, completed, mapped by its readers, withdrawn |
| `CreateContext` | `QUO_create` on all the ranks of a communicator |
| `AutoDistrib` | `QUO_auto_distrib` on all the ranks of a node, call after call |
| `Xpm` | `QUO_xpm_allocate`, `QUO_xpm_free` and the views, on all the ranks of a node, with an application that uses them |
| `KSetIntersection` | the intersection loops |
| `CreateContextProofs`, `AutoDistribProofs`, `XpmProofs`, `KSetIntersectionProofs` | theorems about these four |
| `DataLemmas` | facts about numbers, sets, sequences and queues that the proofs share |
| `CpuSet` | abstract: a bitmap is a set of indices |
| `Bitmap` | hwloc's bitmaps, word by word |
| `BitmapProofs` | theorems about `Bitmap`, and that it implements `CpuSet` |
| `MC*` | the instances that TLC checks |

`BindStack`, `CreateContext` and `AutoDistrib` extend `Topology`; `BindGuard` extends
`BindStack` and adds its own state to it. Refinement mappings lead from `BindStack` to
`BindScope`, from `BindGuard` to `BindStack`, from `CreateContext` (its two segments),
`AutoDistrib` and `Xpm` to `Publish`, and from `Bitmap` to `CpuSet`.

### Topology

An object is its cpuset, and a level is the sequence of its objects in logical
order. `DisableHT` keeps the first processing unit of every core, as
`topo_disable_ht()` and `hwloc_topology_restrict()` do together: emptied objects
go, NUMA nodes stay. `VisibleBinding` and `Bindable` are the two conversions at
the OS boundary: hwloc reads the mask up to the last unit the topology has, and
refuses to bind to an empty set or to one that the topology does not contain.

### BindStack

`os` is the mask; `ctx[c]` has the stack, whether the context exists and whether it was
created with `QUO_CREATE_NO_MT`; `rc` is what the last call returned. Every return
path of a call is an action:

| action | code path |
|---|---|
| `PushRejected` | invalid policy, unknown object, nothing covers the binding |
| `PushRefused` | `hwloc_set_cpubind` fails |
| `PushDone` | bound, and the binding read back and recorded |
| `PushOverrun` | bound, but the stack is full: `QUO_ERR_OOR` with the new binding in force |
| `PopEmpty`, `PopLast` | nothing to pop; nothing left after the pop: `QUO_ERR_POP`, the entry is gone |
| `PopRefused` | the top is gone and `hwloc_set_cpubind` fails |
| `PopDone` | back to the entry below |

`Push` and `Pop` are `QUO_bind_push` and `QUO_bind_pop`, which answer only for a context that
exists, and make one of these steps.

`undo` is a history variable: for each entry that a push added, the mask before
that push and whether the top of the stack recorded that mask at the time. It
exists to state what a pop should restore.

Left out: allocation failures and a failing read of the affinity.

### BindGuard

A `quo::Context` is created without flags; `scoped` are the contexts that are used
through guards alone, and any others are used through the C interface. `Enter` is the
constructor of a guard: a push, and a guard that is alive only if the push succeeded,
because otherwise the constructor throws. `Exit` is the destructor: a pop, and
`std::terminate()` if the pop throws, since destructors are noexcept. `guards` is the
list of the masks before the guards alive, `found` (history) what a context found.
Left out: copies of a guard (the class allows them; nothing in the repository makes
one), and guards that outlive their context.

### Publish

Four stages of a segment and the set of its readers that have mapped it. Nobody maps
a segment that is not complete, nobody misses it because it was withdrawn, and it is
withdrawn only when all of its readers have it.

### CreateContext

One action per step of a rank, from resolving the host's name to the return. A
*meeting* is any call that synchronises its members (`MPI_Allgather`,
`MPI_Comm_split`, `MPI_Allreduce`, `MPI_Barrier`, the pthread barrier): a rank
leaves its n-th meeting of a kind when every member has come to n of them. So a
rank that leaves one out is paired with the wrong meeting of the others, as MPI
and the barrier would pair it. A broadcast is a queue per receiver.

`netnums` is the order `qsort` leaves the host numbers in. `cmp_uli` truncates
to an int, so it is not an order, and the model allows every permutation.

Each of the steps in `FailureKinds` may fail. Only the failure to make up a path is
announced to the other ranks. The initial push at the end is in `BindStack.Create`.
Left out: MPI and allocation failures, and the release of communicators after a
failure.

### AutoDistrib

One action per step of a rank in `QUO_auto_distrib`; between calls a rank may
rebind itself at any time. Node rank 0 queries one affinity at a time, so queries
interleave with everything else. The barrier is a set of waiting ranks; `Beyond`
says where each waiting rank goes on. `waiting` does not say which barrier of which call
a rank waits for, because the pthread barrier does not know either. `entered` and
`answer` are histories of the affinities at the entry of each call and of the
results.

### Xpm

One action per step of a rank, from the allgather of the local sizes to the return.
Sizes are numbers modulo `SIZE_MOD`, and the size of a file has a sign, as
`ftruncate` takes it. `open()` asks neither for a new file nor for an empty one, so `OpenFile`
takes a file that is still linked at the path and resizes it; paths come from the set
`Names`, which is small enough for them to repeat. A byte of a segment holds who wrote
it last. The application is that of `tests/xpm-0.c`: write one's own view, `QUO_barrier`,
read all views, and free at any time after that. A rank that writes outside of its
mapping is `gone`. Left out: the padding of a mapping to a whole page, inside which
such a write would go unnoticed.

### KSetIntersection

One action per iteration of the outer merge loop, including its inner scans. The
lists are merged in every ordered pair, `(a, b)` and `(b, a)`. A merge that finds two
different heads passes both, so one merge can miss a common element; the claim
checked is that the two orders together miss none.

### Bitmap

A bitmap is its words (`count` of them, each the set of its bits) and whether it is
`infinite`. One action per call that changes a bitmap, in terms of the two helpers that
the code uses: `Realloc` grows a bitmap and keeps its members, `Reset` gives it the
words that a result needs and leaves in them what was there, or `Stale` if nothing
was. The result of a combination may be an operand, so operands are read from the
state after the reset, with the counts from before it, as the code does. The calls
that only look are operators, compared with their meaning in the invariants.

Left out: the prealloc and growth policy of the memory (only whether a word is valid
matters), the conversions to and from strings, `hwloc_bitmap_from_ulongs` (a caller
that passes no words at all would break the rule that there is at least one).

## 3. What is checked

| run | asks | bounds |
|---|---|---|
| `bind_single` | `TypeOK`, `TopInForce`, `KeepsScope` (refinement) for one context | stack of 4, ten requests that cover every answer of `rebind`, three launch masks, OS never refuses |
| `bind_shared` | `UndoAligned`, `PopReverts`, `BalancedScopes`, `TerminatesOnlyIfRefused`, `OutermostRestores` for two contexts, each with guards or without, either flag, OS may refuse | stack of 3, two requests, one absolute and one relative to the mask |
| `bind_nested_doc` | is the sentence of `quo.h` about pop true with two contexts? No | as above, no refusals |
| `bind_nomt_doc` | is it true with `QUO_CREATE_NO_MT`? No | one context |
| `create` | `NodesAreHosts`, `FindsPublished`, `SameTopology`, `NothingLeftLinked`, `Publishes` (refinement), `ReturnsUnlessLeftAlone` | three ranks on one, two and three hosts, every order of the host numbers, every failure |
| `kset` | `FindsAllShared`, `PairsComplete`, `Terminates` | all pairs of lists over 0..4, all triples over 0..2, malformed lists |
| `distrib` | `Snapshot`, `SamePhase`, `AttachesToPublished`, `NothingLinked`, `Publishes`, `DecisionsAddUp` | three ranks, three affinities, two calls with different types |
| `distrib_failures` | `AgreeUntilFailure`, `ReturnUntilFailure` | two ranks, two affinities, four calls (one on a type with no objects, one on an unknown type), every failure |
| `xpm` | `TilesUnlessWrapped`, `ReadsBack`, `Apart`, `LinkedOnlyInside`, `Publishes`, `ReturnsUnlessLeftAlone` | three ranks, two allocations under one path, sizes that add up to zero, fit, exceed an `off_t` and wrap, every failure |
| `bitmap` | `Implements` (refinement), `AnswersExact`, `OrdersBySets`, `InclusionExact` | two bitmaps and a temporary, up to three words of two bits, every argument |
| `distrib_max_doc` | does the maximum of `quo.h` hold? No | three ranks, one call |
| `distrib_retry_doc` | does the first barrier still protect the snapshot after a failed call? No | two ranks, one failure kind |

The bounds are enough for these reasons. A stack of 3 has a bottom, a middle and a
top entry and overruns after two pushes; a fourth entry in `bind_single` separates
"one below the top" from "the bottom". Two contexts suffice to make an entry stale.
Three ranks give node rank 0 two followers that can drift apart, and two calls let one
be in the next call while another is in this one; a third call would need a rank
two calls ahead, which the first barrier rules out. With failures a third follower
only repeats the second, so two ranks do, and four calls let a failure be followed by
calls that end in every way. Two allocations under
one path let an allocation meet the file, the memory and the slow readers of the one
before. Three words of two bits give a range a word between those of its ends and each
word an edge on both sides; three different bitmaps occur when the result is the temporary
one, and fewer are the aliased cases. In `MCBitmap` the view leaves out the history `call`,
which no state depends on; the refinement is checked on every transition all the same. A list of five elements
has room for a skip before, at and after a shared element.

### What the runs show

*Bind stack.* For one context the stack is a faithful implementation of
`BindScope`, whose two exceptions are worth knowing: a push on a full stack changes
the binding although it reports failure, and a pop too many forgets the initial
binding. With several contexts, stack entries never lie about what
their own context recorded (`UndoAligned`), and a pop restores the mask of before the
push if the context had seen that mask (`PopReverts`). Without this proviso the
sentence "To revert to the previous binding policy call QUO_bind_pop." (`src/quo.h`)
does not hold, not even for properly nested calls: when the application and a library
have created their contexts `A` and `B`, and then `A.push B.push B.pop` run, the pop
brings back what `B` found when it was created and not the binding of `A.push`
(`bind_nested_doc`). With `QUO_CREATE_NO_MT` the initial
entry is the affinity of the launch, which the restricted topology may not be able to
bind to: the pop fails and the entry is lost (`bind_nomt_doc`).

*Guards.* Scopes balance: each guard alive has one stack entry, also after constructors
that threw. Leaving the outermost scope restores what the context found, also when other
contexts have rebound the process in between. A guard's destructor ends the process
exactly when the OS refuses a binding that the process may have.

*Creation.* Whatever order `qsort` produces, ranks are grouped by host. No rank
attaches too early or too late. Restricting a restricted topology changes
nothing, so all the ranks see the same objects. A rank that fails alone can
leave others waiting for ever, but only on its own node and before its last barrier,
unless resolving its host name failed.

*Distribution.* Without failures the protocol gives every rank the same snapshot and
leaves no file. The decisions fill every resource up to the maximum with the
ranks that cover it alone. When all ranks share, `max * nres` of them are selected
without regard to what they cover: three ranks that all cover units 1 and 2 of three are
all selected at a maximum of one (`distrib_max_doc`; `src/quo.h` promises "The
total number of processes assigned to a particular resource will not exceed
max_qids_per_res_type."). A failure of one rank alone breaks
the pairing of the barriers for all later calls (`distrib_retry_doc`).

*Cross-process memory.* The views tile the segment exactly when the sizes together
fit a `size_t`; when the sum wraps, the call succeeds and some views lie outside of the segment.
After a barrier everybody reads what was written, although faster ranks may be freeing,
or be in the next allocation under the same path. A file stays behind only when sizing or
mapping it failed for rank 0. A rank that fails alone, among them rank 0 when all ask
for nothing, blocks the others for good.

*Bitmaps.* They are sets under every sequence of calls, aliased or not, and all questions
are answered exactly, with one exception that `ComparesTails` spells out:
`hwloc_bitmap_compare_first` on an empty bitmap and one that has all its members in the
infinite tail takes the empty one for the smaller, where `src/hwloc/include/hwloc/bitmap.h`
says "The empty bitmap is considered higher than anything". The last line of the function
subtracts in the order that `hwloc_bitmap_compare` needs. hwloc only compares sets of
objects with it, which are finite.

### Fairness

`CreateContext`, `AutoDistrib` and `Xpm` assume weak fairness of every rank's library steps:
a process that is not blocked is scheduled by the OS. `AutoDistrib` assumes also that
each rank makes all of the calls, which is what a collective call requires of the
application; `Xpm` assumes that the application goes on to the barrier and the next
allocation, but not that it frees anything. Steps that fail are part of the same fair action, so
nothing is assumed about failures. `KSetIntersection` assumes weak fairness of its
one process. `BindStack`, `BindGuard` and `Bitmap` state no liveness: their calls return at once.

`CHECK_DEADLOCK FALSE` is set where a rank that fails alone leaves the others blocked, or
where all the ranks have returned for good: `create`, `xpm`, `distrib_failures`,
`distrib_retry_doc`; and in `bind_shared`, where a process that has terminated stops.

## 4. What is proved

`BindStackProofs`, for every topology, any set of contexts, any `BIND_STACK_SIZE`, any
requests and any refusals of the OS:

- `Typing`: `Spec => []TypeOK`. The stack never outgrows its limit and the mask is never
  empty. The step for a push needs that a bindable set is a non-empty set of processing units.
- `FaithfulLog`: `Spec => []UndoAligned`. `UndoAligned` is inductive together with
  `TypeOK`: the history and the stack end together and differ in length by 0 or 1 (the
  initial entry). A push adds to both, a pop takes from both, everything else leaves
  both alone; appending and dropping the last elements are lemmas about sequences.
- `PopRevertsThm`: `Spec => PopReverts`, from `UndoAligned` at the popped entry.

There also, under the assumption `Alone` (one context, no `QUO_CREATE_NO_MT`, an OS
that never refuses):

- `TopInForceThm`: the top of the stack is the mask. Inductive together with
  `TypeOK` and `RecordedBindable` (no entry is empty, so that no pop is refused: a refused
  pop would lose the top and leave the mask).
- `KeepsScopeThm`: `Spec => Scope!Spec`, the refinement. The mapping takes the mask for the
  current binding and the entries below the top for the bindings to return to; each
  action maps to an action of `BindScope` or to a stutter.

`BindGuardProofs`, for any constants as well:

- `GuardsRefine`: `GuardSpec => Spec`, the behaviours of the guards are behaviours of the C
  interface. `Typing` and `FaithfulLog` carry over by it.
- `BalancedScopesThm`, from the inductive invariant `GuardInv`: `BalancedScopes` together
  with the fact that a context that does not exist, or is not used through guards, has none
  (else a new context could start out of step). A constructor appends to the guards, the
  history and the stack, or to none of them; a destructor drops the last of each, or ends the
  process. Other contexts leave all of this alone (`OthersUntouched`).
- `OutermostRestoresThm`, from the same invariant: below the last guard is the initial entry.
- `TerminatesOnlyIfRefusedThm`, which needs that entries of such contexts are never empty and lie
  inside the topology (`ScopedBindings`).

`KSetIntersectionProofs`, for any lists of integers, of any number and length:

- `KSetTyping`, `PairsCompleteThm`, `FindsAllSharedThm`, from the inductive invariant `LoopInv`:
  what two lists share before their current positions has been collected or is *given up* by
  this merge. A merge of `(A, B)` gives up `x` only when `A` has an element below `x` but above all
  that `B` has below `x` (`Ahead`). The opposite merge needs the opposite, so `NotBothAhead`: the two
  cannot both miss `x`. When the loops end, every ordered pair has been through.

`AutoDistribProofs`, for any number of ranks, any topology, any calls and affinities:

- The inductive invariant is `Sound == Books /\ (FailedAlone \/ Together)`. `Books` is what each
  rank knows by itself: typing, where it can be, what it entered its call with. `Together` is about
  several: a rank has a *turn* (a call) and a *place* in it, all the ranks have the same turn, and
  `Follows` says for every place of rank 0 where another can be and which broadcasts it has yet
  to receive. Then come the contents: the part of the table that rank 0 has read, the segments, the
  copies, the decisions. The invariant needs the turn, because the barrier does not know which use
  of it a rank waits for.
- With every failure of the model: `AutoDistribTyping`, `AgreesUntilFailure`, and, unless a rank has
  failed alone so far, `DecidesFromSnapshot`, `WaitsInPhase`, `AttachesWhenPublished`,
  `NothingStaysLinked`, `DecisionsTakenApart`. The proviso is needed: `distrib_retry_doc` shows what
  happens without it.
- Under `Failing \subseteq {"path"}` (the one failure that is announced): nobody fails alone
  (`NobodyFailsAlone`), so the same hold without a proviso (`AlwaysTogether`), and the calls
  implement `Publish` (`PublishesTables`). `MCDistrib` is an instance of this case.
- `DecisionsTakenApart` needs that the ranks count alike: each of them selects itself by its position
  among the ranks that it competes with, and the first `m` of a set are `m` of them, or all
  (`FirstAmongCount`, `LowerRanks`, and the pigeonhole principle of the library).

`CreateContextProofs`, for any number of ranks and hosts, any topology and flags, and every failure,
with no proviso:

- The inductive invariant `Together` counts meetings: at each label a rank has come to a number of
  meetings of each kind that the program fixes (`Attends`), what it knows and has published follows
  from that (`Known`, `HasBarrier`, `HasTopology`), and a rank past a meeting knows that all
  members have come to it (`Waited`). A rank that fails stays at its count, which is why nobody
  overtakes it.
- `CreateTyping`; `NodesOfHosts`, for every order of the host numbers, since the colour of a rank
  is the position of the first equal number; `FindsWhatIsPublished`; `LeavesNothingLinked`;
  `TopologiesAgree`, from `DisabledOnce` (restricting a second time changes nothing, on any hardware);
  `PublishesSegments`, the refinement of `Publish` by both segments.

`XpmProofs`, for any number of ranks, any (even) number of values of a `size_t`, any sequence of
allocations and sizes, any set of paths, and every failure, with no proviso:

- The inductive invariant is made in layers, each proved with those before it. `Together` (`InOneTurn`,
  `Types`): the turns and places again; a rank that fails alone keeps the others in its turn for good,
  so that no later barrier is paired wrongly. `Links` (`LinkedWhileInside`, `NeverShared`): two paths never
  lead to one segment, and a linked segment is mapped for the current allocation only; without it a
  path told twice could lead to memory that a slow rank still has. `Memory` (`ReadsWhatWasWritten`): a
  part that its owner has written still holds it.
- `ViewsTile`: the views are consecutive intervals from 0 on as long as no sum wraps; when one does, a
  view ends beyond the segment. The sums are proved equal to those of the recursive function `Added`.
- `PublishesAllocations`, the refinement of `Publish`.

`BitmapProofs`, for words of any number of bits, any bound on the number of words, and any
number of bitmaps:

- `BitmapTyping` and `BitmapsAreSets`, the refinement of `CpuSet`. The inductive invariant is
  `AllBitmaps`, the typing as one set of records: at least one word, all of them written. Indices
  are in one-to-one correspondence to words and bits, in their order (`PlaceIs`, `AtIs`, `OrderIs`),
  so a bitmap is the set of the indices of which the bit is set (`MembersAre`). Of that there is one
  lemma per call: `Is(b, set)` for what the call stores and for what `CpuSet!Meaning` says of it
  (`SetCall`, `ClrRangeCall`, `XorCall`, ...). The combinations read their operands after the result
  was reset: `AfterReset` says which words of an operand that is the result survive that, and
  `CombinedIs` that the words which the code drops equal the tail.
- `BitmapAnswers`. Two bitmaps compare as all their words up to the horizon do, those that both
  have, the surplus of the longer one and the tails (`PairIs`, `PairOfWords`); a search over words and a
  tail finds the least index (`FirstInIs`), the one after an index begins in the right word with
  the right bits left out (`NextAnswer`), and a search for unset indices is the same search in the
  bitmap of the complement (`NegationOf`). The weight adds up the bits of the words in an order
  that the fold leaves open, hence `SumIs`.
- `BitmapInclusion`. After every word the pass knows the relation of the members up to there and,
  unless that is final, which of the two sets is still empty (`Knows`, inductive by `LearnIs`); the
  tails are one more such part (`TailsAre`).
- `BitmapOrders`. The last word in which two bitmaps differ has the largest index that only one of
  them has (`CompareIs`), the first word with a bit in either has the smallest member
  (`CompareFirstIs`). `ComparesTails` is the only exception, for bitmaps of any length.

The last three hold in every state in which `AllBitmaps` does; the `Idle` of the properties only
spares TLC equal states.

The assumptions are those on the constants (`TopologyAssumption`, `BindStackAssumption`,
`InputsAssumption`, `AutoDistribAssumption`, `CreateContextAssumption`, `XpmAssumption`,
`BitmapAssumption`), which every run evaluates for its instance, and where it is said `Alone` or the condition on `Failing`,
which are hypotheses of the theorems.

Induction. No theorem uses an induction principle on a predicate. Where a loop, a sum or a
cardinality needs one, the proof takes the set of the numbers that violate the claim, and of it the
least (`DataLemmas!LeastNat`). That a recursive function such as `Added` has a value everywhere is
proved in the same way.

Only model-checked:

- All liveness: `Terminates`, `ReturnUntilFailure`, `ReturnsUnlessLeftAlone`. Fairness and `ENABLED`
  are out of the prover's reach.
- The four runs that expect a violation: they are counterexamples, which need no proof.

## 5. Plan

1. Done: `Topology`, `BindStack` with `BindScope`, `BindGuard`, `KSetIntersection`, `AutoDistrib`,
   `CreateContext`, `Xpm` with `Publish`, `Bitmap` with `CpuSet`; theorems for every safety and
   action property that a run checks, and for every refinement.
2. Next: what the refinements are worth to a reader, as theorems about the abstract
   specifications (`Publish`: no reader is turned away and the segment is withdrawn last;
   `BindScope`: a nest of pushes and as many pops is the identity); facts about the queries of
   `Topology` (`DisableHT` keeps the order of the objects; what covers a cpuset); the results of
   `AutoDistrib` as counts per resource.

## 6. What is not modelled

- Getters, version, string forms, `quo-info`, the Fortran and the other C++ forwarders: no
  state changes.
- `QUO_bound`, `QUO_nobjs_in_type_by_type`, the pid table: reads of state that other modules have.
- Memory exhaustion and failing MPI calls: every call site returns the error at once, like the
  lone failures that are modelled, and an MPI error is fatal by default.
- Threads: libquo and hwloc have no locks, and a process is taken to make one call at a time.
- hwloc beyond its bitmaps and what `Topology` has of it. Most of the repository's lines are this
  vendored library: operating-system back ends, XML, GPU and instruction-set probes, drawing tools, none of
  which libquo's own logic depends on. What libquo depends on is the tree that they deliver, so
  the model starts there; this keeps the mapped share of all lines in the repository small,
  while nearly all of libquo's own control flow is mapped. Of `hwloc_topology_restrict` the model
  has what happens to objects without children in memory.
- MPI: collectives and broadcasts are the operators marked external in `PROJECT.json`.
- Leaks: a failed `QUO_create` and a `QUO_free` below a nested push leave memory behind, which no
  state of the models shows.
