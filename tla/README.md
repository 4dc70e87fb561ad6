# lru_benchmark in TLA+

The repository compares concurrent caches: its own DeferredLRU, ConcurrentLRU,
LRUCache and HashFixed, their sharded versions, and wrappers over TBB and HHVM.
All of them offer one call, `consumeCachedOrCompute(key, producer, consumer)`:
look the key up; when it is absent, compute the value and insert it. Around the
caches are two programs that measure them, and a script that runs the programs
over the product of many settings. This directory models these parts, checks
them with TLC on small instances and proves part of what was checked with
TLAPS. Paths below are relative to `src/src/containers/` unless they say
otherwise.

## The system

| Component | State | Operations | What makes it correct |
|---|---|---|---|
| DeferredLRU (`deferred_lru.h`) | an array of nodes threaded into four structures: sorted bucket chains (a lock per bucket), the doubly linked LRU list, a lock-free stack of empty nodes, a lock-free recent list with a counter; two request flags and `lru_lock_` | find, insert, and the consolidation (purge, pull, purge) run by whoever gets `lru_lock_` | no node is lost or owned twice; a key is stored once; list and table agree; a recent node is not evicted; calls return |
| ConcurrentLRU (`concurrent_lru.h`) | nodes with a spin lock and two flags each, a pool list, an LRU list, bucket chains with locks of their own | find and move to tail, insert, evict, each locking hand over hand | no deadlock; lists stay linked; a node found is still the key's |
| LRUCache (`lru.h`) | elements linked by index into bucket chains, LRU list, empty list; one lock | find (moves to the tail), insert, evict | links agree; the evicted entry is the least recent |
| HashFixed (`hash_fixed.h`) | an array of elements, an atomic element counter, lock-free chains | find, insert until full | slots are not shared; pushes are not lost; pointers stay good |
| BucketedAdapter (`bucketed_adapter.h`) | 64 shards of one of the caches | routes a key to its shard, splits the capacity | the capacities add up; the shards together hold no more; every shard can serve |
| ContainerBase, config (`container_base.h`, `config.h`) | capacity, memory, element counter | capacity arithmetic | the elements fit in the capacity |
| TbbHash, TbbLRU, HhvmLRU (`tbb_hash.h`, `tbb_lru.h`, `hhvm_lru.h`) | counters; the container is a library's | find, then insert | an answer is for its key; the counters give the hits |
| DummyCache (`dummy.h`) | none | every call is a miss | |
| benchmark driver (`../benchmark.cpp`, `main.cpp`, `trace_main.cpp`) | iteration and hit counters, a cancel flag; the variables of the options; the traces read so far | reads the command line, builds a container, runs threads or a trace against it, logs a row | every thread stops; the totals add up; the row says what was measured |
| CLI11 (`../CLI11.hpp`) | the options, what they were given, the exit code | reads a command line | it is read as it was written, or reported |
| key generators (`../key_generator.cpp`) | a position per thread | next key; the trace is dealt out to the threads | no record is dealt twice; slots are disjoint |
| CSV log (`../csv_logger.h`) | a file several processes append to, and the buffer of each | header, row, flush | one header, at the beginning; no line is lost |
| counters (`../utility.h`, `metric_counter.h`) | statistics | count, reset, print | the hits that are printed are hits |
| concurrent_increment_test (`../concurrent_increment_test.cpp`) | one variable, two readings of the clock | times increments under a mutex, atomically, by compare-exchange | not modelled: it uses none of the caches |
| experiment scripts (`../../runner.py`, `traces/`, `data/`) | the position in a work list, the settings of the next process | starts processes, asks the user when one fails, resumes | no experiment is left out; each runs with its settings |

The driver's OpenMP threads share one cache and interact only through it. Inside
a cache the threads interact through locks (bucket, list, node) and through
atomic pointers and flags; there are no messages. What is hard there is
interleaving: a node is in several lists at once, and each list has its own
discipline. Outside the caches it is failure: the script runs for days, and the
programs it starts fail, hang, are interrupted and are started again over a log
that keeps growing; trace files are replaced meanwhile.

`PROJECT.json` lists the hazards line by line with the property that covers
each, and for each definition the source lines it stands for.

    Runner --EXTENDS--> CsvLog            (a session of the script starts processes that log)
    BenchmarkApp --EXTENDS--> CommandLine (the program is the parser and what main makes of it)
    Benchmark --EXTENDS--> KeyGenerators  (the loop asks the generators for its keys)
    TbbHash, TbbLRU, HhvmLRU --EXTENDS--> WrappedCache
    MCWrapped   --EXTENDS--> TbbHash, TbbLRU, HhvmLRU
    MCPrograms  --EXTENDS--> BenchmarkApp, TraceBenchmark, Benchmark, Allocation
    DeferredLRU   --implements--> CacheSpec  (DeferredLRURefinement)
    LRUCache      --implements--> LRUSpec    (LRUCacheRefinement)
    ConcurrentLRU --implements--> LruQueue   (ConcurrentLRUProperties)

Allocation looks at the caches from outside: how they get their memory, and a
served shard as a queue of keys. BucketChain looks at one structure of
DeferredLRU from inside, link by link.

## The modules

### DeferredLRU

`DeferredLRU.tla` is the cache. An action is at most one access to memory
another thread may be writing, or a critical section over memory that only that
lock protects:

| Actions | Code |
|---|---|
| FindMiss, FindRecent, FindUnmarked | find up to the decision of markNodeRecent, the bucket locked |
| MarkCas, CountRecent | the push on the recent list and the increment of its length, still under the bucket lock |
| CheckThreshold, RequestPull, RequestPurge, TryLock | the consolidation's requests and its try_lock |
| Allocate, Take, TakeFails | allocateNode: the head is marked, then replaced; a spurious failure of the weak compare-exchange takes the mark back |
| AddBucket, Drop, DropCas, DropRetry | addNodeToBucket and the return of the node when another thread stored the key first |
| Link, LinkCas, LinkBack, Publish | addNodeToLruHead and the last store of insert |
| FirstPurge, PurgeEnd, PurgeSkip, PurgeTry, PurgeBucket, Unlink, Dispose, DisposeCas, DisposeRetry, SecondPurge, PurgeDone | purgeOld, called with 20 and then with `purge_threshold_` |
| PullStart, ResetCount, PullEnd, PullAtHead, PullSkip, PullMove, Bulk, BulkCas, BulkBack, PullDone | pullRecent |
| Unlock | the end of consolidateCache |

Abstractions. A chain is the set of the nodes linked in it, since a chain is
only touched under its bucket lock. The value goes with the key. The four
accesses of removeNodeFromLru are one step; that no other thread touches those
links meanwhile is itself checked (RemovalPrivate). purgeOld loads a node's
`lru_prev` and its mark in one step: only the lock holder changes `lru_prev` of
a node that is not next to the head, and for that one the loop ends. Accesses
are sequentially consistent; the relaxed orders of the code are not modelled.
The quota of a purge is the code's literal 20 in the first one.

`DeferredLRUProperties.tla` states the invariants, two action properties and the
liveness properties. `CacheSpec.tla` is the contract without nodes, lists or
locks: a set of keys, those of them that are pinned, and how far each call has
come. `DeferredLRURefinement.tla` maps the one to the other: a call takes effect
in the critical section of its bucket, an eviction in removeNodeFromBucket; a
key is pinned while its node has a recent link. Unpinning is the pull's.

### BucketChain

`BucketChain.tla` is what DeferredLRU.tla abstracts from: the sorted, singly
linked chain, one load or store of a link per action, under a lock that several
buckets may share (`bucketLockIndexMask`). A removed node keeps its stale link
and may be inserted elsewhere. Lock, Walk, LinkPrev, LinkNext and Unlink are
searchBucket, addNodeToBucket and removeNodeFromBucket; a history variable holds
the set the chain stands for, and AnswersAreExact compares each answer with it.

### HashFixed

`HashFixed.tla` has one action per shared access: the check of the counter, its
increment, its roll-back, the writing of the element, and the compare-exchange
on the bucket. A lookup is one action, the load of the chain's head, because
what follows the head never changes; ChainsOnlyGrow checks that.

### LRUCache

`LRUCache.tla` has the members of the object in one record, and Moved, Evicted
and Stored are the code's assignments on it, index by index. find and insert
hold the lock throughout, so each is one action; a miss and its insert are two.
Element fields that `new Element[]` leaves uninitialised start as Garbage, and
the invariants show that none is read. `LRUSpec.tla` is the queue of keys it
implements (`LRUCacheRefinement.tla`). Beside the
object, `missed` is the key a thread found absent and is about to insert, and
`consumer` the key whose value each thread was given last, by a hit or by an
insert: it is what makes a hit visible to LRUSpec.

### ConcurrentLRU

`ConcurrentLRU.tla` has one action per lock operation or critical section:

| Actions | Code |
|---|---|
| FindMiss, FindNode, FindHit, FindStale | htFind under the bucket lock; then, the bucket unlocked, the lock on the node and dataIsValidForKey |
| RemovePrev, RemoveBackOff, RemoveWait, RemoveAbandoned, RemoveRelock, RemoveAgain, RemoveNext, RemoveUnlink | listRemove: the previous node is locked by a try, and when that fails the node is given up, the previous one waited for, and both are looked at again |
| AppendRead, AppendPrev, AppendNode, AppendLink | listInsertBefore in front of the tail |
| EvictPrev, EvictNode, EvictNext, EvictUnlink | listRemoveFront, on the pool and then on the LRU list |
| HtRemoveFirst, HtRemoveLock, HtRemoveFails, HtUnlink | htRemove and the loop of evictLeastRecentlyUsed around it |
| Fill, HtInsert | insert |

A chain is the sequence of its nodes, as it is touched under the bucket lock
alone. The lock bit, the two flags and the chain link of a node share one word
in the code, written by load and store; that only its holder stores
it (NodesChangeUnderLock) is what makes that right. AssertIsCoherent is the code's own check;
StructureIsSound includes that it holds whenever nobody is in a call. `LruQueue.tla` is a queue with
operations that take effect at once; `ConcurrentLRUProperties.tla` has the
mapping to it and the properties.

### Allocation: ContainerBase, the allocateMemory of the caches, BucketedAdapter

`Allocation.tla` follows the shards of an adapter through their life: InitBase
(ContainerBase::init), Allocate or ThrowTooSmall, the next shard, then calls, then
destruction, which an exception reaches with some shards complete, one begun and
the others as their constructor left them. Members no constructor sets are
Garbage, and reading one is undefined: the stage says so. The kind of cache
decides whether storage is a vector, whether too few buckets are an error, and
how a capacity is rounded.

### TBB and HHVM wrappers

`WrappedCache.tla` has the call, the counters and the properties of the three;
`TbbHash.tla`, `TbbLRU.tla` and `HhvmLRU.tla` have one action per call of the
library. The libraries are not in the tree: what they do is written down as the
wrappers use it and marked external (an accessor holds an entry, a handle keeps
an entry from being dropped, an insert of a present key is ignored).

### The benchmark programs

| Module | Code |
|---|---|
| `KeyGenerators.tla` | the generators for a trace, for disjoint slots and for one key: setThread and getKey |
| `Benchmark.tla` | benchmark(): the single region and its barrier, the loop over key sequences with its two polls, the atomic additions to the totals |
| `CommandLine.tla` | CLI11's parse: arguments left to right, then the callbacks of the options, then help, required and excluded options |
| `BenchmarkApp.tla` | the options of lru_benchmark, main, and runImpl's choice of the container and its row |
| `TraceBenchmark.tla` | readTrace with its static map, and the loops of lru_trace_benchmark; files are replaced while it runs |

An argument is a record of its form, name and value: texts are taken apart where
the parser does so, not character by character. The cache of Benchmark is the
set of keys asked for. Time is one flag that is raised at some point, after
which `now() - start` is over the limit.

### The log and the script

`CsvLog.tla` is a log that processes append to. A process opens it and finds it
empty or not, writes the header or not into its buffer, then its row, and
flushes when its logger is destroyed, unless it is killed or aborts.

`Runner.tla` is runner.py: the work list of its command line (NextBenchmark,
Finish), the calls of BenchmarkApp.run in a benchmark (BeginRun, EndRun), the
experiments of a call (Visit, with its filter and its start index), one process
(Launch, GoOn, Returned, Timeout, Interrupt) and the questions (Answer, Abandon).
GenerateExperiments is the product of settings with overrides;
`self.__dict__` is a function that each experiment changes in part. What each
process should have been given is defined apart from that, by the digits of the
number of its experiment (Intended). MaxSessions and MaxFaults bound the
sessions and what goes wrong in them.

## The runs

| Run | Instance | Shows |
|---|---|---|
| dlru_warm | 2 threads with 2 calls each on any of 5 keys, 3 of 4 nodes in use, pull threshold 2 | the lock, node, table, list and mark invariants of DeferredLRU; EvictionSpares, MarkLastsUntilPull; DeferredLRU implements CacheSpec |
| dlru_hits | from the full cache, 2 threads hit, then miss; and 1 thread from the empty cache with 4 filling calls and any 6; pull threshold 3 | a hit returns whatever the others do; a consolidation ends; a call of a thread that works alone returns |
| dlru_starved | the full cache, hits against one miss, pull threshold 1 | a violation, see below |
| clru_warm | 2 threads across the last use of the pool, 3 threads on neighbours in the full list, hits against evictions in other buckets, and 1 thread from the empty cache | the structure, lock and word invariants of ConcurrentLRU; no circle of blocked threads; ConcurrentLRU implements LruQueue; calls return unless a hit meets an eviction in its bucket |
| clru_stuck | 2 threads, two keys of one bucket | a violation, see below |
| chain_shared | 2 threads, 3 nodes, 4 keys in 2 chains under 1 lock | chains sorted and complete, exact answers |
| hash_fill | 3 threads, 3 elements, 3 keys in 2 buckets | the counter, the slots, returned pointers, chains; every call returns |
| lru_calls | 2 threads, 4 elements, 5 keys in 2 of 4 buckets, calls without end | the index structure, bounded duplicates, the code's own assertion between calls; LRUCache implements LRUSpec |
| lru_debug | 1 thread | a violation, see below |
| wrapped_calls | 3 threads with 2 calls each on 2 keys, for each wrapper | answers and counters |
| runner_resume | 2 sessions, 6 processes, 1 fault, five command lines | every experiment is made once and as its line says; one header, and rows in order |
| programs | one part per behaviour: 1281 command lines; 2 shards or one cache of every kind with six capacities, in elements and bytes; 2 threads on a trace of 5 records; 8 trace experiments on files that arrive and are replaced | the properties of the four programs' parts; the loop ends |

A property of a run is often the conjunction of parts that the module names
(StructureIsSound, CacheIsSound, LogIsInOrder, ...): the parts are what to look
at when it fails.

**Bounds.** Four nodes are the fewest allocateMemory accepts (four buckets, load
factor one). They are enough for a node at the head, one at the tail, one
between, and one in an inserter's hands. Two threads give every pair of
operations on every list; three are needed in HashFixed for two to overshoot the
counter at once, and in ConcurrentLRU for circles of three. Keys are one or two
more than nodes, so that a full cache still misses, and share buckets. Without a
bound on the calls DeferredLRU and ConcurrentLRU have too many states, so their
MC modules say which keys each call of a thread may ask for (Workloads, Starts).
A warm start is a state that filling calls of one thread lead to. The pull
thresholds are those of the factors 0.1 (one node) and 0.5, and the largest
below the number of nodes; the purge threshold is the code's max(0.1 * 4, 1).
`recent_count_` needs no bound: it never exceeds the nodes and threads. Nodes
are symmetric because their order in the array appears in Init alone; runs with
liveness use no symmetry.

The shards are 2 in place of 64. The capacities lie on both sides of the
smallest one that two shards accept in elements and in bytes, with and without a
remainder, and one shard is overfull when the other is not. SlotSize, the keys of
a disjoint slot, is 2 for 2^30, and keys wrap at KeyWidth. The records of the
trace are dealt out unevenly, and a sequence of keys may end between two polls (PrintFreq 20, so that the other
threads poll every 2). Width is where the counters of the loop wrap. The command
lines are five bases, complete or one option short, with up to one item in front
and one behind from fifteen that are right, doubled, contradictory, unknown or
malformed. Trace files are complete in both versions, cut off, empty, wrong in
their sum, of an unknown version, and absent. In runner_resume one fault, of the
program or of its user, in one of two sessions, is enough to break off, hang or
kill a process at each of its steps; MaxSessions and MaxFaults are these bounds,
and MaxCalls bounds the calls on the wrappers.

CHECK_DEADLOCK is off where a system stops: when the programs have ended, and
when the sessions and processes of the script are used up.

**Fairness.** In DeferredLRU and ConcurrentLRU every thread is strongly fair in
the steps of a call it has begun: the operating system runs it, a spin lock that
is free again and again is got in the end, and a weak compare-exchange does not
fail for ever (the fairness of Take). No thread has to make another call. In
HashFixed weak fairness is enough. A call in dlru_hits may starve in insert
without refuting its properties, which are about hits, about the holder of
`lru_lock_` and about threads alone. In the measuring loop threads are weakly
fair and time passes. Nothing is assumed of the user or of the processes of the
script, which may hang.

## What was found

- **A DeferredLRU insert can spin for ever, alone** (dlru_starved).
  popRecentListSlice takes the recent list (`deferred_lru.h:611`) and then clears
  `recent_count_` (612). A hit counted in between is on the new list but not in
  the count, and the request it makes is cleared with `pull_request_ = false`
  (475). When such hits have marked every node but the one at the list head, no
  purge frees a node, the count stays below the threshold and nobody asks for a
  pull: allocateNode's loop (617) does not end. Line 613 calls the race harmless,
  and 352-355 says a caller spins if another thread is performing the purge. In
  the counterexample nobody is. Only another hit, by a thread that still makes
  calls, could end it. A thread alone never gets there (AloneReturns).
- **An eviction and a hit of ConcurrentLRU can wait for each other for ever**
  (clru_stuck). evictLeastRecentlyUsed holds the node it took off the list and
  retries htRemove until it gets the predecessor in the bucket chain
  (`concurrent_lru.h:534-537`, 639). lruMoveToTail may hold just that predecessor
  and block, in listInsertBefore (367), on the node it read as the last one,
  which is the evicted one. The comments at 628 and 640 take a locked
  predecessor to be on its way out.
- **coherent() rejects a sound LRUCache** (lru_debug). The test at `lru.h:377`
  predates the list of empty nodes; with `enable_debug` the assertion at 331
  fails in the first eviction that does not take the last element. The same
  assertion between calls holds (CacheIsSound).

Read in the code while it was modelled, and checked by no run:

- `lru.h:113`: "Too small capacity" is thrown after `storage_` is allocated, from
  the body of BucketedAdapter's constructor; the shards are then destroyed, and
  those that were not reached walk a list, or delete an array, from members that
  were never written. The model has the step (ThrowTooSmall, ReleaseGarbage).
- `bucketed_adapter.h:25`: with a capacity below the number of shards all but
  shard 0 get none, which is no error; a call for them takes a hash modulo 0. So
  does a HashFixed with a capacity below its load factor (`hash_fixed.h:107`).
  The model has these as CallUnserved; AllocationIsSound speaks of the
  capacities that leave no shard below the minimum.
- `concurrent_lru.h:467, 480`: lruRemoveNode gives up when the node has left the list
  while it waited. It never has (RemovalNeverGivesUp, proved): an unlocked node
  outside the pool is always in the LRU list, perhaps with another key by then.
- `hash_fixed.h:168`: a value that a full table drops is not counted as an
  insert, and the logs compute hits as finds less inserts (`../csv_logger.h:165`,
  188).
- `../main.cpp:14`: -h ends the parser with the exit code 0, and main goes on to
  run the benchmark. `../benchmark.cpp:84`: parse() returns nothing when all is
  well; main branches on that value (the model's JunkCode).
- `../benchmark.cpp:81`: the minimal set of arguments in the help text lacks -G
  and has options that do not exist. `../benchmark.cpp:136`: the row of
  b_deferred has thresholds that its container was built without.
- `../benchmark.cpp:394`: traceBenchmark expects `{key, key / 2}` of a producer
  that returns `{key, key}`. `../benchmark.cpp:356`: the message about the
  version of a trace prints a word of its data.
- `../../runner.py:344`: after a failed process "restart" and "skip" do the same.
- `../concurrent_increment_test.cpp:19`: the clock is read after the barrier has
  let the other threads go.
- The comment at `deferred_lru.h:143-158` has every purge followed by a pull, the
  code pulls on request only; `hash_fixed.h:15` says that inserting into a full
  table is undefined, the code drops the value.

## The proofs

tlapm checks each of these for every value of the constants that the named
assumptions of the modules allow: any number of threads, nodes, keys, buckets,
any sharing of locks, any trace. TLC evaluates the assumptions in the runs. But for
RemovalNeverGivesUp, types and the inductive invariants themselves, each states a
property that a run checks too, or a part of one.

| Module | Theorems |
|---|---|
| `DeferredLRU_proofs` | LocksAreDisciplined, NodesAreConserved, KeysAreStoredOnce, LruHoldsTheTable, MarksAreKept, RemovalIsAlone, EvictionSparesTheMarked, MarksLast; CacheIsImplemented: the refinement of CacheSpec |
| `BucketChain_proofs` | ChainsAreKept, AnswersAreRight |
| `ConcurrentLRU_proofs` | LocksAreDisciplined, StructureIsKept, NodesChangeInHandOnly, NoCircularWait, RemovalNeverGivesUp; TheListIsAQueue: the refinement of LruQueue |
| `LRUCache_proofs` | CacheIsKept; EvictsTheOldest: the refinement of LRUSpec |
| `HashFixed_proofs` | CounterIsExact, SlotsAreNeverShared, FoundElementsStay, ChainsHoldAll, ChainsGrow |
| `WrappedCache_proofs` | AnswersAreRight, HitsAreRight |
| `Programs_proofs` | KeysAreDealtOut, TotalsAddUp, CallsAreNotLate; KeptTracesComplete, RowsAreRightAlways; AllocationSound; LogIsRight, NoExperimentIsLeftOut |
| `ListLemmas` | NatSetInduction, and the lemmas the others share |

Type correctness of the caches is proved beside these (TypeIsCorrect); TLC need
not look at a type that a proof settles.

**How recursion and induction are dealt with.** The induction theorems of the
library take a predicate as a parameter, which none of the provers can
instantiate. `ListLemmas.tla` states induction for sets instead: a set of
naturals that has 0 and the successor of each member is all of Nat
(NatSetInduction, with the least member of a set, LeastOf), and the same for the
subsets of a finite set (SubsetInduction). With these it proves what the other
modules take for granted: that functions defined recursively exist, what a walk
along links reaches, that the sum over a finite set does not depend on its order,
and what FlattenSeq joins. A linked list without duplicates is the set S of its
nodes with a rank on them (HasChain): links go from each rank to the next, the
last to the end mark. Pushing, popping, cutting, joining and inserting are lemmas
about sets, and WalkMeetsChain says that a walk along links finds S and ends. So
the invariants below speak of sets, and the walks that the properties are stated
with come in only at the end.

**DeferredLRU.** LockInv: a thread is in the consolidation exactly when it owns
`lru_lock_`, a marking thread owns its bucket's lock, and a thread under way asks
for a key, so it unlocks the bucket that it locked. The inductive invariant IInv
adds, each part needed by another:

- every node has one owner, the empty list, a thread or the table, and a key is in
  one node of its bucket (NodesAreOwned). The empty list is lock-free; an ABA in
  its compare-exchange is harmless: a push compares the head with what the pushed
  node's own link holds, and only one thread at a time is at a marked head;
- the table's nodes that a finished push has marked are those of the recent list
  and of the slice R that a pull has taken (SliceInv), and no two threads push
  the same node (HitInv);
- the nodes of the LRU list are those of the table, but for the ones about to be
  linked and a sublist P that a pull moves to the head; back links mirror the
  forward ones but where a thread has still to store one (ListInv). The node next
  to the head is never removed, which is why removeNodeFromLru never meets an
  inserter (RemovalPrivate);
- what a purge remembers from node to node, cursor and resume, is still in the
  list (SweepInv).

R and P are under an existential quantifier in IInv: the code has no variable for
either. For the refinement the state of CacheSpec is read off the same parts (the
cached keys are those of the table, the pinned ones those with a mark), and StageOf
says of each call how far it has come; each action is then one step of CacheSpec
or none.

**BucketChain** closes the gap DeferredLRU.tla leaves by taking a chain for a set:
with walks of single loads and an addition of two stores, a chain is sorted and
holds exactly its stored nodes whenever its lock is free. Between the two stores
the chain leads into the new node's stale link; the invariant describes the chain
with the first store undone (Undone). An answer is right although a walk stops at
the first key that is not less, since a sorted chain has no gap (SortedHasNoGap).

**ConcurrentLRU.** Local(t) says, for each point of the code, what a thread knows
from the locks it holds: its `prev` still leads to its node, its node has the
flags it was left with. IInv is that, with the two lists as sequences between
sentinels, every node in one list or in one hand, and chains that hold the nodes
flagged for them. Everything the run checks about the structure follows. Two
properties need more: NoRing, for threads that wait for the last node of the list,
which may be stale: any set of threads that wait for each other has one that read
its last node later than the others, so NoBlockingCycle holds. And QInv, for the
refinement: a thread turns to the LRU list only when the pool is empty, and
no hit works on a node of the pool. QInv also gives RemovalNeverGivesUp.

**LRUCache.** The links read as sequences: q for the LRU list, ch[b] for the chain
of bucket b, and the elements in use are a prefix of the array. Each assignment of
the code is a change of these. Duplicates are bounded by counting the copies of a
key with the threads that are about to enter it (FewCopies), which needs finitely
many threads.

**HashFixed.** The slots given out are an initial segment 0 .. m - 1, the counter
is m plus the number of threads about to roll back, and there are such threads only
when m is the limit; so a roll-back never lowers the counter below the limit and no
slot is given out twice. Links lead to written elements only, hence never to a slot
just given out. For the chains, an element about to be pushed is left out of what
is stored: its link may be stale until the compare-exchange succeeds.

**TBB and HHVM wrappers.** An accessor, a handle or a place before the first
assignment keeps the entry of each call as it is, and finds less inserts less hits
is the number of calls that have counted their find and nothing else (Pending).

**Programs.** The first theorems are about the specification that MCPrograms
composes, whose parts do not touch each other's variables. A thread draws every
ThreadCount-th record (DealtTo), or the keys from its slot on, and when those wrap
at KeyWidth it has already drawn every key of its slot. How late a thread may still be
is its late calls and what is left to its next look at the flag (LateIsBounded). A
measured pass of a trace has counted the accesses so far and those before it, and
its hits are finds less inserts (PassIsCounted); what readTrace has kept for a path
is never replaced, so all rows on it are about one trace.
The shares of the shards add up by induction over the shards; a shard that was
given its share is adequate or not by the same arithmetic as the constructor's.
AllocationAssumption says that 2 ^ LogBucketCount is a positive natural, which
holds of every natural LogBucketCount: no prover evaluates `^`.

For the script, the invariant is that a process is started only when the one
before it is gone (OneAfterTheOther: a process that is timed out or interrupted is
killed before the question). So nobody else writes between its look at the log and
its flush, the buffer still fits the log, and there is one header. The place of an
experiment (session, benchmark, call, number) only moves forward, but for a restart
after a kill; the numbers started in a call are an interval (Reached).

**What the proofs changed.** The runs' property about duplicates in ConcurrentLRU
is gone, since it is false with more threads than the instance had (LRUCache's is
proved). The phases of a call in CacheSpec's mapping overlapped and are now
disjoint. LRUCache assumes finitely many threads. The models of the wrappers, the
generators and the traces state assumptions that had been implicit (`Unset` is no
key and no value; there is a generator to choose; the lists of traces, factors
and thresholds are sequences).

## Only model-checked

- Liveness: HitReturns, ConsolidationEnds, AloneReturns, CallsApartReturn,
  CallReturns and Ends. Fairness and ENABLED are out of the prover's reach.
- The three violations, which are about particular behaviours.
- LinesAreObeyed: it compares what the parser did with what each given line spells
  out, and that is part of the instance (the forms, texts and values of Lines).
- StartedAsIntended, the half of EveryExperimentIsMade that compares the settings of
  each process with the digits of its number. Both sides are folds over lists of
  overrides; their equality is an induction over data about functions joined by
  `@@`, whose definition the provers cannot expand. The other half is proved.

## How the project could go on

- CLI11 and StartedAsIntended, with the overrides as sets of pairs in place of `@@`.
- That the starved state of dlru_starved is never left without another hit: a
  safety property once the state is described.
- Weaker memory orders for the lock-free lists of DeferredLRU and HashFixed.

## Not modelled

- The libraries of TBB and HHVM, but for what the wrappers rely on (external).
- DummyCache: it keeps no state. concurrent_increment_test: it shares nothing
  with the rest. MetricCounterImpl: no build selects it.
- releaseMemory and dump of HashFixed, LRUCache, ConcurrentLRU and DeferredLRU
  while a cache is used: nobody calls them then. What releaseMemory does to
  memory is in Allocation.
- The random key generators, which draw from the C++ library; that
  `../benchmark.cpp:155` hands one of them a largest key of 0 for capacities
  below 100 is not covered. Poll frequencies below 10 (a division by zero,
  `../benchmark.cpp:202`) and more threads than records in a trace
  (`../key_generator.cpp:147`) are excluded by assumptions of the models.
- The profile counters of HashFixed, and `current_element_count_` of DeferredLRU
  and ConcurrentLRU, which no decision reads.
- Positionals, vectors, subcommands, configuration files and help texts of
  CLI11, which the programs do not use; the console progress, memory statistics
  and formatting.
- `../../traces/trace_info.py` and `../../data/meta/generate.py`, which only read
  files and print or plot them.
- Memory orders weaker than sequential consistency.
