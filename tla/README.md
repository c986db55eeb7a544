# FBGEMM: TLA+ specifications and proofs

FBGEMM is a library of low-precision matrix kernels for CPUs (`src/src`, `src/include`)
and, in `src/fbgemm_gpu`, of GPU operators for recommendation models.  Most of it is
numeric code without state.  The parts with a protocol are the storage of embedding tables
that do not fit in GPU memory, a hierarchy of caches (GPU, host memory, SSD or a remote
server) driven by CUDA streams, host callbacks and threads, and the collective operations
of `gen_ai`, in which GPUs synchronise with each other.  This project specifies those
parts, checks them with TLC and proves what can be proved with TLAPS.

## 1. The system

### Components

| component | state | operations | who calls it |
|---|---|---|---|
| `EmbeddingKVDB` (`ssd_split_embeddings_cache/kv_db_table_batched_embeddings.*`), with `CacheLibCache` (`split_embeddings_cache/cachelib_cache.cpp`) | L2 cache, rows evicted from it, fill queue, `fill_queue_mtx_`/`fill_queue_cv_`, `l2_cache_mtx_`, `stop_` | `get`, `set`, `flush`, constructor, destructor, `cache_filling_thread_` | host callbacks of CUDA streams (`get_cuda`, `set_cuda`), the training thread (`flush`) |
| `EmbeddingRocksDB` (`ssd_table_batched_embeddings.h`) | RocksDB shards, snapshots, checkpoints | `get_kv_db_async`, `set_kv_db_async`, snapshots, `toggle_compaction`, destructor | `EmbeddingKVDB`, Python |
| `EmbeddingParameterServer` (`ps_split_embeddings_cache/`) | a remote service | the same two primitives | `EmbeddingKVDB` |
| `DramKVEmbeddingCache` (`dram_kv_embedding_cache.h`) | per shard: a map under a lock and a `FixedBlockPool`; enrichment and laser-write flags | get, set, metaheader reads, eviction hooks, enrichment | `EmbeddingKVDB`, Python |
| `FeatureEvict` (`feature_evict.h`) | state of the round, interrupt, cursors, counters, futures | `trigger_evict`, `pause`, `resume`, `wait_until_eviction_done`, one task per shard, destructor | the DRAM store (`maybe_evict`, before and after reads and writes) |
| `FixedBlockPool` (`fixed_block_pool.h`) | chunks, free list, used/dirty marks of a block | allocate, deallocate, scan, dirty marks | the DRAM store and the eviction tasks |
| `DramKVInferenceEmbedding` | as the training store, without the L2 cache | get, set, time-based eviction | inference operators |
| `Initializer` (`initializer.h`) | two single-producer queues, a row buffer, `stop_` | producer thread; consumers take rows and give them back | `EmbeddingRocksDB::get_kv_db_async`, DRAM store |
| `SSDTableBatchedEmbeddingBags` (`tbe/ssd/training.py`), with its kernels (`ssd_split_embeddings_cache_cuda.cu`) | L1 cache, scratch pads, buffers of evicted rows, CUDA events, lists of prefetched iterations | `prefetch`, `forward`, backward hooks, `flush` | the trainer |
| `SSDScratchPadIndicesQueue` | a FIFO of maps index -> scratch-pad slot | `insert`, `lookup_mask_and_pop_front` | host callbacks of the prefetch of SSD training |
| `SplitTableBatchedEmbeddingBagsCodegen` (`split_table_batched_embeddings_ops_training.py`) | UVM tables, L1 cache, `lxu_cache_locations_list` | `prefetch`, `forward`, backward hooks, `flush` | the trainer |
| LXU cache kernels (`split_embeddings_cache/*.cu`) | L1 sets, LRU/LFU state, locking counters | find, insert, lookup, unlock, flush | both TBE operators |
| `RawEmbeddingStreamer` (`raw_embedding_streamer.cpp`) | stream queue, copy thread, `copy_done_flag`, `stop_` | `stream`, copy, send to the service, destructor | host callbacks of SSD training, training with UVM, the DRAM store |
| Custom all-reduce (`experimental/gen_ai/src/comm/car.cu`) | a buffer and barrier flags per rank, a call counter | one-shot, two-shot, reduce-scatter | inference, on all GPUs of a node |
| `_RWLock` (`tbe/ssd/inference.py`) | counts of readers and writers, a condition | acquire and release, both sides | prefetch, forward, `streaming_update`, `load_snapshot` |
| other GPU and CPU operators, code generation, benchmarks | none, or device buffers | functions | -- |

How they interact: a training step prefetches (L1 lookup, scratch-pad lookup, `get_cuda`
for the misses), computes, and writes rows evicted from L1 back (`set_cuda`).  The host
queues all of this on CUDA streams that wait for each other's events, and runs ahead of
them.  The host callbacks of the different streams run on threads of the CUDA runtime, so a
get and a set meet on the L2 cache.  `get` queues the rows it fetched from the storage,
`set` the rows it was given; a background thread applies them.  With the DRAM store, the
same calls also pause, trigger and resume eviction rounds that run on an executor, under
the same shard locks as reads and writes.  Updated rows are copied on the side and sent to
a remote store.

### Where it is hard

* two kinds of waiters on one condition variable, a queue shared by a locked and an
  unlocked producer, updates applied later than the call that made them (`EmbeddingKVDB`);
* rounds that are paused, resumed and waited for while each shard has its own thread,
  with counters that must come out even (`FeatureEvict`);
* destructors that must stop threads asleep in the middle of a job (all components with
  a thread);
* a memory pool without a lock of its own, whose callers must hold the shard's lock;
* a row that is in the storage, in L1, in a scratch pad or on its way between two of them
  while the next iteration asks for it, on four streams ordered by events only
  (`SSDTableBatchedEmbeddingBags`); one row that is in UVM and in L1 (Split TBE);
* ways of L1 that are locked by several iterations and unlocked once each (LXU cache);
* buffers filled by the device, copied by a thread and told apart by a flag that may come
  after the thread has given up (`RawEmbeddingStreamer`);
* barriers between GPUs made of plain stores, with buffers used again in the next call
  (custom all-reduce).

### What makes each component correct

* `EmbeddingKVDB`: a get returns what the last set wrote; nothing is lost between queue,
  cache and storage; after a flush the storage holds everything; every call returns, the
  queue drains, the destructor joins.  As one statement: it is a linearizable store whose
  flush makes it durable (`KVStore`).
* `FeatureEvict`: a round examines every block of its snapshot exactly once however often
  it is paused, starts paused, stops when paused, and is waited for; its counters are
  even when it is over; `wait_until_eviction_done` and the destructor return.
* the DRAM store: a key leads to its own block and row, no block leaks, fresh rows survive.
* SSD and UVM training: every forward and backward meets each row with the updates of all
  batches before, wherever it is; locks and unlocks are even; a flush stores everything.
* `RawEmbeddingStreamer`: weights are sent with their own indices; updates arrive.
* custom all-reduce: a call returns the sum of what all ranks gave to that call, and
  returns.
* `_RWLock`: exclusion, writer priority, no thread asleep with nobody to wake it.

`PROJECT.json` lists every hazard at its line, with the properties that would catch it.

## 2. The modules

`KVStore` is the abstract store; `EmbeddingKVDB` implements it, and `SSDPipeline` uses a
store that does each get and set in one step.  `LxuCache` (operators) and `CudaStreams`
(queues of work and places in them) are shared by `SSDPipeline` and `UVMPipeline`.  The
`MC` modules declare model values and symmetries.  The `_proofs` modules hold the theorems.

### EmbeddingKVDB, with KVStore

`EmbeddingKVDB.tla` has a program counter per thread (clients, background thread, the
thread that runs the destructor).  Each access to shared state that another thread can
come between is an action.  `CvLock`/`CvCheck`/`CvSleep` are `condition_variable::wait`
with its predicate; `LockBarrier` is the empty critical section before a notification;
`NotifyOne` picks *any* waiter; `EnqueueBegin`/`EnqueueEnd` are a producer inside
`USPSCQueue::enqueue`.  That queue is for one producer; `set` enters it with no lock and
`get` under `l2_cache_mtx_`, so two may be inside: then one item may replace the other, and
`collided` records that it happened.  The properties of the rows hold until then (what a
torn item would do after is not modelled).  `Lookup`, `Fetch`, `PutRow`, `PutDone`, `WriteStorage` are the
body under `l2_cache_mtx_`; a thread in it has its rows in `rows`, the cache its victims
in `evicted`, until the one write to the storage.  The size of the L2 cache (0: none) and
`enable_async_update_` are chosen in the initial state.

Abstractions: a row is the version of the set that wrote it, a batch a function on the
indices (`Absent` for the sentinel -1 and for a slot not in the batch); CacheLib's LRU is
an arbitrary victim; the reads and writes of the storage (`get_kv_db_async`,
`set_kv_db_async(...).wait()`) are atomic, since the caller waits for them under the
mutex.  The hooks to the streamer are in `RawEmbeddingStreamer`, and
`resume_ongoing_eviction`, which does nothing for RocksDB, is left out.  A set or get whose
count is 0 returns at once: no step.

What the callers guarantee is the guard `MayCall`: a set does not overlap another call on
the same indices (L1 and scratch pads hold the rows being trained, which `SSDPipeline`
shows), and a flush is alone (the device is synchronised first).

`KVStore.tla` is the abstract store: a request, a moment of effect, a reply; `Persist`
may move the durable rows forward at any time.  `ImplementsKVStore` is the refinement, in
which a set takes effect when its item is in the queue, or, with no queue, when it has the
cache's mutex; a get and a flush when they return.

### FeatureEvict

`FeatureEvict.tla` has one task per shard; `trigger_evict`, `resume` and `pause` are one
action each, being short critical sections of `mutex_`; `wait_until_eviction_done` is
four steps, since it holds `mutex_` only in the first.  A scan's test of the interrupt
(`Inner`) and the block it then takes (`Block`) are separate steps, so a pause can come
between.  The shard lock is also taken by clients.  What is done to a block is abstracted
to moving the cursor.

### RWLock

`RWLock.tla`: each `with self._cond` block is one action, up to its wait or its end.
A thread that waits is asleep until `notify_all`, then tests again in any order.

### DramShard

`DramShard.tla` is one shard of the DRAM store: a map from keys to blocks of a
`FixedBlockPool`, threads that set rows, and the shard's eviction task.  `training` chooses
the store.  Training holds the map's write lock for a whole set (`WriteHit`, `WriteMiss`)
and for a whole stretch of the scan, where a block goes with its key (`EvictFromMap`).
Inference sets in the four steps of `inference_set_kv_db_async`: look up and copy under the
read lock (`SetBegin`, `CopyBegin`, `CopyEnd`), fill new blocks under the pool's lock
(`TakePool`, `Fill`, `GivePool`), insert them under the write lock (`Insert`); its scan
frees stale blocks under the pool's lock (`EvictLater`) and erases their keys afterwards
(`Erase`).  A lock is held by whoever is at a place where the code holds it.

A row is two halves, each by the write that copied it: a copy of inference takes two steps,
since readers share the lock with it, and so do other copies.  A get changes nothing and
holds the read lock throughout, so what it can copy out is read off the state (`Readable`,
`ReadRow`).  Abstractions: the free list is a set (any free block may come next), the
strategies of training may evict or keep any block, a timestamp is 0 or 1, triggers do not
go back in time, the keys of one set are distinct, and the round's pause and resume, which
`FeatureEvict` models, are only the moments where a stretch of the scan may begin and end.

Nothing keeps sets of inference from overlapping each other or the scan, and the model does
not either.  The histories `contended` (keys of two sets at a time) and `stray` (blocks
freed while a set was to copy into, insert or find them) say where that has happened.  The
timestamp and the used bit share a word of the block's header, so a copy into a stray block
may also change whether it is in use (`NewUsed`).  `MapSound`, `NothingLeaks`,
`GetReadsItsRow`, `RowsSettle` and `FreshRowsSurvive` make exceptions of those keys and
blocks and of no other (section 4).

### SSDPipeline, with LxuCache and CudaStreams

`CudaStreams.tla` is what the host knows of a stream: it appends work (`todo`), and a piece
of work runs when it is first in its stream and the places it waits for in other streams
are reached (`ran`).  `record_event` notes a place, `wait_event` and `wait_stream` attach
one to the work queued next.

`SSDPipeline.tla` has the host's actions, `Prefetch`, `Forward`, `Backward` and `Flush`,
which only queue work and move the lists the Python objects keep (`pads`, `moves`), and one
action per kernel or host callback: `Populate` (find, insert and look up in L1), `Compact`
and `Select` (rows to evict into one of two buffers), `Copy` (D2H), `LookupPad` and
`Enqueue` (the scratch-pad index queue), `Get`, `Fill`, `Evict`, `Spill`, `EvictPad`,
`UpdatePointers`, `BackwardRun` and so on.  Which stream each runs on and which events it
waits for is taken from the code, for prefetches on the main stream, ahead on the main
stream and ahead on a stream of their own (`pipeline`, `side`).

Abstractions: a row is the number of times it was trained; a scratch pad is a function of
indices instead of positions; the work one kernel does on rows is one step; L1 is one set,
since an index hashes to one; the copies on `ssd_memcpy_stream` are one step; eval mode,
enrichment and direct writes are not there.

`LxuCache.tla` says which ways an insertion may take: SSD training takes the unlocked ways
that were used longest ago, LRU looks at as many of the oldest ways as there are misses and
passes over the locked ones, LFU pairs the missed rows used most with the ways whose rows
are used least.  Rows of equal rank come in any order.

### UVMPipeline

`UVMPipeline.tla` is the same for tables in UVM, where the cache kernels move rows
themselves: `InsertRows` and `InsertTags` are an insertion up to and after its change of
the tags; a prefetch has one or two passes.  A flush is called at any time and waits for no
prefetch on another stream, so it may come between the two (`FlushRun`): of the ways being
moved it reads some before and some after (`late`), and the latter's new weights go to the
rows the ways held before.  Those rows are noted in `torn`, a history variable, and the
properties hold for all other rows.  No test or document of the repository says that such a
flush is safe (its tests flush when all prefetches were waited for), so there is no run for
it.  `BackwardRun` trains a row where one of its locations says, as the kernel does.

### RawEmbeddingStreamer

`RawEmbeddingStreamer.tla` is the copy thread, the stream thread, the queue and the
destructor, with both callers: training with UVM (`StreamUvm`), which queues work on the
device and has a thread, or with `_res_sync_copy` the host, poll a flag and copy, or with
no copy queues the buffers themselves (`Live`), and SSD training (`StreamSsd`), whose host
callbacks join the thread, start it and copy a scratch pad.  A buffer is one row: the
iteration its index and its weights are of.  `late` and `missed` are history: a poll timed
out, and the iterations whose row was not found.

### CustomAllReduce

`CustomAllReduce.tla` has a program counter per warp.  A warp copies, notifies
(`st_flag_release` to all ranks), waits (`ld_flag_acquire`, a lane per rank), meets its
block (`Syncthreads`), reduces, gathers.  A value is the set of inputs summed in it.  The
four kinds of call differ in who copies (the kernel for one-shot, a copy before the kernel
for the others) and in the barrier after the reduction.

## 3. The runs

| run | question | bounds | result |
|---|---|---|---|
| `KVDB` | are rows lost or read stale with queue, cache and storage?  Is the store linearizable, and durable after a flush? | 2 clients, 2 indices, no cache or one of 1 or 2 rows, flush in blocks of 1, updates deferred or not, 2 sets, spurious wakeups, symmetric indices and clients | holds, until two producers meet in the queue |
| `KVDB_live` | does every call return, the queue drain, the destructor join, also when CacheLib cannot allocate? | 1 client, fair, allocation may fail | holds; a row that finds no room is lost, as the code logs |
| `KVDB_lost_wakeup` | does the queue drain with two clients? | 2 clients, 1 set, fair | **violated**: finding 1 |
| `FE_rounds` | are rounds complete, paused, waited for?  Do they finish, and does a wait return? | 2 shards, up to 2 blocks each, 2 rounds, fair | holds |
| `FE_destroy` | does the destructor return? | 2 shards, 1 block, fair | **violated**: finding 2 |
| `RWL` | exclusion, priority, wakeups; do writers get in? | 4 threads, fair | holds |
| `DRAM_shard` | do map, pool and rows of a shard agree while sets and the scan interleave? Does a get read its own key's row, does a row settle, and does eviction spare a fresh one? | both stores, 2 keys, 3 blocks in chunks of 1, 2 setters, 2 sets, symmetric keys and setters | holds, but for what overlapping sets, or the scan under a set, did |
| `SSD_train` | is every row up to date when it is used, with prefetches on one or two streams?  Are ways locked evenly, is the index queue in step, is a flush complete? | 4 batches of up to 2 indices, 1 way, 1 batch ahead | holds |
| `UVM_train` | the same for tables in UVM, LRU and LFU, and is a row trained where it will be found? | 4 batches of up to 2 indices, one of them in two passes, 1 way, 1 flush at any time | holds, but for rows a flush met while they were evicted |
| `CAR` | is each result the sum of this call's inputs, are buffers left alone while they are summed, and do calls return? | 2 ranks, 2 blocks of 1 warp, 2 calls of 3 kinds, fair | holds, but for the parts of a one-shot that its first warp does not answer for, and cells of a two-shot that their owner has overrun |
| `CAR_oneshot` | is every result of a one-shot of many blocks the sum? | 2 ranks, 2 blocks of 2 warps, 1 call | **violated**: finding 3 |
| `RES_stream` | do updates go out with their own index, do they arrive, does the destructor return? | both callers in all modes, 3 iterations, fair, timeouts and errors | holds, but for rows SSD training did not find |

Bounds.  A cache of one row with two indices makes every put of the other index an
eviction, and one of two makes a flush of two blocks.  Two sets give an old and a new
version of a row and a set that follows a get's own write-back.  Two clients are the two
streams; more add only more of the same, since a mutex serialises them.  Two blocks per
shard let a pause fall before, between and after blocks; two rounds let one leave
something behind for the next.  One way and two indices make every second batch a
conflict: rows go to the scratch pad, move from one pad to the next, into L1 and out of
it; the two buffers of evicted rows are used again from the third batch on.  Two
blocks are what one and the other can be late with respect to (two warps of a block meet
at `__syncthreads`; `CAR_oneshot` has them, the theorems any number); two calls let a rank
be one ahead, and the barriers keep it from being two ahead.  A reduce-scatter is a two-shot
without its gather, and left to the theorems.  Three iterations let the flag of
one be taken for another's, and the buffers be filled again twice.

`CHECK_DEADLOCK FALSE` is used where the system has an end: a destructor, or the last
batch or call.

Fairness.  Weak fairness of each thread's, kernel's and stream's steps: the operating
system and the device run every one (the blocks of an all-reduce are at most 24 and
resident together).  When a call, a trigger or a destruction comes is left open, and so is
an error.  In `FeatureEvict` the lock of a shard needs strong fairness: clients take it
again and again, and `std::shared_mutex` lets a waiting writer in eventually.  It also
assumes a thread for every shard's task, which the constructor of the executor provides.

### What the code relies on and does not enforce

Each is a constant.  The passing runs give it the value below, the theorems that need it
name it, and with the other one TLC finds the property named violated: the results hold for
callers that keep to it, and the code does not make them.

| constant | value | what it means | otherwise |
|---|---|---|---|
| `QuietWait` (`FeatureEvict`) | TRUE | nobody triggers, pauses or resumes while another thread waits for the round; `wait_until_eviction_done` takes and clears `futures_` outside `mutex_` (`feature_evict.h:563`) | `WaitMeansIdle`: a round's futures are lost |
| `FlushMidStep` (`SSDPipeline`) | FALSE | no flush between a forward and its backward; `flush` does nothing at the step it ran last (`training.py:4051`) | `FlushStoresLatest`: the flush after the backward writes nothing |
| `Depth` (`UVMPipeline`) | 1 | one batch is prefetched ahead, although up to 100 are allowed (`max_prefetch_depth`) | with 2, `RowsLatest`: a batch's locations are older than the row's move into the cache |

## 4. What the runs found

1. `KVDB_lost_wakeup` (`kv_db_table_batched_embeddings.cpp:452`, `:515`).  The signal for
   new work is `notify_one`, on a condition variable that gets and flushes also wait on for
   the opposite condition.  It may wake one of them; the background thread stays asleep on
   a non-empty queue, and the get that was woken goes back to sleep.
2. `FE_destroy` (`feature_evict.h:838`).  The destructor sets `evict_interrupt_`, and a
   task waits for it to be cleared before it looks at `shutdown_`.
3. `CAR_oneshot` (`car.cu:134`).  The first warp of block 0 notifies the other ranks as
   soon as it has copied its own part of the input; the other blocks may not have, and the
   ranks read.  The small kernel of one warp, and the operations whose copy comes before
   the kernel, do not have the problem.

### What the exceptions stand for

In six more places two actors meet in a way the code does not exclude, mostly against what a
comment or a test says, and a property stated without exception would not hold.  The code's
step stays unguarded there; a history keeps exactly what was spoiled that way, and the
properties and theorems are about everything else.  To see one happen, drop the history
from the property named first and run its configuration.

| history | what happens | who says otherwise | in |
|---|---|---|---|
| `collided` (`EmbeddingKVDB`) | a set and a get are inside `enqueue()` of the single-producer queue together (`kv_db_table_batched_embeddings.cpp:446`, `:508`) and an item is lost | the comment at `:437`, updates are finished before the next lookup; the header at `:578` has the update of a backward run in parallel with a read.  Host callbacks on one thread, which is what `raw_embedding_streamer.cpp:268` says of CUDA, cannot overlap; nothing in the class makes its callers be such | `GetReadsLatest`, `NoRowLost`, `FlushComplete`, `StorageNeverRegresses`, `ImplementsKVStore` |
| `stray` (`DramShard`) | the scan of inference frees a block that a set has found, or filled and not inserted: the scan frees under the pool's lock alone | `dram_kv_inference_embedding.h:278`, the read lock prevents it; `:300`, the pool's lock is enough | `MapSound`, `NothingLeaks`, `GetReadsItsRow`, `RowsSettle`, `FreshRowsSurvive` |
| `contended` (`DramShard`) | two sets of one key fill a block each, one of which leaks, or copy under a lock they share and leave half of each row | `kv_embedding_inference_test.cpp:467`, the value is one of those written | `NothingLeaks`, `GetReadsItsRow`, `RowsSettle`, `FreshRowsSurvive` |
| `overrun` (`CustomAllReduce`) | a two-shot ends with the gather and no barrier after it (`car.cu:645`), so a rank may copy the input of its next call over a sum that another has yet to gather | `multi_gpu_car_test.py:258` makes two calls in a row and expects every sum | `SumsComplete` |
| `missed` (`RawEmbeddingStreamer`) | SSD training streams the index of a row that has left the cache with what the buffer held before (`tbe/ssd/training.py:2221`) | `raw_embedding_streamer.h:69`, each row is paired with its index; UVM training masks such indices | `PairedUnlessMissed` |
| `torn` (`UVMPipeline`) | a flush next to an insertion on the prefetch stream writes a new row's weights to the row the way held before | nobody; the tests flush when all prefetches were waited for | `RowsLatest`, `FlushStoresLatest` |

## 5. What is proved

All theorems are for every value of the constants that the modules' assumptions allow.

* `RWLock_proofs`: `Invariance` of `IInv`, the conjunction of the types, of
  `CountersMatch`, `Exclusion` and `SleepersHaveAWaker`, none of which is inductive alone:
  that a counter is not decremented below zero needs `CountersMatch`, whose part on the
  writer's flag needs `Exclusion`.  `MutualExclusion`, `NoLostSleeper` and `Priority` (an
  action property) follow.
* `FeatureEvict_proofs`, under `QuietWait`: `IInv` says that the two
  counters count the tasks asleep and the tasks done (`Counting`), that a scan is within
  its snapshot and leaves only when complete (`Scanning`), and that a round's futures are
  tracked (`Tracking`).  From it `SanityChecksHold`, `RoundsComplete`, `ScansObeyPause`,
  `WaitsAreSound`.
* `EmbeddingKVDB_proofs`: `Control` is the type invariant, the shape of each call at each
  place of the code, and that whoever is inside the cache holds its mutex.
  `ControlInvariance`, `TypeCorrectness` and `CacheExclusion` need no assumption on the
  callers or the queue.
* The same module, under `~AllocFails` (CacheLib finds room; where it does
  not, `put` drops the row and logs it), and for as long as no two threads have been inside
  `enqueue` together (`~collided`, a part of the statements and not an assumption):
  `EveryRowKept` says where the newest row of an index may be, and is not inductive.  `Data` adds that the rows of an index only get newer
  from the storage over the cache to the end of the queue (`Ordered`), what each call has in
  hand at each place (`Calls`), what the background thread has done with the head of the
  queue (`Applied`), that victims are written before the mutex is released (`Clean`) and
  that the rows of calls in progress are apart (`Apart`, from `MayCall`).
  `IInv == Control /\ Data` is kept by every step from a state with `~collided`, also by the
  one in which the second producer enters (`UnharmedStep`); `NothingLost`, `GetsAreCurrent`,
  `FlushesAreComplete` and `StorageAdvancesOnly` follow.  `Implementation` is the refinement
  of `KVStore`: the initial states map to initial states (`InitImplements`), and a step maps to
  a step of the store (begin, effect, reply, `Persist`) or to a stutter, one lemma for each
  kind of step (`StepImplements`).
* `DramShard_proofs`, for sets that overlap each other and the scan at will: `IInv` adds to
  the types who excludes whom (`Control`), what a set knows of its keys until it is done with
  them (`CallsKnow`, `Overlaps`, `AllFresh`), and both directions between keys and blocks:
  where a key leads (`Leads`, `HitsOwn`), who leads to a block (`Led`), and that a key about
  to be erased has no block and gets none (`Gone`), without which an erase could lose one.
  `Invariance`, `MapIsSound` and `PoolNeverLeaks` follow.  `RowsInv` says what is in the row of
  a key nobody sets, of one half copied and of one done, and gives `GetsReadTheirRow` and
  `RowsOfLastSets`.  `FreshRowsAreKept` is an action property: `TimesInv` says which timestamp
  the row of a key has while sets of it are in progress, and that a key about to be erased
  is old.
* `CustomAllReduce_proofs`, for every sequence of operations and without assumptions on the
  callers.  `IInv` says where the warps of a block are with respect to each other
  (`InStep`, from `__syncthreads`), what a flag says of the rank or block that posted it
  (`Posted`), what a block knows of all ranks once its first warp has waited, that a rank is
  at most one call ahead of another and what the other still has to do then (`Ahead`), and
  the rows in the buffers and outputs.  A rank that is a call ahead may still be gathered
  from: the history `overrun` names the cells it has overwritten by then, and
  `SumsComplete` leaves out those, and the parts of a one-shot that no flag answers for.
* `RawEmbeddingStreamer_proofs`, for both callers and both ways of copying: `IInv` says
  that the device work of an iteration is in order and before that of the next (`InOrder`),
  and what the buffers and the copy thread hold at each point of it (`InStep`, one form per
  caller); an index of SSD training is paired or in `missed`.  It says nothing once a poll
  has timed out, nor of buffers that are streamed without a copy, and neither does
  `PairedUnlessMissed`.
* `UVMPipeline_proofs`, under `Depth = 1` (the next batch is prefetched while one is trained,
  as the hooks of `backward` expect; with `Depth = 2` TLC finds a row read before it is
  trained), for finitely many rows and ways.  The inductive invariant has two halves.
  `Order` is about the streams only: what is queued in which order (`MainOrder`, `SideOrder`),
  that an unlock and its backward, or the two halves of an insertion, follow each other
  (`MainPairs`, `SidePairs`), and what the waits between the streams guarantee
  (`LookedUpFirst`, `KeptApart`, `TrainedFirst`), which needs what the host knows of places in
  main (`Gated`).  `Device` is about the cache: whose ways are locked (`Locks`),
  that a way stamped with a batch is in use by it (`Times`), that a row is refused a way while
  an earlier batch holds its own only if all are held (`Full`), which is why a row missing
  for a batch is missing for the next one too (`StillMissing`), and where each row's
  latest value is (`Values`), rows in `torn` aside: nothing orders a flush with the two halves
  of an insertion.  `OneStep` preserves both, with a lemma for each kernel;
  `RowsAreLatest`, `RowsAreTrainedOnce`, `LocksAreCounted` and `FlushesStoreLatest` follow.
* `SSDPipeline_proofs`, for finitely many rows and ways and both pipeline modes; only
  `FlushesStoreLatest` assumes more, `~FlushMidStep` (the trainer does not flush between a
  forward and its backward).  The inductive invariant, which TLC checked first, again has
  two halves.  `Order` says which work of which batch is done before which (`First`,
  `AllOrdered`), on four streams: from the order within a stream (`InTurn`, `FlushLast`,
  `UnlockBefore`) and from the places the pieces of work wait for (`Waits`), which needs what
  the host knows of them (`HostOK`).  `OrderChains` draws from it the orders that take two
  or more waits, such as a row's write to the store before it is fetched again.  `Device`
  is stated in terms of the work still `Pending`: what the arrays of a batch are once its
  prefetch is that far (`Layout`), the queue of pads (`IndexQueue`), the counters (`Locks`,
  `Times`), and `Values`, which follows the latest value of each row: in its way once
  filled, in the way or the buffer it is being evicted from, in the pad of the batch that
  missed it or of the batch before, else in the store.  There is one lemma for each kernel
  and each half of `Values` it can disturb; `OneStep` combines them.

Only model-checked: liveness (out of TLAPS's reach here).  Every invariant
and every action property of a passing run is the subject of a theorem.

## 6. Plan

Done, the most important first: the fill queue, cache and storage of `EmbeddingKVDB` and its
refinement of `KVStore`, proved; `FeatureEvict`, `_RWLock` and one shard of the DRAM stores with
their proofs; SSD training over L1 and scratch pads, UVM training, the streamer and the custom
all-reduce, with their proofs.

Left:

1. the DRAM store over its SSD: dirty marks, the writeback of evicted rows (which reach the
   callback after the shard lock is released, `feature_evict.h:821`), enrichment and laser
   writes;
2. `EmbeddingRocksDB`: snapshots, checkpoints, the destructor; `Initializer`;
3. SSD training in eval mode and with direct writes; prefetches several batches ahead.

### Not modelled

The notes of `components` in `PROJECT.json` give the reason for each component.  Numeric
kernels (GEMM, forward, backward, quantization, jagged and sparse operators), which are
most of the repository's lines, have no state between calls; TLC has nothing to say of
floating-point arrays, and the project's share of the repository stays small for that
reason.  CUDA, RocksDB, CacheLib and folly are external and modelled by what this code
relies on.

Hazards seen while reading that no property covers, beside those of `PROJECT.json`: the
destructor of `EmbeddingRocksDB` closes the database before the base class joins its
background thread (`ssd_table_batched_embeddings.h:342`); `laser_write_in_progress_` is not
cleared when an enrichment throws (`dram_kv_embedding_cache.h:874`); a backward set with
count 0 returns before it resumes eviction (`kv_db_table_batched_embeddings.cpp:428`);
`trigger_evict` of the inference wrapper resumes without force, which does nothing
(`dram_kv_embedding_inference_wrapper.cpp:150`); a key given twice in one inference set
leaks a block (`dram_kv_inference_embedding.h:309`); the streamer keeps the table of an
index as a signed byte (`raw_embedding_streamer.cpp:361`).
