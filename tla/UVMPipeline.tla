------------------------------ MODULE UVMPipeline ------------------------------
(***************************************************************************)
(* Training with tables in UVM and an L1 cache on the GPU                  *)
(* (SplitTableBatchedEmbeddingBagsCodegen with MANAGED_CACHING): prefetch  *)
(* on a stream of its own, forward and backward on the main stream.  The   *)
(* cache is LRU, with prefetches pipelined or not, or LFU.                 *)
(*                                                                         *)
(* A row is the number of times it has been trained.  A prefetch of a      *)
(* batch may take its indices in two passes.  A flush can meet a row while *)
(* an insertion on the other stream evicts it, and spoil it: torn.         *)
(***************************************************************************)
EXTENDS LxuCache, CudaStreams, Functions

CONSTANTS
    MaxBatches,  \* bound: batches trained
    MaxQueued,   \* bound: work queued on main when a forward is
    MaxFlushes,  \* bound: flushes
    MaxSplits,   \* bound: batches prefetched in two passes
    MaxTimes,    \* bound: times a batch has an index (LFU counts them)
    Depth        \* how far ahead of backward the trainer prefetches

ASSUME UVMConstants ==
    /\ NoIdx \notin Idx /\ Ways \subseteq Nat \ {0}
    /\ IsFiniteSet(Idx) /\ IsFiniteSet(Ways)
    /\ MaxBatches \in Nat /\ MaxQueued \in Nat /\ MaxFlushes \in Nat
    /\ MaxSplits \in Nat
    /\ MaxTimes \in Nat \ {0} /\ Depth \in Nat \ {0}

Batches == 1..MaxBatches
Passes  == 1..2
Garbage == -1
Nothing == [x \in {} |-> NoWay]

VARIABLES
    pipeline,  \* prefetch_pipeline, which is lock_cache_line
    lfu,       \* cache_algorithm is LFU
    side,      \* the stream prefetches are queued on
    nextP,     \* the batch the host prefetches next,
    nextF,     \* the one it runs forward next
    nextB,     \* and backward
    flushes,   \* flushes called
    gate,      \* where in main prefetch_stream.wait_stream was called last
    cache,     \* lxu_cache_state, lxu_state, lxu_cache_locking_counter
    l1,        \* lxu_cache_weights
    count,     \* lfu_state
    uvm,       \* weights_uvm
    batch,     \* for each batch: the indices of each pass,
    loc,       \* and lxu_cache_locations: a way for each index of each pass
    taken,     \* the ways an insertion has moved rows of, not their tags
    torn       \* history: the rows a flush met while they were evicted

host   == <<pipeline, lfu, side, nextP, nextF, nextB, flushes, gate, batch>>
device == <<cache, l1, count, uvm, loc, taken, torn>>
vars   == <<host, streams, device>>

Indices(i) == UNION {batch[i][p] : p \in Passes}

\* How many of the batches before i train x.
Trained(x, i) == Cardinality({j \in 1..(i - 1) : x \in Indices(j)})

Read(x, w) == IF w = NoWay THEN uvm[x] ELSE l1[w]

\* A stream ends its piece of work; the host's variables do not change.
Done(s) == Finish(s) /\ UNCHANGED host

-----------------------------------------------------------------------------
(* The host.                                                               *)
-----------------------------------------------------------------------------
(* prefetch, or the one forward does: the work of the passes P.            *)
Prefetch(P) ==
    LET i == nextP
        pass(p) == <<Work("insert", i, p, {<<"main", gate>>}), Work("lookup", i, p, {})>>
    IN  /\ i <= MaxBatches
        /\ IF pipeline THEN i < nextB + 1 + Depth ELSE i = nextF /\ i = nextB /\ P[2] = {}
        /\ P[2] = {} \/ Cardinality({j \in Batches : batch[j][2] # {}}) < MaxSplits
        /\ todo' = [todo EXCEPT ![side] =
                       @ \o pass(1) \o (IF P[2] = {} THEN <<>> ELSE pass(2))]
        /\ batch' = [batch EXCEPT ![i] = P]
        /\ nextP' = i + 1
        /\ UNCHANGED <<pipeline, lfu, side, nextF, nextB, flushes, gate, ran, device>>

(* forward: the trainer has main wait for the prefetch stream before.      *)
Forward ==
    /\ nextF < nextP /\ nextF = nextB /\ Len(todo["main"]) <= MaxQueued
    /\ todo' = [todo EXCEPT !["main"] = Append(@, Work("forward", nextF, 0, {<<side, End(side)>>}))]
    /\ nextF' = nextF + 1
    /\ UNCHANGED <<pipeline, lfu, side, nextP, nextB, flushes, gate, ran, batch, device>>

(* backward, with _update_cache_counter_and_locations before it and        *)
(* _sync_stream_post_backward after it when prefetches are pipelined.      *)
Prefetched_NotWaitedFor == {}
Prefetched == {<<side, End(side)>>}

Backward ==
    LET i == nextB
        before == IF pipeline THEN <<Work("unlock", i, 0, Prefetched)>> ELSE <<>>
    IN  /\ nextB < nextF
        /\ todo' = [todo EXCEPT !["main"] = @ \o before \o <<Work("backward", i, 0, {})>>]
        /\ gate' = IF side = "prefetch" THEN End("main") + Len(before) + 1 ELSE gate
        /\ nextB' = i + 1
        /\ UNCHANGED <<pipeline, lfu, side, nextP, nextF, flushes, ran, batch, device>>

(* flush: on main, at any time; it waits for no prefetch on another stream.*)
Flush ==
    /\ flushes < MaxFlushes
    /\ todo' = [todo EXCEPT !["main"] = Append(@, Work("flush", nextB, 0, {}))]
    /\ flushes' = flushes + 1
    /\ UNCHANGED <<pipeline, lfu, side, nextP, nextF, nextB, gate, ran, batch, device>>

-----------------------------------------------------------------------------
(* The kernels.                                                            *)
-----------------------------------------------------------------------------
(* lru_cache_populate or lfu_cache_populate, up to the tags: the insertion *)
(* kernel writes the rows of the ways it takes to UVM and reads the new    *)
(* ones from there.  Main's flush can come before it changes the tags.     *)
InsertRows ==
    LET i      == Head(todo[side]).i
        B      == batch[i][Head(todo[side]).k]
        missed == B \ Cached(cache)
        found  == IF lfu THEN cache ELSE Touch(cache, B, i, pipeline)
    IN  /\ Runs(side, "insert")
        /\ \E n \in IF lfu THEN [B -> 1..MaxTimes] ELSE {[x \in B |-> 0]} :
              count' = [x \in Idx |-> IF x \in B THEN count[x] + n[x] ELSE count[x]]
        /\ \E a \in IF lfu THEN LFUAssignments(found, count', missed)
                    ELSE UVMAssignments(found, missed, i, pipeline) :
              /\ uvm' = [x \in Idx |-> IF x \in Evicted(found, a)
                                       THEN l1[Location(found, x)] ELSE uvm[x]]
              /\ l1' = [w \in Ways |->
                            IF w \in Range(a) THEN uvm[CHOOSE x \in DOMAIN a : a[x] = w] ELSE l1[w]]
              /\ taken' = a
        /\ cache' = found
        /\ Done(side)
        /\ UNCHANGED <<loc, torn>>

(* The tags, and lxu_cache_lookup of the pass into its part of the         *)
(* locations.                                                              *)
InsertTags ==
    LET i   == Head(todo[side]).i
        p   == Head(todo[side]).k
        new == Insert(cache, taken, i, pipeline)
    IN  /\ Runs(side, "lookup")
        /\ cache' = IF lfu THEN [cache EXCEPT !.tag = new.tag] ELSE new
        /\ loc' = [loc EXCEPT ![i] = [q \in DOMAIN loc[i] \cup (batch[i][p] \X {p}) |->
                                          IF q[2] = p THEN Location(new, q[1]) ELSE loc[i][q]]]
        /\ taken' = Nothing
        /\ Done(side)
        /\ UNCHANGED <<l1, count, uvm, torn>>

ForwardRun ==
    /\ Runs("main", "forward")
    /\ Done("main")
    /\ UNCHANGED device

(* _update_cache_counter_and_locations: the batch's ways are unlocked, and *)
(* its locations looked up again.                                          *)
LookedUp_BeforeOnly(i) == loc[i]
LookedUp(i) == [q \in DOMAIN loc[i] |-> Location(cache, q[1])]

UpdateLocations ==
    LET i == Head(todo["main"]).i
    IN  /\ Runs("main", "unlock")
        /\ cache' = Unlock(cache, loc[i])
        /\ loc' = [loc EXCEPT ![i] = LookedUp(i)]
        /\ Done("main")
        /\ UNCHANGED <<l1, count, uvm, taken, torn>>

(* The backward kernel trains each row of the batch once, where one of its *)
(* locations says.                                                         *)
BackwardRun ==
    LET i == Head(todo["main"]).i
    IN  /\ Runs("main", "backward")
        /\ \E at \in {f \in [Indices(i) -> Ways \cup {NoWay}] :
                         \A x \in Indices(i) : \E p \in Passes :
                             x \in batch[i][p] /\ f[x] = loc[i][<<x, p>>]} :
              /\ l1' = [w \in Ways |-> l1[w] + Cardinality({x \in Indices(i) : at[x] = w})]
              /\ uvm' = [x \in Idx |-> IF x \in Indices(i) /\ at[x] = NoWay
                                       THEN uvm[x] + 1 ELSE uvm[x]]
        /\ loc' = [loc EXCEPT ![i] = Nothing]
        /\ Done("main")
        /\ UNCHANGED <<cache, count, taken, torn>>

(* lxu_cache_flush: each way's weights go to the row its tag names.  Of the *)
(* ways an insertion on another stream is moving it may meet some before,  *)
(* and some after: those it copies to the rows they held before.           *)
Moving(W) == {cache.tag[w] : w \in W} \ {NoIdx}

FlushRun ==
    /\ Runs("main", "flush")
    /\ \E late \in SUBSET Range(taken) :
          /\ uvm' = [x \in Idx |-> IF x \in Cached(cache) \ Moving(Range(taken) \ late)
                                   THEN l1[Location(cache, x)] ELSE uvm[x]]
          /\ torn' = torn \cup Moving(late)
    /\ Done("main")
    /\ UNCHANGED <<cache, l1, count, loc, taken>>

-----------------------------------------------------------------------------
Init ==
    /\ pipeline \in BOOLEAN
    /\ lfu \in IF pipeline THEN {FALSE} ELSE BOOLEAN
    /\ side \in IF pipeline THEN {"main", "prefetch"} ELSE {"main"}
    /\ nextP = 1 /\ nextF = 1 /\ nextB = 1 /\ flushes = 0 /\ gate = 0
    /\ batch = [i \in Batches |-> [p \in Passes |-> {}]]
    /\ StreamsInit({"main", "prefetch"})
    /\ cache = EmptyCache /\ l1 = [w \in Ways |-> Garbage]
    /\ count = [x \in Idx |-> 0] /\ uvm = [x \in Idx |-> 0]
    /\ taken = Nothing /\ torn = {} /\ loc = [i \in Batches |-> Nothing]

Next ==
    \/ \E P \in [Passes -> SUBSET Idx] : Prefetch(P)
    \/ Forward \/ Backward \/ Flush
    \/ InsertRows \/ InsertTags
    \/ ForwardRun \/ UpdateLocations \/ BackwardRun \/ FlushRun

Spec == Init /\ [][Next]_vars

-----------------------------------------------------------------------------
(* When a forward or a backward runs, what it reads for every index of its *)
(* batch, at each of the index's locations, is the row trained by every    *)
(* batch before: no update is left behind in UVM or in the cache.  Only a  *)
(* row that a flush met while an insertion was evicting it may be lost.    *)
RowsLatest ==
    \A w \in {"forward", "backward"} : Runs("main", w) =>
        LET i == Head(todo["main"]).i
        IN  \A p \in Passes : \A x \in batch[i][p] \ torn :
                Read(x, loc[i][<<x, p>>]) = Trained(x, i)

(* A row is trained where it will be found: when a backward runs and the   *)
(* row has a way, all its locations are that way.                          *)
OneCopyTrained ==
    Runs("main", "backward") =>
        LET i == Head(todo["main"]).i
        IN  \A q \in DOMAIN loc[i] : loc[i][q] = Location(cache, q[1])

(* A way's counter is the number of batches prefetched and not yet unlocked*)
(* that use it; a way is only counted once for a batch, in both passes.    *)
LocksMatchUse ==
    LET unlocked(i) == Runs("main", "backward") /\ Head(todo["main"]).i = i
        uses(i, w)  == \E q \in DOMAIN loc[i] : loc[i][q] = w
    IN  ~ Runs(side, "lookup") => \A w \in Ways : cache.lock[w] =
            IF pipeline THEN Cardinality({i \in Batches : uses(i, w) /\ ~ unlocked(i)}) ELSE 0

(* A flush leaves every row in UVM as the batches trained before it made   *)
(* it, also while later batches are prefetched, but for a row that it, or  *)
(* an earlier one, met while an insertion was evicting it.                 *)
FlushStoresLatest ==
    [][FlushRun => \A x \in Idx \ torn' : uvm'[x] = Trained(x, Head(todo["main"]).i)]_vars
=============================================================================
