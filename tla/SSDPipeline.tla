------------------------------ MODULE SSDPipeline ------------------------------
(***************************************************************************)
(* SSD training: SSDTableBatchedEmbeddingBags over the L1 cache of the     *)
(* GPU, scratch pads for the rows that find no way in it, and the store.   *)
(* The host queues work on four CUDA streams.  A wait on an event is a     *)
(* wait on the place in a stream where the event was recorded last when    *)
(* the wait was queued.                                                    *)
(*                                                                         *)
(* A row is the number of times it has been trained.  A scratch pad is a   *)
(* function from indices to rows: the code's positions in it stand for the *)
(* indices of the batch.  The store does each get and each set in one step *)
(* (KVStore, which EmbeddingKVDB implements).                              *)
(***************************************************************************)
EXTENDS LxuCache, CudaStreams

CONSTANTS
    MaxBatches,   \* bound: batches trained
    MaxQueued,    \* bound: work queued on main when a forward is
    FlushMidStep  \* the trainer may flush between a forward and its backward

ASSUME SSDConstants ==
    /\ NoIdx \notin Idx /\ Ways \subseteq Nat \ {0}
    /\ MaxBatches \in Nat /\ MaxQueued \in Nat /\ FlushMidStep \in BOOLEAN

Batches == 1..MaxBatches
Streams == {"main", "prefetch", "copy", "evict"}
Events  == {"cache_evict0", "cache_evict1", "get_inputs_cpy", "sp_idxq_insert",
            "sp_idxq_lookup", "sp_evict", "get"}
Garbage == -1     \* a row nothing was written to
Nothing == [x \in {} |-> Garbage]

VARIABLES
    pipeline,   \* prefetch_pipeline
    side,       \* the stream prefetches are queued on
    nextP,      \* the batch the host prefetches next,
    nextF,      \* the one it runs forward next
    nextB,      \* and backward
    lastFlush,  \* last_flush_step
    host,       \* "train", "flush" while flush waits, "flushed" once it returned
    pads,       \* ssd_scratch_pads: batches whose scratch pad can be looked up
    moves,      \* ssd_location_update_data: batches that took rows of the pad before
    gate,       \* where in main prefetch_stream.wait_stream was called last
    ready,      \* where in side each batch's prefetch ends
    event,      \* where each event was recorded last: a stream and a place
    cache,      \* lxu_cache_state, lru_state, lxu_cache_locking_counter
    l1,         \* lxu_cache_weights
    buffer,     \* the two buffers of evicted rows
    store,      \* the rows of ssd_db
    idxq,       \* scratch_pad_idx_queue
    flushed,    \* active rows flush has read
    batch,      \* for each batch: its indices,
    loc,        \* lxu_cache_locations,
    slot,       \* assigned_cache_slots,
    out,        \* evicted_indices, with the ways they had,
    fetch,      \* inserted_indices_cpu: misses to get from the store,
    conflict,   \* post_bwd_evicted_indices: misses without a way,
    spill,      \* and its copy on the CPU,
    found,      \* the two maps between its pad and the pad before: rows in both,
    pad,        \* inserted_rows: its scratch pad,
    ptr         \* lxu_cache_ptrs: a way, or the batch whose pad it is in

trainer == <<pipeline, side, nextP, nextF, nextB, lastFlush, host, pads, moves>>
perBatch == <<batch, loc, slot, out, fetch, conflict, spill, found, pad, ptr>>
device  == <<cache, l1, buffer, store, idxq, flushed, perBatch>>
vars    == <<trainer, gate, ready, event, streams, device>>

Read(p, x) == IF p.at = "l1" THEN l1[p.n] ELSE pad[p.n][x]

\* How many of the batches before i train x.
Trained(x, i) == Cardinality({j \in 1..(i - 1) : x \in batch[j]})

step == nextF - 1

\* A stream ends its piece of work; the host's variables do not change.
Done(s) == Finish(s) /\ UNCHANGED <<trainer, gate, ready, event>>

EvictEvent(i) == IF i % 2 = 0 THEN "cache_evict0" ELSE "cache_evict1"

-----------------------------------------------------------------------------
(* The host.                                                               *)
-----------------------------------------------------------------------------
(* _prefetch of batch i, with indices B.  The trainer prefetches a batch   *)
(* while the one before it is not trained backward, when prefetches are    *)
(* pipelined, and then no batch is empty; forward itself prefetches its    *)
(* batch when they are not.                                                *)
(* What is queued on each stream, and where the events are recorded:       *)
Prefetch(B) ==
    LET i      == nextP
        lookup == pipeline /\ pads # <<>>
        p      == End(side)
        filled == p + 5 + (IF lookup THEN 1 ELSE 0)
        copied == <<"copy", End("copy") + 1>>
        got    == <<side, filled - 1>>
        looked == IF lookup THEN <<side, p + 4>> ELSE event["sp_idxq_lookup"]
        e      == End("evict") + (IF B = {} THEN 0 ELSE 1)
        onSide ==
            <<Work("populate", i, 0, {<<"main", gate>>}),
              Work("compact", i, 0, {event[EvictEvent(i)]}),
              Work("select", i, 0, {})>>
            \o (IF lookup
                THEN <<Work("lookup", i, Head(pads), {copied, event["sp_idxq_insert"]})>>
                ELSE <<>>)
            \o <<Work("get", i, 0, {copied, event["sp_evict"]}),
                 Work("fill", i, 0, {})>>
        onEvict ==
            (IF B = {} THEN <<>> ELSE <<Work("evict", i, 0, {got})>>)
            \o <<Work("spill", i, 0, {<<side, filled>>})>>
            \o (IF pipeline THEN <<Work("enqueue", i, 0, {copied, looked})>> ELSE <<>>)
    IN  /\ host # "flush"
        /\ i <= MaxBatches
        /\ IF pipeline THEN B # {} /\ (i = 1 \/ i = nextB + 1) ELSE i = nextF /\ i = nextB
        /\ todo' = [todo EXCEPT
                       ![side] = @ \o onSide,
                       !["copy"] = Append(@, Work("copy", i, 0, {<<side, p + 2>>})),
                       !["evict"] = @ \o onEvict]
        /\ event' = [event EXCEPT
                        !["get_inputs_cpy"] = copied,
                        !["get"] = got,
                        !["sp_idxq_lookup"] = looked,
                        ![EvictEvent(i)] = IF B = {} THEN @ ELSE <<"evict", e>>,
                        !["sp_idxq_insert"] = IF pipeline THEN <<"evict", e + 2>> ELSE @]
        /\ ready' = [ready EXCEPT ![i] = filled]
        /\ pads' = IF pipeline THEN Append(IF lookup THEN Tail(pads) ELSE pads, i) ELSE pads
        /\ moves' = IF lookup THEN Append(moves, i) ELSE moves
        /\ batch' = [batch EXCEPT ![i] = B]
        /\ nextP' = i + 1
        /\ host' = "train"
        /\ UNCHANGED <<pipeline, side, nextF, nextB, lastFlush, gate, ran, cache, l1, buffer,
                       store, idxq, flushed, loc, slot, out, fetch, conflict, spill, found, pad, ptr>>

(* forward: the trainer has main wait for the batch's prefetch.            *)
Forward ==
    /\ host # "flush"
    /\ nextF < nextP /\ nextF = nextB /\ Len(todo["main"]) <= MaxQueued
    /\ todo' = [todo EXCEPT !["main"] =
                   Append(@, Work("forward", nextF, 0, {<<side, ready[nextF]>>}))]
    /\ nextF' = nextF + 1
    /\ host' = "train"
    /\ UNCHANGED <<pipeline, side, nextP, nextB, lastFlush, pads, moves, gate, ready, event,
                   ran, device>>

(* backward: the hook before it updates pointers, the one after it evicts  *)
(* the scratch pad.                                                        *)
Backward ==
    LET i      == nextB
        before == IF ~ pipeline THEN <<>>
                  ELSE <<Work("unlock", i, IF moves = <<>> THEN 0 ELSE Head(moves),
                              {<<side, End(side)>>})>>
        m      == End("main") + Len(before) + 1
    IN  /\ host # "flush"
        /\ nextB < nextF
        /\ pipeline => nextP = i + 2 \/ i = MaxBatches
        /\ todo' = [todo EXCEPT
                       !["main"] = @ \o before \o <<Work("backward", i, 0, {})>>,
                       !["evict"] = IF batch[i] = {} THEN @
                                    ELSE Append(@, Work("sp_evict", i, 0, {<<"main", m>>}))]
        /\ event' = [event EXCEPT !["sp_evict"] =
                        IF batch[i] = {} THEN @ ELSE <<"evict", End("evict") + 1>>]
        /\ moves' = IF pipeline /\ moves # <<>> THEN Tail(moves) ELSE moves
        /\ gate' = IF side = "prefetch" /\ batch[i] # {} THEN m ELSE gate
        /\ nextB' = i + 1
        /\ host' = "train"
        /\ UNCHANGED <<pipeline, side, nextP, nextF, lastFlush, pads, ready, ran, device>>

(* flush: nothing if it ran at this step already, else it reads the active *)
(* rows on main, waits for every stream, and sets them.  A trainer that    *)
(* does not flush in the middle of a step does it right after a backward,  *)
(* or before the first prefetch.                                           *)
EndOfStep == nextF = nextB /\ IF nextB = 1 THEN nextP = 1 ELSE nextP <= nextB + 1

Flush ==
    /\ host # "flush"
    /\ EndOfStep \/ (FlushMidStep /\ nextF = nextB + 1)
    /\ IF step = lastFlush
       THEN host' = "flushed" /\ UNCHANGED todo
       ELSE /\ host' = "flush"
            /\ todo' = [todo EXCEPT !["main"] = Append(@, Work("flush", 0, 0, {}))]
    /\ UNCHANGED <<pipeline, side, nextP, nextF, nextB, lastFlush, pads, moves, gate, ready,
                   event, ran, device>>

Synchronized_MainOnly == todo["main"] = <<>>
Synchronized == Idle

FlushWrite ==
    /\ host = "flush" /\ Synchronized
    /\ store' = [x \in Idx |-> IF x \in DOMAIN flushed THEN flushed[x] ELSE store[x]]
    /\ flushed' = Nothing
    /\ lastFlush' = step
    /\ host' = "flushed"
    /\ UNCHANGED <<pipeline, side, nextP, nextF, nextB, pads, moves, gate, ready, event, todo,
                   ran, cache, l1, buffer, idxq, perBatch>>

-----------------------------------------------------------------------------
(* The prefetch of a batch, on its stream.                                 *)
-----------------------------------------------------------------------------
(* ssd_cache_populate_actions and lxu_cache_lookup: rows get their ways;   *)
(* what is in the ways does not change yet.                                *)
Populate ==
    LET i      == Head(todo[side]).i
        missed == batch[i] \ Cached(cache)
        found1 == Touch(cache, batch[i], i, pipeline)
    IN  /\ Runs(side, "populate")
        /\ \E a \in SSDAssignments(found1, missed, i, pipeline) :
              LET new == Insert(found1, a, i, pipeline)
              IN  /\ cache' = new
                  /\ slot' = [slot EXCEPT ![i] = a]
                  /\ loc' = [loc EXCEPT ![i] = Lookup(new, batch[i])]
                  /\ out' = [out EXCEPT ![i] = [y \in Evicted(found1, a) |-> Location(found1, y)]]
        /\ Done(side)
        /\ UNCHANGED <<l1, buffer, store, idxq, flushed, batch, fetch, conflict, spill, found, pad, ptr>>

(* compact_indices into the buffer, once its last eviction is done.        *)
Compact ==
    LET i == Head(todo[side]).i
    IN  /\ Runs(side, "compact")
        /\ buffer' = [buffer EXCEPT ![i % 2] = [x \in DOMAIN out[i] |-> Garbage]]
        /\ Done(side)
        /\ UNCHANGED <<cache, l1, store, idxq, flushed, perBatch>>

(* masked_index_select of the rows to evict.                               *)
Select ==
    LET i == Head(todo[side]).i
    IN  /\ Runs(side, "select")
        /\ buffer' = [buffer EXCEPT ![i % 2] = [x \in DOMAIN @ |-> l1[out[i][x]]]]
        /\ Done(side)
        /\ UNCHANGED <<cache, l1, store, idxq, flushed, perBatch>>

(* The copy of inserted_indices to the CPU, on its own stream.             *)
Copy ==
    LET i == Head(todo["copy"]).i
    IN  /\ Runs("copy", "copy")
        /\ fetch' = [fetch EXCEPT ![i] =
                        DOMAIN slot[i] \cup {x \in batch[i] : loc[i][x] = NoWay}]
        /\ Done("copy")
        /\ UNCHANGED <<cache, l1, buffer, store, idxq, flushed, batch, loc, slot, out, conflict,
                       spill, found, pad, ptr>>

(* lookup_mask_and_pop_front, and the copy of the rows found in the pad of *)
(* batch k: they are neither read from the store nor evicted from that pad.*)
LookupPad ==
    LET i   == Head(todo[side]).i
        k   == Head(todo[side]).k
        hit == fetch[i] \cap Head(idxq)
    IN  /\ Runs(side, "lookup") /\ idxq # <<>>
        /\ idxq' = Tail(idxq)
        /\ fetch' = [fetch EXCEPT ![i] = @ \ hit]
        /\ spill' = [spill EXCEPT ![k] = @ \ hit]
        /\ found' = [found EXCEPT ![i] = hit]
        /\ pad' = [pad EXCEPT ![i] = [x \in Idx |-> IF x \in hit THEN pad[k][x] ELSE @[x]]]
        /\ Done(side)
        /\ UNCHANGED <<cache, l1, buffer, store, flushed, batch, loc, slot, out, conflict, ptr>>

(* ssd_db.get_cuda into the scratch pad.                                   *)
Get ==
    LET i == Head(todo[side]).i
    IN  /\ Runs(side, "get")
        /\ pad' = [pad EXCEPT ![i] = [x \in Idx |-> IF x \in fetch[i] THEN store[x] ELSE @[x]]]
        /\ Done(side)
        /\ UNCHANGED <<cache, l1, buffer, store, idxq, flushed, batch, loc, slot, out, fetch,
                       conflict, spill, found, ptr>>

(* masked_index_put of the rows that have a way, ssd_generate_row_addrs.   *)
Fill ==
    LET i == Head(todo[side]).i
        row(w) == {x \in DOMAIN slot[i] : slot[i][x] = w}
    IN  /\ Runs(side, "fill")
        /\ l1' = [w \in Ways |-> IF row(w) = {} THEN l1[w] ELSE pad[i][CHOOSE x \in row(w) : TRUE]]
        /\ ptr' = [ptr EXCEPT ![i] =
                      [x \in batch[i] |-> IF loc[i][x] = NoWay THEN [at |-> "pad", n |-> i]
                                          ELSE [at |-> "l1", n |-> loc[i][x]]]]
        /\ conflict' = [conflict EXCEPT ![i] =
                           {x \in batch[i] \ DOMAIN slot[i] : loc[i][x] = NoWay}]
        /\ Done(side)
        /\ UNCHANGED <<cache, buffer, store, idxq, flushed, batch, loc, slot, out, fetch, spill,
                       found, pad>>

-----------------------------------------------------------------------------
(* The eviction stream.                                                    *)
-----------------------------------------------------------------------------
Evict ==
    LET b == Head(todo["evict"]).i % 2
    IN  /\ Runs("evict", "evict")
        /\ store' = [x \in Idx |-> IF x \in DOMAIN buffer[b] THEN buffer[b][x] ELSE store[x]]
        /\ Done("evict")
        /\ UNCHANGED <<cache, l1, buffer, idxq, flushed, perBatch>>

Spill ==
    LET i == Head(todo["evict"]).i
    IN  /\ Runs("evict", "spill")
        /\ spill' = [spill EXCEPT ![i] = conflict[i]]
        /\ Done("evict")
        /\ UNCHANGED <<cache, l1, buffer, store, idxq, flushed, batch, loc, slot, out, fetch,
                       conflict, found, pad, ptr>>

(* SSDScratchPadIndicesQueue::insert, of an empty map too.                 *)
Inserted_UnlessEmpty(map) == IF map = {} THEN idxq ELSE Append(idxq, map)
Inserted(map) == Append(idxq, map)

Enqueue ==
    LET i == Head(todo["evict"]).i
    IN  /\ Runs("evict", "enqueue")
        /\ idxq' = Inserted(spill[i])
        /\ Done("evict")
        /\ UNCHANGED <<cache, l1, buffer, store, flushed, perBatch>>

(* evict of the scratch pad, after backward.                               *)
EvictPad ==
    LET i == Head(todo["evict"]).i
    IN  /\ Runs("evict", "sp_evict")
        /\ store' = [x \in Idx |-> IF x \in spill[i] THEN pad[i][x] ELSE store[x]]
        /\ Done("evict")
        /\ UNCHANGED <<cache, l1, buffer, idxq, flushed, perBatch>>

-----------------------------------------------------------------------------
(* The main stream.                                                        *)
-----------------------------------------------------------------------------
ForwardRun ==
    /\ Runs("main", "forward")
    /\ Done("main")
    /\ UNCHANGED device

(* _update_cache_counter_and_pointers: the batch's ways are unlocked, and  *)
(* the rows batch k took from its pad are pointed at where they are now.   *)
Moved_NotTracked(k) == {}
Moved(k) == IF k = 0 THEN {} ELSE found[k]

UpdatePointers ==
    LET i == Head(todo["main"]).i
        k == Head(todo["main"]).k
        now == Lookup(cache, batch[i])
    IN  /\ Runs("main", "unlock")
        /\ cache' = Unlock(cache, loc[i])
        /\ loc' = [loc EXCEPT ![i] = now]
        /\ ptr' = [ptr EXCEPT ![i] = [x \in batch[i] |->
                      IF x \notin Moved(k) THEN @[x]
                      ELSE IF now[x] = NoWay THEN [at |-> "pad", n |-> k]
                      ELSE [at |-> "l1", n |-> now[x]]]]
        /\ Done("main")
        /\ UNCHANGED <<l1, buffer, store, idxq, flushed, batch, slot, out, fetch, conflict, spill,
                       found, pad>>

(* The backward kernel trains each row of the batch where it is.           *)
BackwardRun ==
    LET i == Head(todo["main"]).i
        at(p) == {x \in batch[i] : ptr[i][x] = p}
    IN  /\ Runs("main", "backward")
        /\ l1' = [w \in Ways |-> IF at([at |-> "l1", n |-> w]) = {} THEN l1[w] ELSE l1[w] + 1]
        /\ pad' = [k \in Batches |-> [x \in Idx |->
                      IF x \in at([at |-> "pad", n |-> k]) THEN pad[k][x] + 1 ELSE pad[k][x]]]
        /\ ptr' = [ptr EXCEPT ![i] = Nothing]
        /\ loc' = [loc EXCEPT ![i] = Nothing]
        /\ Done("main")
        /\ UNCHANGED <<cache, buffer, store, idxq, flushed, batch, slot, out, fetch, conflict,
                       spill, found>>

FlushRead ==
    /\ Runs("main", "flush")
    /\ flushed' = [x \in Cached(cache) |-> l1[Location(cache, x)]]
    /\ Done("main")
    /\ UNCHANGED <<cache, l1, buffer, store, idxq, perBatch>>

-----------------------------------------------------------------------------
Init ==
    /\ pipeline \in BOOLEAN
    /\ side \in IF pipeline THEN {"main", "prefetch"} ELSE {"main"}
    /\ nextP = 1 /\ nextF = 1 /\ nextB = 1 /\ lastFlush = -1 /\ host = "train"
    /\ pads = <<>> /\ moves = <<>>
    /\ gate = 0 /\ ready = [i \in Batches |-> 0] /\ event = [e \in Events |-> Start]
    /\ StreamsInit(Streams)
    /\ cache = EmptyCache /\ l1 = [w \in Ways |-> Garbage]
    /\ buffer = [b \in 0..1 |-> Nothing] /\ store = [x \in Idx |-> 0]
    /\ idxq = <<>> /\ flushed = Nothing
    /\ batch = [i \in Batches |-> {}] /\ loc = [i \in Batches |-> Nothing]
    /\ slot = [i \in Batches |-> Nothing] /\ out = [i \in Batches |-> Nothing]
    /\ fetch = [i \in Batches |-> {}] /\ conflict = [i \in Batches |-> {}]
    /\ spill = [i \in Batches |-> {}] /\ found = [i \in Batches |-> {}]
    /\ pad = [i \in Batches |-> [x \in Idx |-> Garbage]]
    /\ ptr = [i \in Batches |-> Nothing]

\* Everything was trained and flushed: the trainer stops.
Stopped ==
    /\ nextB = MaxBatches + 1 /\ host = "flushed" /\ Idle
    /\ UNCHANGED vars

Next ==
    \/ \E B \in SUBSET Idx : Prefetch(B)
    \/ Forward \/ Backward \/ Flush \/ FlushWrite
    \/ Populate \/ Compact \/ Select \/ Copy \/ LookupPad \/ Get \/ Fill
    \/ Evict \/ Spill \/ Enqueue \/ EvictPad
    \/ ForwardRun \/ UpdatePointers \/ BackwardRun \/ FlushRead
    \/ Stopped

Spec == Init /\ [][Next]_vars

-----------------------------------------------------------------------------
(* When a forward or a backward runs, every row of its batch is where its  *)
(* pointer says, trained by every batch before: whatever was evicted,      *)
(* fetched or moved between scratch pads and the cache meanwhile, and in   *)
(* whatever order the streams ran, no update was lost.                     *)
RowsLatest ==
    \A w \in {"forward", "backward"} : Runs("main", w) =>
        LET i == Head(todo["main"]).i
        IN  \A x \in batch[i] : Read(ptr[i][x], x) = Trained(x, i)

(* A way that a batch not trained yet points at holds the batch's row: the *)
(* prefetch of the next batch does not take it.                            *)
PointersHold ==
    \A i \in Batches : \A x \in DOMAIN ptr[i] :
        ptr[i][x].at = "l1" => cache.tag[ptr[i][x].n] = x

(* A way's counter is the number of batches prefetched and not yet unlocked*)
(* that use it, so that every lock taken is given back once.               *)
LocksMatchUse ==
    LET unlocked(i) == Runs("main", "backward") /\ Head(todo["main"]).i = i
        uses(i, w)  == \E x \in DOMAIN loc[i] : loc[i][x] = w
    IN  \A w \in Ways : cache.lock[w] =
            IF pipeline THEN Cardinality({i \in Batches : uses(i, w) /\ ~ unlocked(i)}) ELSE 0

(* When the lookup of a scratch pad runs, the front of the index queue is  *)
(* the map of that pad: the queue of maps, filled on one stream and popped *)
(* on another, stays in step with the host's list of pads.                 *)
IndexQueueInStep ==
    Runs(side, "lookup") => idxq # <<>> /\ Head(idxq) = spill[Head(todo[side]).k]

(* When flush has returned and no batch prefetched is left to train, the   *)
(* store has every update of every row.                                    *)
FlushStoresLatest ==
    host = "flushed" /\ nextP = nextB => \A x \in Idx : store[x] = Trained(x, nextB)
=============================================================================
