------------------------------- MODULE DramShard -------------------------------
(***************************************************************************)
(* One shard of the DRAM store: a map from keys to blocks of a pool, and   *)
(* the eviction scan over the pool.  Training takes the map's write lock   *)
(* for a whole set and for a whole stretch of the scan.  Inference keeps   *)
(* reads short: a set updates the rows it finds under the read lock, fills *)
(* new blocks under the pool's lock and inserts them under the write lock; *)
(* the scan frees blocks under the pool's lock and erases their keys under *)
(* the write lock afterwards.                                              *)
(*                                                                         *)
(* A lock is held by whoever is at a place where the code holds it.  A row *)
(* is two halves, each by the write that copied it: readers share the lock *)
(* with copies, and copies with each other.  The order of the free list is *)
(* abstracted: any free block may come next.                               *)
(*                                                                         *)
(* Sets of inference exclude neither each other nor the scan.  Two history *)
(* variables remember where that went wrong: contended, the keys that two  *)
(* sets had in common, and stray, the blocks freed under a set.            *)
(***************************************************************************)
EXTENDS Integers, FiniteSets

CONSTANTS
    Keys,
    NoKey,          \* what a free block has for a key: a link of the free list
    Setters,        \* threads that set rows
    MaxBlocks,      \* bound: blocks of the pool
    BlocksPerChunk, \* blocks_per_chunk_
    MaxSets,        \* bound: sets begun
    MaxStamp        \* bound: timestamps

ASSUME DramConstants ==
    /\ NoKey \notin Keys
    /\ MaxBlocks \in Nat /\ BlocksPerChunk \in Nat \ {0}
    /\ MaxSets \in Nat /\ MaxStamp \in Nat

NoBlock == 0
Blocks  == 1..MaxBlocks
Stamps  == 0..MaxStamp
Writes  == [key : Keys, set : 1..MaxSets]
NoWrite == [key |-> NoKey, set |-> 0]
Rows    == [1..2 -> Writes \cup {NoWrite}]

VARIABLES
    training,  \* is_training_: which of the two stores this is
    map,       \* the shard's hash map; NoBlock for a key that is not in it
    size,      \* blocks in the chunks of the pool
    used,      \* blocks whose used bit is set
    keyOf,     \* the key in each block's header
    stamp,     \* the timestamp in each block's header
    row,       \* each block's row: the writes its halves are of
    pc,        \* where each setter is
    op,        \* its call: the set's number, its keys, whether it gives a
               \* timestamp, and that or the clock's
    hits,      \* keys it found and has not copied yet
    half,      \* the key whose row it has half copied, if any
    misses,    \* keys it did not find and has not filled yet
    fresh,     \* temp_kv: blocks it filled and has not inserted yet
    evictor,   \* where the shard's eviction task is
    cursor,    \* block_cursors_[shard]
    snapshot,  \* block_nums_snapshot_[shard]
    threshold, \* eviction_timestamp_threshold_
    evicting,  \* evicting_keys
    sets,      \* history: sets begun
    last,      \* history: for each key, the last set of it that returned and
               \* the timestamp it should have
    contended, \* history: keys in two sets of inference at a time
    stray      \* history: blocks that a set was to copy into, to insert or to
               \* find, when they had been freed

pool    == <<size, used, keyOf, stamp>>
setters == <<pc, op, hits, half, misses, fresh>>
round   == <<cursor, snapshot, threshold>>
races   == <<contended, stray>>
vars    == <<training, map, pool, row, setters, evictor, round, evicting, sets, last, races>>

NoCall == [set |-> 0, keys |-> {}, timed |-> FALSE, stamp |-> 0]
Calls  == [set : 0..MaxSets, keys : SUBSET Keys, timed : BOOLEAN, stamp : Stamps]

SetterPlaces == {"idle",
                 "write",   \* training: holds the write lock
                 "copy",    \* step 2: holds the read lock
                 "pool",    \* step 3: about to take the pool's lock
                 "fill",    \* step 3: holds it
                 "insert"}  \* step 4: about to take the write lock
EvictorPlaces == {"idle", "ready",
                  "scan",   \* holds the write lock (training) or the pool's
                  "erase"}  \* inference: about to take the write lock

Init ==
    /\ training \in BOOLEAN
    /\ map = [k \in Keys |-> NoBlock]
    /\ size = 0 /\ used = {}
    /\ keyOf = [b \in Blocks |-> NoKey]
    /\ stamp = [b \in Blocks |-> 0] /\ row = [b \in Blocks |-> [n \in 1..2 |-> NoWrite]]
    /\ pc = [t \in Setters |-> "idle"]
    /\ op = [t \in Setters |-> NoCall]
    /\ hits = [t \in Setters |-> {}] /\ half = [t \in Setters |-> {}]
    /\ misses = [t \in Setters |-> {}]
    /\ fresh = [t \in Setters |-> [k \in Keys |-> NoBlock]]
    /\ evictor = "idle" /\ cursor = 0 /\ snapshot = 0
    /\ threshold = 0 /\ evicting = {}
    /\ sets = 0 /\ last = [k \in Keys |-> [set |-> 0, stamp |-> 0]]
    /\ contended = {} /\ stray = {}

Found(k)        == map[k] # NoBlock
Write(t, k)     == [key |-> k, set |-> op[t].set]
Whole(w)        == [n \in 1..2 |-> w]
ReadLocked      == \E t \in Setters : pc[t] = "copy"
WriteLocked     == (\E t \in Setters : pc[t] = "write") \/ (training /\ evictor = "scan")
PoolLocked      == (\E t \in Setters : pc[t] = "fill") \/ (~training /\ evictor = "scan")
Readable(k)     == Found(k) /\ ~WriteLocked    \* a get finds it, and holds the read lock
ReadRow(k)      == {row[map[k]][1], row[map[k]][2]}    \* and copies this out
BeingSet(k)     == \E t \in Setters : pc[t] # "idle" /\ k \in op[t].keys
Owns(k)         == map[k] \in used /\ keyOf[map[k]] = k

(* A set is about to copy into the block or to insert it. *)
Awaited(b) == \E t \in Setters, k \in Keys :
                 fresh[t][k] = b \/ (k \in hits[t] /\ map[k] = b)

-----------------------------------------------------------------------------
(* FixedBlockPool::allocate: the next free block, of a new chunk if there   *)
(* is none.  A block that was freed under a set is followed no further: the *)
(* set's timestamp and the used bit share a word, which both write, so the  *)
(* scan may free the block once more and it may come up twice.              *)

Free(n) == {b \in 1..n : b \notin used \/ b \in stray}
SizeToAllocate == IF Free(size) = {} THEN size + BlocksPerChunk ELSE size
HasRoom == SizeToAllocate <= MaxBlocks

AllocateFor_NoCopy(b, k, write, time) ==
    /\ size' = SizeToAllocate
    /\ used' = used \cup {b}
    /\ keyOf' = [keyOf EXCEPT ![b] = k]
    /\ stamp' = [stamp EXCEPT ![b] = time]
    /\ UNCHANGED row
AllocateFor(b, k, write, time) ==
    /\ size' = SizeToAllocate
    /\ used' = used \cup {b}
    /\ keyOf' = [keyOf EXCEPT ![b] = k]
    /\ stamp' = [stamp EXCEPT ![b] = time]
    /\ row' = [row EXCEPT ![b] = Whole(write)]

Deallocate(b) ==
    /\ used' = used \ {b}
    /\ keyOf' = [keyOf EXCEPT ![b] = NoKey]

-----------------------------------------------------------------------------
(* A set.  The caller's keys are distinct.  A set of inference without a    *)
(* timestamp (a delta) stamps the rows it creates with the clock and leaves *)
(* the stamp of the others.                                                 *)

SetBegin(t) ==
    /\ pc[t] = "idle" /\ sets < MaxSets /\ ~WriteLocked
    /\ \E keys \in (SUBSET Keys) \ {{}}, timed \in BOOLEAN, time \in Stamps :
        /\ training => timed
        /\ op' = [op EXCEPT ![t] = [set |-> sets + 1, keys |-> keys,
                                    timed |-> timed, stamp |-> time]]
        /\ hits' = [hits EXCEPT ![t] = {k \in keys : Found(k)}]
        /\ misses' = [misses EXCEPT ![t] = {k \in keys : ~Found(k)}]
        /\ contended' = contended \cup {k \in keys : BeingSet(k)}
        /\ stray' = stray \cup {map[k] : k \in {j \in keys : Found(j) /\ ~Owns(j)}}
    /\ pc' = [pc EXCEPT ![t] = IF training THEN "write" ELSE "copy"]
    /\ sets' = sets + 1
    /\ UNCHANGED <<training, map, pool, row, half, fresh, evictor, round, evicting, last>>

(* Training: one row, found or new, under the write lock. *)
WriteHit(t, k) ==
    /\ pc[t] = "write" /\ k \in hits[t]
    /\ row' = [row EXCEPT ![map[k]] = Whole(Write(t, k))]
    /\ stamp' = [stamp EXCEPT ![map[k]] = op[t].stamp]
    /\ hits' = [hits EXCEPT ![t] = @ \ {k}]
    /\ last' = [last EXCEPT ![k] = [set |-> op[t].set, stamp |-> op[t].stamp]]
    /\ UNCHANGED <<training, map, size, used, keyOf, pc, op, half, misses, fresh,
                   evictor, round, evicting, sets, races>>

WriteMiss(t, k) ==
    /\ pc[t] = "write" /\ k \in misses[t] /\ HasRoom
    /\ \E b \in Free(SizeToAllocate) :
        /\ AllocateFor(b, k, Write(t, k), op[t].stamp)
        /\ map' = [map EXCEPT ![k] = b]
    /\ misses' = [misses EXCEPT ![t] = @ \ {k}]
    /\ last' = [last EXCEPT ![k] = [set |-> op[t].set, stamp |-> op[t].stamp]]
    /\ UNCHANGED <<training, pc, op, hits, half, fresh, evictor, round, evicting, sets, races>>

WriteEnd(t) ==
    /\ pc[t] = "write" /\ hits[t] = {} /\ misses[t] = {}
    /\ pc' = [pc EXCEPT ![t] = "idle"]
    /\ op' = [op EXCEPT ![t] = NoCall]
    /\ UNCHANGED <<training, map, pool, row, hits, half, misses, fresh,
                   evictor, round, evicting, sets, last, races>>

(* Inference, step 2: one row found, in two steps, the second with its      *)
(* timestamp.                                                               *)
CopyBegin(t, k) ==
    /\ pc[t] = "copy" /\ half[t] = {} /\ k \in hits[t]
    /\ row' = [row EXCEPT ![map[k]][1] = Write(t, k)]
    /\ half' = [half EXCEPT ![t] = {k}]
    /\ UNCHANGED <<training, map, pool, pc, op, hits, misses, fresh,
                   evictor, round, evicting, sets, last, races>>

NewStamp_OnlyForMisses(t, k) == stamp
NewStamp(t, k) ==
    IF op[t].timed THEN [stamp EXCEPT ![map[k]] = op[t].stamp] ELSE stamp

NewUsed(t, k) ==
    IF op[t].timed /\ map[k] \in stray
    THEN {used, used \cup {map[k]}, used \ {map[k]}} ELSE {used}

CopyEnd(t, k) ==
    /\ k \in half[t]
    /\ row' = [row EXCEPT ![map[k]][2] = Write(t, k)]
    /\ stamp' = NewStamp(t, k)
    /\ used' \in NewUsed(t, k)
    /\ half' = [half EXCEPT ![t] = {}]
    /\ hits' = [hits EXCEPT ![t] = @ \ {k}]
    /\ UNCHANGED <<training, map, size, keyOf, pc, op, misses, fresh,
                   evictor, round, evicting, sets, last, races>>

CopiedAll_LastOneSkipped(t) == half[t] = {} /\ \A k, l \in hits[t] : k = l
CopiedAll(t) == hits[t] = {}

CopyDone(t) ==
    /\ pc[t] = "copy" /\ CopiedAll(t)
    /\ pc' = [pc EXCEPT ![t] = "pool"]
    /\ UNCHANGED <<training, map, pool, row, op, hits, half, misses, fresh,
                   evictor, round, evicting, sets, last, races>>

(* Step 3: new blocks, filled before anybody can find them. *)
TakePool(t) ==
    /\ pc[t] = "pool" /\ ~PoolLocked
    /\ pc' = [pc EXCEPT ![t] = "fill"]
    /\ UNCHANGED <<training, map, pool, row, op, hits, half, misses, fresh,
                   evictor, round, evicting, sets, last, races>>

Fill(t, k) ==
    /\ pc[t] = "fill" /\ k \in misses[t] /\ HasRoom
    /\ \E b \in Free(SizeToAllocate) :
        /\ AllocateFor(b, k, Write(t, k), op[t].stamp)
        /\ fresh' = [fresh EXCEPT ![t][k] = b]
    /\ misses' = [misses EXCEPT ![t] = @ \ {k}]
    /\ UNCHANGED <<training, map, pc, op, hits, half, evictor, round, evicting, sets, last, races>>

GivePool(t) ==
    /\ pc[t] = "fill" /\ misses[t] = {}
    /\ pc' = [pc EXCEPT ![t] = "insert"]
    /\ UNCHANGED <<training, map, pool, row, op, hits, half, misses, fresh,
                   evictor, round, evicting, sets, last, races>>

(* Step 4: F14FastMap::insert leaves a key that is there alone. *)
Inserted(t) == [k \in Keys |-> IF Found(k) THEN map[k] ELSE fresh[t][k]]

Insert(t) ==
    /\ pc[t] = "insert" /\ ~ReadLocked /\ ~WriteLocked
    /\ map' = Inserted(t)
    /\ fresh' = [fresh EXCEPT ![t] = [k \in Keys |-> NoBlock]]
    /\ last' = [k \in Keys |-> IF k \in op[t].keys
                             THEN [set |-> op[t].set,
                                   stamp |-> IF op[t].timed \/ fresh[t][k] # NoBlock
                                             THEN op[t].stamp ELSE last[k].stamp]
                             ELSE last[k]]
    /\ pc' = [pc EXCEPT ![t] = "idle"]
    /\ op' = [op EXCEPT ![t] = NoCall]
    /\ UNCHANGED <<training, pool, row, hits, half, misses,
                   evictor, round, evicting, sets, races>>

-----------------------------------------------------------------------------
(* Eviction.                                                                *)

(* trigger_feature_evict: a timestamp is never before the one of the last   *)
(* trigger; with a round in progress, or too soon after the last one, only  *)
(* the threshold changes.                                                   *)
Trigger ==
    /\ threshold' \in threshold..MaxStamp
    /\ \/ /\ evictor = "idle" /\ ~WriteLocked
          /\ evictor' = IF size = 0 THEN "idle" ELSE "ready"
          /\ cursor' = 0 /\ snapshot' = size
       \/ UNCHANGED <<evictor, cursor, snapshot>>
    /\ UNCHANGED <<training, map, pool, row, setters, evicting, sets, last, races>>

(* One stretch of the scan, from a resume to a pause or to the end. *)
ScanBegin ==
    /\ evictor = "ready"
    /\ IF training THEN ~WriteLocked ELSE ~PoolLocked
    /\ evictor' = "scan"
    /\ UNCHANGED <<training, map, pool, row, setters, round, evicting, sets, last, races>>

(* The strategies of training are abstracted: any block may go or stay. *)
Stale(b) == stamp[b] < threshold
IsMapped(b) == map[keyOf[b]] = b

EvictFromMap_KeepsBlock(b) ==
    /\ map' = [map EXCEPT ![keyOf[b]] = NoBlock]
    /\ UNCHANGED <<used, keyOf, evicting, stray>>
EvictFromMap(b) ==
    /\ map' = [map EXCEPT ![keyOf[b]] = NoBlock]
    /\ Deallocate(b)
    /\ UNCHANGED <<evicting, stray>>

FreedStray(b) == IF Awaited(b) THEN stray \cup {b} ELSE stray

EvictLater_KeyForgotten(b) ==
    /\ Deallocate(b) /\ stray' = FreedStray(b)
    /\ UNCHANGED <<map, evicting>>
EvictLater(b) ==
    /\ evicting' = evicting \cup ({keyOf[b]} \cap Keys)
    /\ Deallocate(b) /\ stray' = FreedStray(b)
    /\ UNCHANGED map

Evict(b) ==
    \/ training /\ IsMapped(b) /\ EvictFromMap(b)
    \/ ~training /\ Stale(b) /\ EvictLater(b)

Keeps(b) == b \notin used \/ training \/ ~Stale(b)

ScanBlock ==
    /\ evictor = "scan" /\ cursor < snapshot
    /\ cursor' = cursor + 1
    /\ \/ cursor + 1 \in used /\ Evict(cursor + 1)
       \/ Keeps(cursor + 1) /\ UNCHANGED <<map, used, keyOf, evicting, stray>>
    /\ UNCHANGED <<training, size, stamp, row, setters, evictor, snapshot, threshold,
                   sets, last, contended>>

AfterScan == IF cursor < snapshot THEN "ready" ELSE "idle"

(* evict_interrupt_ may be seen between any two blocks. *)
ScanEnd ==
    /\ evictor = "scan"
    /\ evictor' = IF training THEN AfterScan ELSE "erase"
    /\ UNCHANGED <<training, map, pool, row, setters, round, evicting, sets, last, races>>

Erase ==
    /\ evictor = "erase" /\ ~ReadLocked /\ ~WriteLocked
    /\ map' = [k \in Keys |-> IF k \in evicting THEN NoBlock ELSE map[k]]
    /\ evicting' = {}
    /\ evictor' = AfterScan
    /\ UNCHANGED <<training, pool, row, setters, round, sets, last, races>>

-----------------------------------------------------------------------------
SetStep(t) ==
    \/ SetBegin(t) \/ WriteEnd(t) \/ CopyDone(t) \/ TakePool(t) \/ GivePool(t) \/ Insert(t)
    \/ \E k \in Keys : \/ WriteHit(t, k) \/ WriteMiss(t, k)
                       \/ CopyBegin(t, k) \/ CopyEnd(t, k) \/ Fill(t, k)

EvictStep == Trigger \/ ScanBegin \/ ScanBlock \/ ScanEnd \/ Erase

Next == EvictStep \/ \E t \in Setters : SetStep(t)

Spec == Init /\ [][Next]_vars

-----------------------------------------------------------------------------
(* Every variable holds a value of its type. *)
TypeOK ==
    /\ training \in BOOLEAN
    /\ size \in 0..MaxBlocks /\ used \subseteq 1..size
    /\ map \in [Keys -> 0..size]
    /\ keyOf \in [Blocks -> Keys \cup {NoKey}]
    /\ stamp \in [Blocks -> Stamps] /\ row \in [Blocks -> Rows]
    /\ pc \in [Setters -> SetterPlaces]
    /\ op \in [Setters -> Calls]
    /\ hits \in [Setters -> SUBSET Keys] /\ half \in [Setters -> SUBSET Keys]
    /\ misses \in [Setters -> SUBSET Keys]
    /\ fresh \in [Setters -> [Keys -> 0..size]]
    /\ evictor \in EvictorPlaces
    /\ snapshot \in 0..size /\ cursor \in 0..snapshot
    /\ threshold \in Stamps /\ evicting \subseteq Keys
    /\ sets \in 0..MaxSets /\ last \in [Keys -> [set : 0..MaxSets, stamp : Stamps]]
    /\ contended \subseteq Keys /\ stray \subseteq 1..size

(* The properties make exceptions of what overlapping sets, or a set and    *)
(* the scan, did; there are none in training, whose sets and scan hold the  *)
(* write lock.                                                              *)
Contended(k) == ~training /\ k \in contended
Stray(b)     == ~training /\ b \in stray
Leaving(k)   == ~training /\ k \in evicting   \* freed, and about to be erased

(* A key leads to a block in use that carries that key, except that the     *)
(* inference scan has freed it and is about to erase the key, or freed it   *)
(* under a set.                                                             *)
MapSound ==
    \A k \in Keys : Found(k) => Owns(k) \/ Leaving(k) \/ Stray(map[k])

(* Every block in use can be found by its key, or a set is about to insert  *)
(* it: no block is lost to the pool for good, but one that two sets have    *)
(* filled for a key that neither found.                                     *)
NothingLeaks ==
    \A b \in used :
        \/ Stray(b) /\ keyOf[b] = NoKey
        \/ /\ keyOf[b] \in Keys
           /\ \/ map[keyOf[b]] = b \/ Contended(keyOf[b])
              \/ \E t \in Setters : fresh[t][keyOf[b]] = b

(* What a get copies out for a key it finds: a row that was set for this    *)
(* very key, by the last set that returned or by one in progress; never a   *)
(* row of another key whose block was handed on, nor an unwritten block.    *)
(* Of sets that overlap, the one that returned last need not be the one     *)
(* that wrote last.                                                         *)
GetReadsItsRow ==
    \A k \in Keys : Readable(k) /\ ~Leaving(k) /\ ~Stray(map[k]) =>
        \A w \in ReadRow(k) :
            /\ w.key = k
            /\ \/ w.set = last[k].set
               \/ \E t \in Setters : k \in op[t].keys /\ w.set = op[t].set
               \/ Contended(k)

(* A get sees a mixture of two rows only while a set of that key runs, or   *)
(* after two sets of it have overlapped.                                    *)
RowsSettle ==
    \A k \in Keys :
        Found(k) /\ ~BeingSet(k) /\ ~Contended(k) /\ ~Leaving(k) /\ ~Stray(map[k])
            => row[map[k]] = Whole([key |-> k, set |-> last[k].set])

(* trigger_evict(ts) of inference drops the rows older than ts and no       *)
(* other: a key leaves the map only if its last timestamp, that of the last *)
(* set that gave one or of the set that created the row, or that of a set   *)
(* in progress, is older.  A set that begins when the scan has freed the    *)
(* row is lost with it.                                                     *)
FreshRowsSurvive ==
    [][\A k \in Keys : ~training /\ Found(k) /\ ~Found(k)'
            => \/ last[k].stamp < threshold
               \/ \E t \in Setters : k \in op[t].keys /\ op[t].stamp < threshold
               \/ Contended(k) \/ Stray(map[k])]_vars
=============================================================================
