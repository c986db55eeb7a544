----------------------------- MODULE EmbeddingKVDB -----------------------------
(***************************************************************************)
(* kv_db::EmbeddingKVDB: an L2 cache in front of a key-value store, with a *)
(* background thread that fills the cache from a queue.                    *)
(*                                                                         *)
(* get, set and flush are called by client threads (the CUDA host          *)
(* callbacks and the training thread).  set, and the misses a get has      *)
(* read, are queued (weights_to_fill_queue_) and applied by the            *)
(* cache_filling_thread_; get and flush first wait for that queue to be    *)
(* empty.  fill_queue_mtx_ and fill_queue_cv_ carry both the "work         *)
(* arrived" and the "queue drained" signals; l2_cache_mtx_ serialises the  *)
(* readers and the writers of the cache.                                   *)
(*                                                                         *)
(* An embedding row is represented by the version that wrote it; a batch   *)
(* of rows is a function on Keys that is Absent where the tensors hold the *)
(* sentinel index -1.  CacheLib's per-shard LRU order is abstracted to an  *)
(* arbitrary choice of the row to evict.                                   *)
(***************************************************************************)
EXTENDS Integers, Sequences, FiniteSets

CONSTANTS
    Clients,          \* threads that call get, set and flush
    BgThread,         \* cache_filling_thread_
    Owner,            \* the thread that runs the destructor
    NoThread,         \* a mutex nobody holds
    Keys,             \* embedding indices
    Capacities,       \* rows the L2 cache can hold; 0 if there is none (cache_size_gb = 0)
    BlockSize,        \* rows flush copies out of the cache at a time
    MaxVersion,       \* bound: number of set calls
    Modes,            \* the values of enable_async_update_
    AllocFails,       \* CacheLib's allocate may return no item
    SpuriousWakeups   \* a condition variable may wake a waiter for no reason

ASSUME ConstantsAssumption ==
    /\ BgThread # Owner /\ BgThread \notin Clients /\ Owner \notin Clients
    /\ NoThread \notin Clients \cup {BgThread, Owner}
    /\ Capacities \subseteq Nat /\ BlockSize \in Nat \ {0} /\ MaxVersion \in Nat
    /\ Modes \cup {AllocFails, SpuriousWakeups} \subseteq BOOLEAN

Threads == Clients \cup {BgThread, Owner}
Absent  == -1
Version == Nat
Batch   == [Keys -> Version \cup {Absent}]
NoRows  == [k \in Keys |-> Absent]

(* The rows of g written over the rows of f; an index of -1 is skipped. *)
Overwrite_SentinelWritten(f, g) == g
Overwrite(f, g) == [k \in Keys |-> IF g[k] = Absent THEN f[k] ELSE g[k]]
RowsOf(f)       == {k \in Keys : f[k] # Absent}
Pick(f, K)      == [k \in Keys |-> IF k \in K THEN f[k] ELSE Absent]

VARIABLES
    capacity,  \* rows l2_cache_ can hold
    async,     \* enable_async_update_
    pc,        \* where each thread is
    op,        \* the call each client is in: "none", "get", "set", "flush"
    keys,      \* the indices of that call (for flush: those already visited)
    rows,      \* the batch each thread has in hand
    got,       \* the weights tensor a get fills
    queue,     \* weights_to_fill_queue_
    l2,        \* l2_cache_
    evicted,   \* evicted_indices_opt_ / evicted_weights_opt_ of the cache
    storage,   \* the key-value store behind set_kv_db_async / get_kv_db_async
    fillMtx,   \* holder of fill_queue_mtx_
    l2Mtx,     \* holder of l2_cache_mtx_
    stop,      \* stop_
    collided,  \* history: two threads have been inside enqueue() of that queue together
    version,   \* history: versions handed out to set calls
    latest     \* history: the version the newest completed enqueue gave each key

mode   == <<capacity, async, collided>>
data   == <<l2, evicted, storage>>
ghost  == <<version, latest>>
vars   == <<pc, op, keys, rows, got, queue, data, fillMtx, l2Mtx, stop, ghost, mode>>

Labels ==
    {"idle", "ret",                                      \* a client between calls, returning
     "cv_lock", "cv_check", "cv_sleep", "cv_wait",       \* fill_queue_cv_.wait(lk, pred)
     "lock", "lookup", "fetch", "put", "write", "unlock",\* under l2_cache_mtx_
     "enq", "enq_end", "barrier", "notify",              \* producing a queue item
     "peek", "dequeue",                                  \* the background thread's drain loop
     "copy", "flush_write",                              \* flush's block loop
     "alive", "join", "exit"}                            \* constructed, joining, gone

HasL2 == capacity > 0

Init ==
    /\ capacity \in Capacities /\ async \in Modes
    /\ pc = [t \in Threads |-> IF t = Owner THEN "alive"
                               ELSE IF t \in Clients THEN "idle"
                               ELSE IF async THEN "cv_lock" ELSE "exit"]
    /\ op = [c \in Clients |-> "none"]
    /\ keys = [c \in Clients |-> {}]
    /\ rows = [t \in Threads |-> NoRows]
    /\ got = [c \in Clients |-> NoRows]
    /\ queue = <<>>
    /\ l2 = NoRows /\ evicted = NoRows
    /\ storage = [k \in Keys |-> 0]
    /\ fillMtx = NoThread /\ l2Mtx = NoThread
    /\ stop = FALSE /\ collided = FALSE
    /\ version = 0
    /\ latest = [k \in Keys |-> 0]

Goto(t, label) == pc' = [pc EXCEPT ![t] = label]

-----------------------------------------------------------------------------
(* Calls.  What the callers guarantee: a set never overlaps another call    *)
(* on the same indices (the L1 cache and the scratch pads hold a row that   *)
(* is being trained, and a prefetch masks the rows it finds there), and     *)
(* flush runs when the device has been synchronised, so alone.              *)

Active(c) == op[c] # "none"

MayCall(c, kind, K) ==
    /\ pc[c] = "idle" /\ ~stop
    /\ \A d \in Clients \ {c} : Active(d) =>
          /\ "flush" \notin {kind, op[d]}
          /\ "set" \in {kind, op[d]} => keys[d] \cap K = {}

Call(c, kind, K, label) ==
    /\ MayCall(c, kind, K)
    /\ op' = [op EXCEPT ![c] = kind]
    /\ keys' = [keys EXCEPT ![c] = K]
    /\ Goto(c, label)
    /\ UNCHANGED <<got, queue, data, fillMtx, l2Mtx, stop, mode, latest>>

CallGet(c, K) ==
    /\ Call(c, "get", K, IF async THEN "cv_lock" ELSE "lock")
    /\ UNCHANGED <<rows, version>>

CallSet(c, K) ==
    /\ version < MaxVersion
    /\ version' = version + 1
    /\ Call(c, "set", K, IF async THEN "enq" ELSE "lock")
    /\ rows' = [rows EXCEPT ![c] = Pick([k \in Keys |-> version + 1], K)]

CallFlush(c) ==
    /\ Call(c, "flush", {}, IF async THEN "cv_lock" ELSE "copy")
    /\ UNCHANGED <<rows, version>>

Return(c) ==
    /\ pc[c] = "ret"
    /\ op' = [op EXCEPT ![c] = "none"]
    /\ keys' = [keys EXCEPT ![c] = {}]
    /\ rows' = [rows EXCEPT ![c] = NoRows]
    /\ got' = [got EXCEPT ![c] = NoRows]
    /\ Goto(c, "idle")
    /\ UNCHANGED <<queue, data, fillMtx, l2Mtx, stop, mode, ghost>>

-----------------------------------------------------------------------------
(* fill_queue_cv_.wait(lk, pred): the mutex is held from the evaluation of  *)
(* the predicate until the thread is on the wait set, but enqueue() and     *)
(* stop_ = true happen without it.                                          *)

CvPredicate_GetDoesNotWait(t) ==
    IF t = BgThread THEN queue # <<>> \/ stop ELSE op[t] = "get" \/ queue = <<>>
CvPredicate_StopIgnored(t) == IF t = BgThread THEN queue # <<>> ELSE queue = <<>>
CvPredicate(t) == IF t = BgThread THEN queue # <<>> \/ stop ELSE queue = <<>>

AfterWait(t) == IF t = BgThread THEN "peek"
                ELSE IF op[t] = "get" THEN "lock" ELSE "copy"

CvLock(t) ==
    /\ pc[t] = "cv_lock" /\ fillMtx = NoThread
    /\ fillMtx' = t
    /\ Goto(t, "cv_check")
    /\ UNCHANGED <<op, keys, rows, got, queue, data, l2Mtx, stop, mode, ghost>>

CvCheck(t) ==
    /\ pc[t] = "cv_check"
    /\ IF CvPredicate(t)
       THEN /\ fillMtx' = NoThread
            /\ Goto(t, AfterWait(t))
       ELSE /\ Goto(t, "cv_sleep")
            /\ UNCHANGED fillMtx
    /\ UNCHANGED <<op, keys, rows, got, queue, data, l2Mtx, stop, mode, ghost>>

CvSleep(t) ==
    /\ pc[t] = "cv_sleep"
    /\ fillMtx' = NoThread
    /\ Goto(t, "cv_wait")
    /\ UNCHANGED <<op, keys, rows, got, queue, data, l2Mtx, stop, mode, ghost>>

Waiting == {t \in Threads : pc[t] = "cv_wait"}

SpuriousWake(t) ==
    /\ SpuriousWakeups
    /\ pc[t] = "cv_wait"
    /\ Goto(t, "cv_lock")
    /\ UNCHANGED <<op, keys, rows, got, queue, data, fillMtx, l2Mtx, stop, mode, ghost>>

(* { std::lock_guard lk(fill_queue_mtx_); }: nobody is between predicate    *)
(* and sleep when it returns.                                               *)
LockBarrier_Removed(t) ==
    /\ pc[t] = "barrier"
    /\ Goto(t, "notify")
    /\ UNCHANGED <<op, keys, rows, got, queue, data, fillMtx, l2Mtx, stop, mode, ghost>>

LockBarrier(t) ==
    /\ pc[t] = "barrier" /\ fillMtx = NoThread
    /\ Goto(t, "notify")
    /\ UNCHANGED <<op, keys, rows, got, queue, data, fillMtx, l2Mtx, stop, mode, ghost>>

(* notify_one, by the producer of a queue item. *)
NotifyOne(c) ==
    /\ pc[c] = "notify"
    /\ LET next == IF op[c] = "get" THEN "unlock" ELSE "ret"
       IN \/ Waiting = {} /\ Goto(c, next)
          \/ \E w \in Waiting : pc' = [pc EXCEPT ![c] = next, ![w] = "cv_lock"]
    /\ UNCHANGED <<op, keys, rows, got, queue, data, fillMtx, l2Mtx, stop, mode, ghost>>

(* notify_all, by the background thread and by the destructor. *)
NotifyAll_Forgotten(t, next) ==
    /\ pc[t] = "notify"
    /\ Goto(t, next)
    /\ UNCHANGED <<op, keys, rows, got, queue, data, fillMtx, l2Mtx, stop, mode, ghost>>

NotifyAll(t, next) ==
    /\ pc[t] = "notify"
    /\ pc' = [u \in Threads |-> IF u = t THEN next
                                ELSE IF u \in Waiting THEN "cv_lock" ELSE pc[u]]
    /\ UNCHANGED <<op, keys, rows, got, queue, data, fillMtx, l2Mtx, stop, mode, ghost>>

-----------------------------------------------------------------------------
(* weights_to_fill_queue_.enqueue.  The queue is folly's single-producer    *)
(* one (USPSCQueue), set enqueues with no lock held and get under the       *)
(* cache's mutex: two threads inside it at once may take the same slot, and *)
(* the slower one's item replaces the other's.                              *)

EnqueueBegin(c) ==
    /\ pc[c] = "enq"
    /\ collided' = (collided \/ \E d \in Clients : pc[d] = "enq_end")
    /\ Goto(c, "enq_end")
    /\ UNCHANGED <<op, keys, rows, got, queue, data, fillMtx, l2Mtx, stop, ghost, capacity, async>>

EnqueueEnd(c) ==
    /\ pc[c] = "enq_end"
    /\ \/ queue' = Append(queue, rows[c])
       \/ /\ \E d \in Clients \ {c} : pc[d] = "enq_end"
          /\ UNCHANGED queue
    /\ latest' = IF op[c] = "set" THEN Overwrite(latest, rows[c]) ELSE latest
    /\ rows' = [rows EXCEPT ![c] = NoRows]
    /\ Goto(c, "barrier")
    /\ UNCHANGED <<op, keys, got, data, fillMtx, l2Mtx, stop, mode, version>>

-----------------------------------------------------------------------------
(* l2_cache_mtx_, the lookup of a get and update_cache_and_storage.         *)

CanLockL2_UpdateUnlocked(t) == t = BgThread \/ l2Mtx = NoThread
CanLockL2(t) == l2Mtx = NoThread

LockL2(t) ==
    /\ pc[t] = "lock" /\ CanLockL2(t)
    /\ l2Mtx' = t
    /\ LET reads == t \in Clients /\ op[t] = "get"
           sets  == t \in Clients /\ op[t] = "set"
       IN /\ Goto(t, IF reads THEN "lookup" ELSE "put")
          /\ latest' = IF sets THEN Overwrite(latest, rows[t]) ELSE latest
    /\ UNCHANGED <<op, keys, rows, got, queue, data, fillMtx, stop, mode, version>>

(* get_cache and cache_memcpy: the hits. *)
Lookup(c) ==
    /\ pc[c] = "lookup"
    /\ got' = [got EXCEPT ![c] = Pick(l2, keys[c])]
    /\ Goto(c, IF keys[c] \subseteq RowsOf(l2) THEN "unlock" ELSE "fetch")
    /\ UNCHANGED <<op, keys, rows, queue, data, fillMtx, l2Mtx, stop, mode, ghost>>

(* get_kv_db_async(...).wait(): the misses, which then go to the cache. *)
Fetch(c) ==
    /\ pc[c] = "fetch"
    /\ LET misses == Pick(storage, keys[c] \ RowsOf(got[c]))
       IN /\ got' = [got EXCEPT ![c] = Overwrite(@, misses)]
          /\ rows' = [rows EXCEPT ![c] = IF HasL2 THEN misses ELSE NoRows]
    /\ Goto(c, IF ~HasL2 THEN "unlock" ELSE IF async THEN "enq" ELSE "put")
    /\ UNCHANGED <<op, keys, queue, data, fillMtx, l2Mtx, stop, mode, ghost>>

(* CacheLibCache::put for one row of the batch: update in place, insert, or *)
(* insert over a row the eviction callback copies out.                      *)
PutRow(t, k) ==
    /\ pc[t] = "put" /\ HasL2
    /\ rows[t][k] # Absent
    /\ rows' = [rows EXCEPT ![t][k] = Absent]
    /\ \/ /\ k \in RowsOf(l2) \/ Cardinality(RowsOf(l2)) < capacity
          /\ l2' = [l2 EXCEPT ![k] = rows[t][k]]
          /\ UNCHANGED evicted
       \/ /\ k \notin RowsOf(l2) /\ Cardinality(RowsOf(l2)) >= capacity
          /\ \E e \in RowsOf(l2) :
                /\ l2' = [l2 EXCEPT ![e] = Absent, ![k] = rows[t][k]]
                /\ evicted' = [evicted EXCEPT ![e] = l2[e]]
       \/ /\ k \notin RowsOf(l2) /\ AllocFails
          /\ UNCHANGED <<l2, evicted>>
    /\ UNCHANGED <<pc, op, keys, got, queue, storage, fillMtx, l2Mtx, stop, mode, ghost>>

PutDone(t) ==
    /\ pc[t] = "put"
    /\ HasL2 => rows[t] = NoRows
    /\ Goto(t, "write")
    /\ UNCHANGED <<op, keys, rows, got, queue, data, fillMtx, l2Mtx, stop, mode, ghost>>

(* set_kv_db_async(...).wait(): the rows the cache evicted, or, with no     *)
(* cache, the batch itself.                                                 *)
ToStorage_BatchOnly(t) == rows[t]
ToStorage_EvictedOnly(t) == evicted
ToStorage(t) == IF HasL2 THEN evicted ELSE rows[t]

WriteStorage(t) ==
    /\ pc[t] = "write"
    /\ storage' = Overwrite(storage, ToStorage(t))
    /\ evicted' = NoRows
    /\ rows' = [rows EXCEPT ![t] = NoRows]
    /\ Goto(t, "unlock")
    /\ UNCHANGED <<op, keys, got, queue, l2, fillMtx, l2Mtx, stop, mode, ghost>>

UnlockL2(t) ==
    /\ pc[t] = "unlock"
    /\ l2Mtx' = NoThread
    /\ Goto(t, IF t = BgThread THEN "dequeue" ELSE "ret")
    /\ UNCHANGED <<op, keys, rows, got, queue, data, fillMtx, stop, mode, ghost>>

-----------------------------------------------------------------------------
(* The background thread: an item leaves the queue only once it is applied. *)

BgPeek ==
    /\ pc[BgThread] = "peek"
    /\ \/ /\ queue = <<>>
          /\ Goto(BgThread, "barrier") /\ UNCHANGED rows
       \/ /\ queue # <<>> /\ stop
          /\ Goto(BgThread, "exit") /\ UNCHANGED rows
       \/ /\ queue # <<>> /\ ~stop
          /\ rows' = [rows EXCEPT ![BgThread] = Head(queue)]
          /\ Goto(BgThread, "lock")
    /\ UNCHANGED <<op, keys, got, queue, data, fillMtx, l2Mtx, stop, mode, ghost>>

BgDequeue ==
    /\ pc[BgThread] = "dequeue"
    /\ queue' = Tail(queue)
    /\ Goto(BgThread, "peek")
    /\ UNCHANGED <<op, keys, rows, got, data, fillMtx, l2Mtx, stop, mode, ghost>>

BgNotifyAll == NotifyAll(BgThread, IF stop THEN "exit" ELSE "cv_lock")

-----------------------------------------------------------------------------
(* flush: copy a block of the cache's rows, write it, until none are left.  *)

Unvisited_FirstBlockOnly(c) == IF keys[c] = {} THEN RowsOf(l2) ELSE {}
Unvisited(c) == RowsOf(l2) \ keys[c]

FlushCopy(c) ==
    /\ pc[c] = "copy"
    /\ LET left == Unvisited(c)
       IN \/ /\ left = {}
             /\ Goto(c, "ret") /\ UNCHANGED <<keys, rows>>
          \/ \E B \in SUBSET left :
                /\ left # {}
                /\ Cardinality(B) = IF Cardinality(left) < BlockSize
                                    THEN Cardinality(left) ELSE BlockSize
                /\ rows' = [rows EXCEPT ![c] = Pick(l2, B)]
                /\ keys' = [keys EXCEPT ![c] = @ \cup B]
                /\ Goto(c, "flush_write")
    /\ UNCHANGED <<op, got, queue, data, fillMtx, l2Mtx, stop, mode, ghost>>

FlushWrite(c) ==
    /\ pc[c] = "flush_write"
    /\ storage' = Overwrite(storage, rows[c])
    /\ Goto(c, "copy")
    /\ UNCHANGED <<op, keys, rows, got, queue, l2, evicted, fillMtx, l2Mtx, stop, mode, ghost>>

-----------------------------------------------------------------------------
(* ~EmbeddingKVDB.  Every callback holds a reference (shared_from_this), so *)
(* no call is running; items still queued are dropped.                      *)

Destroy ==
    /\ pc[Owner] = "alive"
    /\ \A c \in Clients : pc[c] = "idle"
    /\ ~stop /\ stop' = TRUE
    /\ Goto(Owner, IF async THEN "barrier" ELSE "exit")
    /\ UNCHANGED <<op, keys, rows, got, queue, data, fillMtx, l2Mtx, mode, ghost>>

OwnerNotifyAll == NotifyAll(Owner, "join")

Join ==
    /\ pc[Owner] = "join" /\ pc[BgThread] = "exit"
    /\ Goto(Owner, "exit")
    /\ UNCHANGED <<op, keys, rows, got, queue, data, fillMtx, l2Mtx, stop, mode, ghost>>

-----------------------------------------------------------------------------
CvStep(t)     == CvLock(t) \/ CvCheck(t) \/ CvSleep(t) \/ LockBarrier(t)
UpdateStep(t) == \/ LockL2(t) \/ PutDone(t) \/ WriteStorage(t) \/ UnlockL2(t)
                 \/ \E k \in Keys : PutRow(t, k)

ClientStep(c) ==
    \/ CvStep(c) \/ UpdateStep(c) \/ NotifyOne(c)
    \/ EnqueueBegin(c) \/ EnqueueEnd(c)
    \/ Lookup(c) \/ Fetch(c)
    \/ FlushCopy(c) \/ FlushWrite(c) \/ Return(c)
BgStep    == CvStep(BgThread) \/ UpdateStep(BgThread) \/ BgPeek \/ BgDequeue \/ BgNotifyAll
OwnerStep == LockBarrier(Owner) \/ OwnerNotifyAll \/ Join

ClientCall(c) == \/ \E K \in SUBSET Keys \ {{}} : CallGet(c, K) \/ CallSet(c, K)
                 \/ CallFlush(c)

Next ==
    \/ \E c \in Clients : ClientCall(c) \/ ClientStep(c)
    \/ \E t \in Threads : SpuriousWake(t)
    \/ BgStep \/ OwnerStep \/ Destroy

Spec == Init /\ [][Next]_vars

(* Every thread that can take a step eventually takes one; when to call and *)
(* when to destroy are left open.                                           *)
Fairness == /\ WF_vars(BgStep) /\ WF_vars(OwnerStep)
            /\ \A c \in Clients : WF_vars(ClientStep(c))
FairSpec == Spec /\ Fairness

-----------------------------------------------------------------------------
(* Properties.                                                             *)

(* Every variable holds a value of its type. *)
TypeOK ==
    /\ pc \in [Threads -> Labels]
    /\ op \in [Clients -> {"none", "get", "set", "flush"}]
    /\ keys \in [Clients -> SUBSET Keys]
    /\ rows \in [Threads -> Batch]
    /\ got \in [Clients -> Batch]
    /\ queue \in Seq(Batch)
    /\ l2 \in Batch /\ evicted \in Batch
    /\ storage \in [Keys -> Version]
    /\ fillMtx \in Threads \cup {NoThread}
    /\ l2Mtx \in Threads \cup {NoThread}
    /\ stop \in BOOLEAN /\ collided \in BOOLEAN
    /\ version \in Version
    /\ latest \in [Keys -> Version]

(* Who is inside update_cache_and_storage, get_cache or cache_memcpy. *)
HoldsL2(t) ==
    \/ pc[t] \in {"lookup", "fetch", "put", "write", "unlock"}
    \/ /\ t \in Clients /\ op[t] = "get"
       /\ pc[t] \in {"enq", "enq_end", "barrier", "notify"}

(* No two threads are in the L2 critical section: the addresses a lookup   *)
(* returned (cached_addr_list) stay valid until the rows are copied.       *)
L2Exclusive == \A t, u \in Threads : HoldsL2(t) /\ HoldsL2(u) => t = u

(* What a lookup of k finds once the thread that holds the cache is done.  *)
Stored(k) == IF l2[k] # Absent THEN l2[k]
             ELSE IF evicted[k] # Absent THEN evicted[k] ELSE storage[k]

Queued(k) == {i \in 1..Len(queue) : queue[i][k] # Absent}
InHand(k) == {c \in Clients : pc[c] = "put" \/ (pc[c] = "write" /\ ~HasL2)} \cap
             {c \in Clients : rows[c][k] # Absent}

(* The newest version enqueued for an index is the last one queued or,     *)
(* with none queued, the one stored.                                       *)
EveryRowKept ==
    \A k \in Keys :
        /\ \A i \in Queued(k) : (\A j \in Queued(k) : j <= i) => queue[i][k] = latest[k]
        /\ \A c \in InHand(k) : rows[c][k] = latest[k]
        /\ Queued(k) = {} /\ InHand(k) = {} => Stored(k) = latest[k]

(* No update is lost between the queue, the cache, the rows on their way   *)
(* out of it and the storage, for as long as no set and get have met       *)
(* inside enqueue().                                                       *)
NoRowLost == ~collided => EveryRowKept

(* "all updates are finished before the next L2 cache lookup": a get       *)
(* returns, for each of its indices, what the last set of it wrote, for as *)
(* long as no set and get have met inside enqueue().                       *)
GetReadsLatest ==
    ~collided => \A c \in Clients : op[c] = "get" /\ pc[c] = "ret" =>
        \A k \in keys[c] : got[c][k] = latest[k]

(* When flush returns, every row ever set is in the storage: a snapshot    *)
(* taken then misses nothing, unless two producers have met.               *)
FlushComplete ==
    ~collided => \A c \in Clients : op[c] = "flush" /\ pc[c] = "ret" => storage = latest

(* A late eviction, or the write-back of a row a get had read, never puts  *)
(* an older version over a newer one in the storage, unless two producers  *)
(* have met: an older item may then outlive a newer one.                   *)
StorageNeverRegresses == [][~collided => \A k \in Keys : storage'[k] >= storage[k]]_vars

(* Every call returns: neither the wait for the drained queue, nor the     *)
(* cache's mutex, nor the queue's lock barrier blocks a caller for ever.   *)
CallsReturn == \A c \in Clients : Active(c) ~> ~Active(c)

(* Queued rows are applied, unless the destructor drops them. *)
QueueDrains == queue # <<>> ~> queue = <<>> \/ stop

(* The destructor's join returns, whatever the background thread was doing. *)
DestructorReturns == stop ~> pc[Owner] = "exit"

-----------------------------------------------------------------------------
(* Refinement of KVStore.  A set takes effect when its item is queued (or,  *)
(* with no queue, when it has the cache's mutex), a get and a flush when    *)
(* they return.                                                             *)

Effective(c) == CASE op[c] = "none" -> FALSE
                  [] op[c] = "set"  -> pc[c] \notin {"enq", "enq_end", "lock"}
                  [] OTHER          -> pc[c] = "ret"

Abstract == INSTANCE KVStore WITH
    Versions <- 1..MaxVersion,
    call    <- op,
    done    <- [c \in Clients |-> Effective(c)],
    args    <- [c \in Clients |-> IF op[c] = "flush" THEN {} ELSE keys[c]],
    pending <- [c \in Clients |-> IF op[c] = "set" /\ ~Effective(c) THEN rows[c] ELSE NoRows],
    reply   <- [c \in Clients |-> IF op[c] = "get" /\ Effective(c) THEN got[c] ELSE NoRows],
    store   <- latest,
    durable <- storage

(* EmbeddingKVDB is a linearizable store whose flush makes it durable, for *)
(* as long as no two producers have met inside enqueue().                  *)
ImplementsKVStore == Abstract!Init /\ [][collided \/ Abstract!Next]_(Abstract!vars)

=============================================================================
