-------------------------- MODULE EmbeddingKVDB_proofs --------------------------
(***************************************************************************)
(* The safety properties of EmbeddingKVDB for every number of clients,     *)
(* indices, cache sizes and calls: first who holds what and who waits for  *)
(* whom, then what becomes of the rows it is given: no row is lost, gets   *)
(* read the newest rows, a flush stores them all, and so it implements     *)
(* KVStore.                                                                *)
(*                                                                         *)
(* One assumption is made where it is needed: CacheLib allocates           *)
(* (~AllocFails: put drops a row that finds no room, as its log line       *)
(* says).  What becomes of the rows is stated for as long as no two        *)
(* threads have been inside enqueue() together (~collided), which no code  *)
(* rules out; who holds what and who waits for whom, for ever.             *)
(***************************************************************************)
EXTENDS EmbeddingKVDB, SequenceTheorems, FiniteSetTheorems, TLAPS

(* The program points that only one kind of call reaches. *)
CvLabels    == {"cv_lock", "cv_check", "cv_sleep", "cv_wait"}
GetLabels   == {"lookup", "fetch"}
FlushLabels == {"copy", "flush_write"}
BgLabels    == {"cv_lock", "cv_check", "cv_sleep", "cv_wait", "peek", "lock", "put",
                "write", "unlock", "dequeue", "barrier", "notify", "exit"}
OwnerLabels == {"alive", "barrier", "notify", "join", "exit"}

(* While the background thread applies an item, the item is in the queue. *)
Applying == pc[BgThread] \in {"lock", "put", "write", "unlock", "dequeue"}

FlowOK ==
    /\ \A c \in Clients : /\ pc[c] \in CvLabels => op[c] \in {"get", "flush"}
                          /\ pc[c] \in GetLabels => op[c] = "get"
                          /\ pc[c] \in FlushLabels => op[c] = "flush"
                          /\ pc[c] \in {"lock", "enq", "enq_end", "put"} => op[c] \in {"get", "set"}
                          /\ pc[c] = "idle" <=> op[c] = "none"
    /\ pc[BgThread] \in BgLabels /\ pc[Owner] \in OwnerLabels
    /\ Applying => queue # <<>>

(* A thread is in the critical section exactly when it holds the mutex. *)
L2Owner == \A t \in Threads : HoldsL2(t) <=> l2Mtx = t

Control == TypeOK /\ FlowOK /\ L2Owner

-----------------------------------------------------------------------------
(* Batches of rows.                                                         *)

LEMMA PickType ==
    ASSUME NEW f \in Batch, NEW K
    PROVE  Pick(f, K) \in Batch
BY DEF Pick, Batch

LEMMA NoRowsType == NoRows \in Batch
BY DEF NoRows, Batch

LEMMA SubsetRowsType ==
    ASSUME NEW v \in Version, NEW K
    PROVE  Pick([k \in Keys |-> v], K) \in Batch
BY DEF Pick, Batch

LEMMA OverwriteStorage ==
    ASSUME NEW f \in [Keys -> Version], NEW g \in Batch
    PROVE  Overwrite(f, g) \in [Keys -> Version]
BY DEF Overwrite, Batch, Absent, Version

LEMMA OverwriteBatch ==
    ASSUME NEW f \in Batch, NEW g \in Batch
    PROVE  Overwrite(f, g) \in Batch
BY DEF Overwrite, Batch

-----------------------------------------------------------------------------
(* Control: types, where each thread may be, who holds l2_cache_mtx_.       *)

LEMMA ThreadsDistinct ==
    /\ BgThread \in Threads /\ Owner \in Threads /\ BgThread # Owner
    /\ Clients \subseteq Threads /\ BgThread \notin Clients /\ Owner \notin Clients
    /\ \A t \in Threads : t # NoThread
BY ConstantsAssumption DEF Threads

LEMMA InitControl == Init => Control
<1>. SUFFICES ASSUME Init PROVE Control
  OBVIOUS
<1>1. /\ pc \in [Threads -> Labels] /\ op \in [Clients -> {"none", "get", "set", "flush"}]
      /\ keys \in [Clients -> SUBSET Keys]
      /\ rows \in [Threads -> Batch] /\ got \in [Clients -> Batch]
      /\ storage \in [Keys -> Version] /\ latest \in [Keys -> Version]
  BY NoRowsType DEF Init, Labels, Version
<1>2. TypeOK
  <2>1. queue \in Seq(Batch)
    BY DEF Init
  <2>2. fillMtx \in Threads \cup {NoThread} /\ l2Mtx \in Threads \cup {NoThread}
    BY DEF Init
  <2>3. stop \in BOOLEAN /\ collided \in BOOLEAN /\ version \in Version
    BY DEF Init, Version
  <2>4. l2 \in Batch /\ evicted \in Batch
    BY NoRowsType DEF Init
  <2>. QED
    BY <1>1, <2>1, <2>2, <2>3, <2>4 DEF TypeOK
<1>3. FlowOK
  BY ThreadsDistinct DEF Init, FlowOK, Applying, CvLabels, GetLabels, FlushLabels, BgLabels, OwnerLabels
<1>4. L2Owner
  BY ThreadsDistinct DEF Init, L2Owner, HoldsL2
<1>. QED
  BY <1>2, <1>3, <1>4 DEF Control

(* Calls begin and end outside the critical section. *)
LEMMA CallControl ==
    ASSUME Control, NEW c \in Clients, ClientCall(c) \/ Return(c)
    PROVE  Control'
<1>. USE DEF Control
<1>1. /\ c \in Threads /\ c # BgThread /\ c # Owner
      /\ UNCHANGED <<queue, data, fillMtx, l2Mtx, stop, latest, mode>>
  BY ThreadsDistinct DEF ClientCall, CallGet, CallSet, CallFlush, Call, Return, ghost
<1>2. \E kind \in {"none", "get", "set", "flush"}, label \in {"idle", "cv_lock", "lock", "enq", "copy"} :
        /\ op' = [op EXCEPT ![c] = kind] /\ pc' = [pc EXCEPT ![c] = label]
        /\ pc[c] \in {"idle", "ret"}
        /\ label = "idle" <=> kind = "none"
        /\ label = "enq" => kind = "set"
        /\ label = "copy" => kind = "flush"
        /\ label = "cv_lock" => kind # "set"
        /\ label = "lock" => kind \in {"get", "set"}
  BY DEF ClientCall, CallGet, CallSet, CallFlush, Call, Return, Goto, MayCall
<1>3. keys' \in [Clients -> SUBSET Keys] /\ got' \in [Clients -> Batch] /\ version' \in Version
  <2>1. /\ version' \in {version, version + 1}
        /\ got' = got \/ got' = [got EXCEPT ![c] = NoRows]
        /\ \E K \in SUBSET Keys : keys' = [keys EXCEPT ![c] = K]
    BY DEF ClientCall, CallGet, CallSet, CallFlush, Call, Return, ghost
  <2>2. TypeOK
    OBVIOUS
  <2>3. version' \in Version
    BY <2>1, <2>2 DEF TypeOK, Version
  <2>4. keys' \in [Clients -> SUBSET Keys] /\ got' \in [Clients -> Batch]
    BY <2>1, <2>2, NoRowsType DEF TypeOK
  <2>. QED
    BY <2>3, <2>4
<1>4. rows' \in [Threads -> Batch]
  <2>1. CASE Return(c) \/ CallFlush(c) \/ \E K \in SUBSET Keys \ {{}} : CallGet(c, K)
    BY <2>1, NoRowsType DEF Return, CallFlush, CallGet, TypeOK
  <2>2. ASSUME NEW K \in SUBSET Keys \ {{}}, CallSet(c, K) PROVE rows' \in [Threads -> Batch]
    <3>1. version + 1 \in Version
      BY DEF TypeOK, Version
    <3>. QED
      BY <2>2, <3>1, SubsetRowsType DEF CallSet, TypeOK
  <2>. QED
    BY <2>1, <2>2 DEF ClientCall
<1>5. TypeOK'
  <2>1. pc' \in [Threads -> Labels]
    BY <1>2 DEF TypeOK, Labels
  <2>2. op' \in [Clients -> {"none", "get", "set", "flush"}]
    BY <1>2 DEF TypeOK
  <2>. QED
    BY <1>1, <1>3, <1>4, <2>1, <2>2 DEF TypeOK, mode, data
<1>6. FlowOK'
  BY <1>1, <1>2 DEF FlowOK, TypeOK, Applying, CvLabels, GetLabels, FlushLabels
<1>7. L2Owner'
  BY <1>1, <1>2 DEF L2Owner, HoldsL2, TypeOK
<1>. QED
  BY <1>5, <1>6, <1>7

(* The condition variable and the lock barrier do not touch the critical    *)
(* section: a thread waits before it enters, and notifies with or after it. *)
LEMMA CvControl ==
    ASSUME Control, NEW t \in Clients \cup {BgThread}, CvStep(t) \/ SpuriousWake(t)
    PROVE  Control'
<1>. USE DEF Control
<1>1. /\ t \in Threads /\ t # Owner
      /\ UNCHANGED <<op, keys, rows, got, queue, data, l2Mtx, stop, ghost, mode>>
      /\ fillMtx' \in Threads \cup {NoThread}
  BY ThreadsDistinct DEF CvStep, CvLock, CvCheck, CvSleep, LockBarrier, SpuriousWake, TypeOK
<1>2. \E from, to \in Labels :
        /\ pc[t] = from /\ pc' = [pc EXCEPT ![t] = to]
        /\ \/ from \in CvLabels /\ to \in CvLabels
           \/ from = "cv_check" /\ t = BgThread /\ to = "peek"
           \/ from = "cv_check" /\ t \in Clients /\ op[t] = "get" /\ to = "lock"
           \/ from = "cv_check" /\ t \in Clients /\ op[t] # "get" /\ to = "copy"
           \/ from = "barrier" /\ to = "notify"
  BY ThreadsDistinct DEF CvStep, CvLock, CvCheck, CvSleep, LockBarrier, SpuriousWake, Goto,
     AfterWait, Labels, CvLabels
<1>. QED
  <2>1. TypeOK'
    BY <1>1, <1>2 DEF TypeOK, mode, data, ghost
  <2>2. FlowOK'
    BY <1>1, <1>2, ThreadsDistinct DEF FlowOK, TypeOK, Applying, CvLabels, GetLabels,
       FlushLabels, BgLabels
  <2>3. L2Owner'
    BY <1>1, <1>2, ThreadsDistinct DEF L2Owner, HoldsL2, TypeOK, FlowOK, CvLabels
  <2>. QED
    BY <2>1, <2>2, <2>3

(* Waking threads takes them from the wait to the mutex of the queue. *)
LEMMA NotifyControl ==
    ASSUME Control, NEW t \in Threads, NEW next \in Labels, NEW W \in SUBSET Waiting,
           pc[t] = "notify",
           pc' = [u \in Threads |-> IF u = t THEN next ELSE IF u \in W THEN "cv_lock" ELSE pc[u]],
           t \in Clients => next = IF op[t] = "get" THEN "unlock" ELSE "ret",
           t = BgThread => next \in {"exit", "cv_lock"},
           t = Owner => next = "join",
           UNCHANGED <<op, keys, rows, got, queue, data, fillMtx, l2Mtx, stop, ghost, mode>>
    PROVE  Control'
<1>. USE DEF Control
<1>1. TypeOK'
  <2>1. pc' \in [Threads -> Labels]
    BY DEF TypeOK, Labels
  <2>. QED
    BY <2>1 DEF TypeOK, mode, data, ghost
<1>2. FlowOK'
  BY ThreadsDistinct DEF FlowOK, TypeOK, Applying, CvLabels, GetLabels, FlushLabels, BgLabels,
     OwnerLabels, Waiting
<1>3. L2Owner'
  <2>1. ASSUME NEW u \in Threads PROVE HoldsL2(u)' <=> HoldsL2(u)
    <3>1. CASE u = t
      BY <3>1, ThreadsDistinct DEF HoldsL2, FlowOK, Threads
    <3>2. CASE u # t
      BY <3>2 DEF HoldsL2, Waiting
    <3>. QED
      BY <3>1, <3>2
  <2>. QED
    BY <2>1 DEF L2Owner
<1>. QED
  BY <1>1, <1>2, <1>3

LEMMA EnqueueControl ==
    ASSUME Control, NEW c \in Clients, EnqueueBegin(c) \/ EnqueueEnd(c)
    PROVE  Control'
<1>. USE DEF Control
<1>1. /\ c \in Threads /\ c # BgThread /\ c # Owner
      /\ UNCHANGED <<op, keys, got, data, fillMtx, l2Mtx, stop, version>>
      /\ collided' \in BOOLEAN
      /\ \/ pc[c] = "enq" /\ pc' = [pc EXCEPT ![c] = "enq_end"]
         \/ pc[c] = "enq_end" /\ pc' = [pc EXCEPT ![c] = "barrier"]
  BY ThreadsDistinct DEF EnqueueBegin, EnqueueEnd, Goto, ghost, mode, TypeOK
<1>2. /\ queue' = queue \/ queue' = Append(queue, rows[c])
      /\ latest' = latest \/ latest' = Overwrite(latest, rows[c])
      /\ rows' = rows \/ rows' = [rows EXCEPT ![c] = NoRows]
  BY DEF EnqueueBegin, EnqueueEnd, ghost
<1>3. /\ queue' \in Seq(Batch) /\ rows' \in [Threads -> Batch]
      /\ queue # <<>> => queue' # <<>>
  <2>1. rows[c] \in Batch /\ queue \in Seq(Batch)
    BY <1>1 DEF TypeOK
  <2>2. Append(queue, rows[c]) \in Seq(Batch) /\ Append(queue, rows[c]) # <<>>
    BY <2>1
  <2>. QED
    BY <1>1, <1>2, <2>1, <2>2, NoRowsType DEF TypeOK
<1>4. latest' \in [Keys -> Version]
  BY <1>1, <1>2, OverwriteStorage DEF TypeOK
<1>5. TypeOK'
  BY <1>1, <1>3, <1>4 DEF TypeOK, mode, Labels, data
<1>6. FlowOK'
  BY <1>1, <1>3, ThreadsDistinct DEF FlowOK, TypeOK, Applying, CvLabels, GetLabels, FlushLabels
<1>7. L2Owner'
  BY <1>1 DEF L2Owner, HoldsL2, TypeOK
<1>. QED
  BY <1>5, <1>6, <1>7

LEMMA LockControl ==
    ASSUME Control, NEW t \in Clients \cup {BgThread}, LockL2(t) \/ UnlockL2(t)
    PROVE  Control'
<1>. USE DEF Control
<1>1. /\ t \in Threads /\ t # Owner /\ t # NoThread
      /\ UNCHANGED <<op, keys, rows, got, queue, data, fillMtx, stop, version, mode>>
  BY ThreadsDistinct DEF LockL2, UnlockL2, ghost
<1>2. \/ /\ pc[t] = "lock" /\ l2Mtx = NoThread /\ l2Mtx' = t
         /\ pc' = [pc EXCEPT ![t] = IF t \in Clients /\ op[t] = "get" THEN "lookup" ELSE "put"]
      \/ /\ pc[t] = "unlock" /\ l2Mtx' = NoThread
         /\ pc' = [pc EXCEPT ![t] = IF t = BgThread THEN "dequeue" ELSE "ret"]
  BY DEF LockL2, UnlockL2, CanLockL2, Goto
<1>3. latest' \in [Keys -> Version]
  <2>1. latest' \in {latest, Overwrite(latest, rows[t])}
    BY DEF LockL2, UnlockL2, ghost
  <2>. QED
    BY <1>1, <2>1, OverwriteStorage DEF TypeOK
<1>4. TypeOK'
  BY <1>1, <1>2, <1>3 DEF TypeOK, mode, Labels, data
<1>5. FlowOK'
  BY <1>1, <1>2, ThreadsDistinct DEF FlowOK, TypeOK, Applying, CvLabels, GetLabels,
     FlushLabels, BgLabels
<1>6. L2Owner'
  BY <1>1, <1>2, ThreadsDistinct DEF L2Owner, HoldsL2, TypeOK
<1>. QED
  BY <1>4, <1>5, <1>6

(* The steps of a thread that holds the mutex keep it. *)
LEMMA HolderControl ==
    ASSUME Control, NEW t \in Clients \cup {BgThread},
           \/ t \in Clients /\ (Lookup(t) \/ Fetch(t))
           \/ PutDone(t) \/ WriteStorage(t)
           \/ \E k \in Keys : PutRow(t, k)
    PROVE  Control'
<1>. USE DEF Control
<1>1. /\ t \in Threads /\ t # Owner
      /\ UNCHANGED <<op, keys, queue, fillMtx, l2Mtx, stop, ghost, mode>>
      /\ \E to \in {"fetch", "unlock", "enq", "put", "write"} :
            /\ pc' = [pc EXCEPT ![t] = to]
            /\ pc[t] \in {"lookup", "fetch", "put", "write"}
            /\ to = "fetch" => pc[t] = "lookup"
            /\ to = "enq" => pc[t] = "fetch"
            /\ to = "put" => pc[t] \in {"put", "fetch"}
            /\ pc[t] \in {"lookup", "fetch"} => t \in Clients
  <2>1. ASSUME NEW k \in Keys, PutRow(t, k) PROVE pc' = [pc EXCEPT ![t] = "put"] /\ pc[t] = "put"
    BY <2>1 DEF PutRow, TypeOK
  <2>2. CASE Lookup(t) /\ t \in Clients
    BY <2>2, ThreadsDistinct DEF Lookup, Goto
  <2>3. CASE Fetch(t) /\ t \in Clients
    BY <2>3, ThreadsDistinct DEF Fetch, Goto
  <2>4. CASE PutDone(t) \/ WriteStorage(t)
    BY <2>4, ThreadsDistinct DEF PutDone, WriteStorage, Goto
  <2>5. t \in Threads /\ t # Owner /\ UNCHANGED <<op, keys, queue, fillMtx, l2Mtx, stop, ghost, mode>>
    BY ThreadsDistinct DEF Lookup, Fetch, PutDone, WriteStorage, PutRow, data
  <2>. QED
    BY <2>1, <2>2, <2>3, <2>4, <2>5
<1>2. /\ rows' \in [Threads -> Batch] /\ got' \in [Clients -> Batch]
      /\ l2' \in Batch /\ evicted' \in Batch /\ storage' \in [Keys -> Version]
  <2>0. /\ rows \in [Threads -> Batch] /\ got \in [Clients -> Batch] /\ l2 \in Batch
        /\ evicted \in Batch /\ storage \in [Keys -> Version] /\ storage \in Batch
    BY DEF TypeOK, Batch
  <2>1. CASE Lookup(t) /\ t \in Clients
    BY <2>0, <2>1, PickType DEF Lookup, data
  <2>2. CASE Fetch(t) /\ t \in Clients
    <3>. DEFINE misses == Pick(storage, keys[t] \ RowsOf(got[t]))
    <3>1. misses \in Batch /\ Overwrite(got[t], misses) \in Batch
      BY <2>0, <2>2, PickType, OverwriteBatch
    <3>2. /\ got' = [got EXCEPT ![t] = Overwrite(got[t], misses)]
          /\ rows' = [rows EXCEPT ![t] = IF HasL2 THEN misses ELSE NoRows]
          /\ UNCHANGED data
      BY <2>2 DEF Fetch
    <3>. QED
      BY <2>0, <3>1, <3>2, NoRowsType DEF data
  <2>3. CASE PutDone(t)
    BY <2>0, <2>3 DEF PutDone, data
  <2>4. CASE WriteStorage(t)
    <3>1. ToStorage(t) \in Batch
      BY <1>1, <2>0 DEF ToStorage
    <3>. QED
      BY <1>1, <2>0, <2>4, <3>1, OverwriteStorage, NoRowsType DEF WriteStorage
  <2>5. ASSUME NEW k \in Keys, PutRow(t, k)
        PROVE  /\ rows' \in [Threads -> Batch] /\ l2' \in Batch /\ evicted' \in Batch
               /\ UNCHANGED <<got, storage>>
    <3>1. /\ UNCHANGED <<got, storage>>
          /\ rows' = [rows EXCEPT ![t][k] = Absent]
          /\ \/ l2' = [l2 EXCEPT ![k] = rows[t][k]] /\ evicted' = evicted
             \/ \E e \in Keys : /\ l2' = [l2 EXCEPT ![e] = Absent, ![k] = rows[t][k]]
                                /\ evicted' = [evicted EXCEPT ![e] = l2[e]]
             \/ l2' = l2 /\ evicted' = evicted
      BY <2>5 DEF PutRow, RowsOf
    <3>2. rows[t][k] \in Version \cup {Absent}
      BY <1>1, <2>0 DEF Batch
    <3>3. rows' \in [Threads -> Batch]
      BY <1>1, <2>0, <3>1 DEF Batch
    <3>. QED
      BY <2>0, <3>1, <3>2, <3>3 DEF Batch
  <2>. QED
    BY <2>0, <2>1, <2>2, <2>3, <2>4, <2>5
<1>3. TypeOK'
  BY <1>1, <1>2 DEF TypeOK, mode, Labels, ghost
<1>4. FlowOK'
  BY <1>1, ThreadsDistinct DEF FlowOK, TypeOK, Applying, CvLabels, GetLabels,
     FlushLabels, BgLabels
<1>5. L2Owner'
  <2>1. t \in Clients /\ pc[t] \in {"lookup", "fetch"} => op[t] = "get"
    BY DEF FlowOK, GetLabels
  <2>. QED
    BY <1>1, <2>1, ThreadsDistinct DEF L2Owner, HoldsL2, TypeOK
<1>. QED
  BY <1>3, <1>4, <1>5

LEMMA BgControl == ASSUME Control, BgPeek \/ BgDequeue PROVE Control'
<1>. USE DEF Control
<1>1. /\ UNCHANGED <<op, keys, got, data, fillMtx, l2Mtx, stop, ghost, mode>>
      /\ \/ /\ pc[BgThread] = "peek" /\ queue' = queue
            /\ pc' = [pc EXCEPT ![BgThread] = IF queue = <<>> THEN "barrier"
                                              ELSE IF stop THEN "exit" ELSE "lock"]
            /\ \/ rows' = rows
               \/ queue # <<>> /\ rows' = [rows EXCEPT ![BgThread] = Head(queue)]
         \/ /\ pc[BgThread] = "dequeue" /\ queue' = Tail(queue) /\ rows' = rows
            /\ pc' = [pc EXCEPT ![BgThread] = "peek"]
  BY DEF BgPeek, BgDequeue, Goto
<1>2. queue' \in Seq(Batch)
  <2>1. CASE queue' = queue
    BY <2>1 DEF TypeOK
  <2>2. CASE pc[BgThread] = "dequeue" /\ queue' = Tail(queue)
    <3>1. queue \in Seq(Batch) /\ queue # <<>>
      BY <2>2 DEF FlowOK, Applying, TypeOK
    <3>. QED
      BY <2>2, <3>1
  <2>. QED
    BY <1>1, <2>1, <2>2
<1>3. rows' \in [Threads -> Batch]
  <2>1. queue \in Seq(Batch) /\ rows \in [Threads -> Batch]
    BY DEF TypeOK
  <2>2. queue # <<>> => Head(queue) \in Batch
    BY <2>1
  <2>. QED
    BY <1>1, <2>1, <2>2
<1>4. TypeOK'
  BY <1>1, <1>2, <1>3 DEF TypeOK, mode, Labels, data, ghost
<1>5. FlowOK'
  BY <1>1, ThreadsDistinct DEF FlowOK, TypeOK, Applying, CvLabels, GetLabels,
     FlushLabels, BgLabels
<1>6. L2Owner'
  BY <1>1, ThreadsDistinct DEF L2Owner, HoldsL2, TypeOK
<1>. QED
  BY <1>4, <1>5, <1>6

LEMMA FlushControl ==
    ASSUME Control, NEW c \in Clients, FlushCopy(c) \/ FlushWrite(c)
    PROVE  Control'
<1>. USE DEF Control
<1>1. /\ c \in Threads /\ c # BgThread /\ c # Owner
      /\ UNCHANGED <<op, got, queue, l2, evicted, fillMtx, l2Mtx, stop, ghost, mode>>
      /\ \/ pc[c] = "copy" /\ storage' = storage
            /\ \E to \in {"ret", "flush_write"} : pc' = [pc EXCEPT ![c] = to]
         \/ pc[c] = "flush_write" /\ storage' = Overwrite(storage, rows[c])
            /\ pc' = [pc EXCEPT ![c] = "copy"]
  BY ThreadsDistinct DEF FlushCopy, FlushWrite, Goto, data
<1>2. /\ keys' \in [Clients -> SUBSET Keys] /\ rows' \in [Threads -> Batch]
  <2>1. \/ keys' = keys /\ rows' = rows
        \/ \E B \in SUBSET Keys : /\ rows' = [rows EXCEPT ![c] = Pick(l2, B)]
                                  /\ keys' = [keys EXCEPT ![c] = keys[c] \cup B]
    <3>1. CASE FlushWrite(c)
      BY <3>1 DEF FlushWrite
    <3>2. CASE FlushCopy(c)
      <4>1. Unvisited(c) \in SUBSET Keys
        BY DEF Unvisited, RowsOf
      <4>. QED
        BY <3>2, <4>1 DEF FlushCopy
    <3>. QED
      BY <3>1, <3>2
  <2>2. \A B \in SUBSET Keys : Pick(l2, B) \in Batch
    BY PickType DEF TypeOK
  <2>3. keys[c] \in SUBSET Keys
    BY DEF TypeOK
  <2>4. keys \in [Clients -> SUBSET Keys] /\ rows \in [Threads -> Batch]
    BY DEF TypeOK
  <2>5. ASSUME NEW B \in SUBSET Keys
        PROVE  /\ [rows EXCEPT ![c] = Pick(l2, B)] \in [Threads -> Batch]
               /\ [keys EXCEPT ![c] = keys[c] \cup B] \in [Clients -> SUBSET Keys]
    BY <2>2, <2>3, <2>4
  <2>. QED
    BY <2>1, <2>4, <2>5
<1>3. storage' \in [Keys -> Version]
  BY <1>1, OverwriteStorage DEF TypeOK
<1>4. TypeOK'
  BY <1>1, <1>2, <1>3 DEF TypeOK, mode, Labels, ghost
<1>5. FlowOK'
  BY <1>1, ThreadsDistinct DEF FlowOK, TypeOK, Applying, CvLabels, GetLabels, FlushLabels
<1>6. L2Owner'
  BY <1>1 DEF L2Owner, HoldsL2, TypeOK
<1>. QED
  BY <1>4, <1>5, <1>6

LEMMA OwnerControl ==
    ASSUME Control, Destroy \/ LockBarrier(Owner) \/ Join
    PROVE  Control'
<1>. USE DEF Control
<1>1. /\ UNCHANGED <<op, keys, rows, got, queue, data, fillMtx, l2Mtx, ghost, mode>>
      /\ stop' \in BOOLEAN
      /\ \E to \in {"barrier", "notify", "exit"} : pc' = [pc EXCEPT ![Owner] = to]
      /\ ~HoldsL2(Owner)
  BY ThreadsDistinct DEF Destroy, LockBarrier, Join, Goto, TypeOK, HoldsL2
<1>2. TypeOK'
  BY <1>1 DEF TypeOK, mode, Labels, data, ghost
<1>3. FlowOK'
  BY <1>1, ThreadsDistinct DEF FlowOK, TypeOK, Applying, CvLabels, GetLabels, FlushLabels,
     BgLabels, OwnerLabels
<1>4. L2Owner'
  BY <1>1, ThreadsDistinct DEF L2Owner, HoldsL2, TypeOK
<1>. QED
  BY <1>2, <1>3, <1>4

LEMMA StutterControl == ASSUME Control, UNCHANGED vars PROVE Control'
BY DEF Control, TypeOK, FlowOK, L2Owner, HoldsL2, Applying, vars, data, ghost, mode

LEMMA NextControl == ASSUME Control, [Next]_vars PROVE Control'
<1>1. ASSUME NEW c \in Clients, ClientCall(c) \/ ClientStep(c) PROVE Control'
  <2>1. CASE NotifyOne(c)
    <3>. DEFINE next == IF op[c] = "get" THEN "unlock" ELSE "ret"
    <3>1. PICK W \in SUBSET Waiting :
            pc' = [u \in Threads |-> IF u = c THEN next ELSE IF u \in W THEN "cv_lock" ELSE pc[u]]
      <4>0. pc \in [Threads -> Labels] /\ c \in Threads /\ c \notin Waiting
        BY <2>1, ThreadsDistinct DEF Control, TypeOK, NotifyOne, Waiting
      <4>1. CASE pc' = [pc EXCEPT ![c] = next]
        <5>1. pc' = [u \in Threads |-> IF u = c THEN next ELSE IF u \in {} THEN "cv_lock" ELSE pc[u]]
          BY <4>0, <4>1
        <5>. WITNESS {} \in SUBSET Waiting
        <5>. QED
          BY <5>1
      <4>2. ASSUME NEW w \in Waiting, pc' = [pc EXCEPT ![c] = next, ![w] = "cv_lock"]
            PROVE  \E W \in SUBSET Waiting : pc' =
                     [u \in Threads |-> IF u = c THEN next ELSE IF u \in W THEN "cv_lock" ELSE pc[u]]
        <5>1. pc' = [u \in Threads |-> IF u = c THEN next ELSE IF u \in {w} THEN "cv_lock" ELSE pc[u]]
          BY <4>0, <4>2
        <5>. WITNESS {w} \in SUBSET Waiting
        <5>. QED
          BY <5>1
      <4>3. \/ pc' = [pc EXCEPT ![c] = next]
            \/ \E w \in Waiting : pc' = [pc EXCEPT ![c] = next, ![w] = "cv_lock"]
        BY <2>1 DEF NotifyOne, Goto
      <4>. HIDE DEF next
      <4>. QED
        BY <4>1, <4>2, <4>3
    <3>2. c \in Threads /\ c # BgThread /\ c # Owner /\ next \in Labels
      BY ThreadsDistinct DEF Labels
    <3>. QED
      BY <2>1, <3>1, <3>2, NotifyControl DEF NotifyOne
  <2>2. CASE CvStep(c)
    BY <2>2, CvControl
  <2>3. CASE LockL2(c) \/ UnlockL2(c)
    BY <2>3, LockControl
  <2>4. CASE Lookup(c) \/ Fetch(c) \/ PutDone(c) \/ WriteStorage(c) \/ \E k \in Keys : PutRow(c, k)
    BY <2>4, HolderControl
  <2>. QED
    BY <1>1, <2>1, <2>2, <2>3, <2>4, CallControl, EnqueueControl, FlushControl
       DEF ClientStep, UpdateStep
<1>2. ASSUME NEW t \in Threads, SpuriousWake(t) PROVE Control'
  <2>1. t # Owner
    BY <1>2 DEF SpuriousWake, Control, FlowOK, OwnerLabels
  <2>. QED
    BY <1>2, <2>1, CvControl DEF Threads
<1>3. CASE BgStep
  <2>1. CASE BgNotifyAll
    <3>. DEFINE next == IF stop THEN "exit" ELSE "cv_lock"
    <3>1. Waiting \in SUBSET Waiting /\ next \in Labels /\ next \in {"exit", "cv_lock"}
      BY DEF Labels
    <3>. QED
      BY <2>1, <3>1, ThreadsDistinct, NotifyControl DEF BgNotifyAll, NotifyAll
  <2>2. CASE LockL2(BgThread) \/ UnlockL2(BgThread)
    BY <2>2, LockControl
  <2>3. CASE PutDone(BgThread) \/ WriteStorage(BgThread) \/ \E k \in Keys : PutRow(BgThread, k)
    BY <2>3, HolderControl
  <2>. QED
    BY <1>3, <2>1, <2>2, <2>3, CvControl, BgControl DEF BgStep, UpdateStep
<1>4. CASE OwnerStep
  <2>1. CASE OwnerNotifyAll
    <3>1. Waiting \in SUBSET Waiting /\ "join" \in Labels
      BY DEF Labels
    <3>. QED
      BY <2>1, <3>1, ThreadsDistinct, NotifyControl DEF OwnerNotifyAll, NotifyAll
  <2>. QED
    BY <1>4, <2>1, OwnerControl DEF OwnerStep
<1>. QED
  BY <1>1, <1>2, <1>3, <1>4, StutterControl, OwnerControl DEF Next

(* Types, program points and the owner of l2_cache_mtx_, for any number of  *)
(* clients and indices and for every build option.                          *)
THEOREM ControlInvariance == Spec => []Control
BY InitControl, NextControl, PTL DEF Spec

(* Every variable keeps its type: no client, queue item or cache row is     *)
(* ever of another shape than the code's.                                   *)
THEOREM TypeCorrectness == Spec => []TypeOK
<1>1. Control => TypeOK
  BY DEF Control
<1>. QED
  BY <1>1, ControlInvariance, PTL

(* Lookups, copies, puts and write-backs of the cache exclude one another.  *)
THEOREM CacheExclusion == Spec => []L2Exclusive
<1>1. Control => L2Exclusive
  BY DEF Control, L2Owner, L2Exclusive
<1>. QED
  BY <1>1, ControlInvariance, PTL

-----------------------------------------------------------------------------
(* The rows.                                                               *)
-----------------------------------------------------------------------------
(* The places of each kind of call, and that a synchronous store has no     *)
(* queue and no background thread.                                          *)
Producing == {"enq", "enq_end", "barrier", "notify"}

RouteOf(c) ==
    /\ op[c] = "get" => pc[c] \in {"lock", "lookup", "fetch", "unlock", "ret"}
                           \cup (IF async THEN CvLabels \cup Producing ELSE {"put", "write"})
    /\ op[c] = "set" => pc[c] \in {"ret"} \cup
                           (IF async THEN Producing ELSE {"lock", "put", "write", "unlock"})
    /\ op[c] = "flush" => pc[c] \in FlushLabels \cup {"ret"} \cup (IF async THEN CvLabels ELSE {})

Routes == /\ async \in BOOLEAN
          /\ ~async => queue = <<>> /\ pc[BgThread] = "exit"
          /\ \A c \in Clients : RouteOf(c)

(* What the callers guarantee of calls in progress. *)
Apart ==
    \A c, d \in Clients : c # d /\ Active(c) /\ Active(d) =>
        /\ op[c] # "flush"
        /\ op[c] = "set" => keys[c] \cap keys[d] = {}

(* A row only gets newer on its way from the storage, over the rows the     *)
(* cache has evicted, the cache and the queue, to the newest.               *)
OrderOf(k) ==
    /\ evicted[k] # Absent => storage[k] <= evicted[k]
    /\ l2[k] # Absent => /\ storage[k] <= l2[k]
                         /\ evicted[k] # Absent => evicted[k] <= l2[k]
    /\ Stored(k) <= latest[k] /\ latest[k] <= version
    /\ \A i \in Queued(k) : Stored(k) <= queue[i][k] /\ queue[i][k] <= latest[k]
    /\ \A i, j \in Queued(k) : i <= j => queue[i][k] <= queue[j][k]

Ordered == \A k \in Keys : OrderOf(k)

(* A set that has not taken effect holds newer rows than any there are.     *)
Due(c) == op[c] = "set" /\ pc[c] \in {"enq", "enq_end", "lock"}
PendingOf(c) ==
    Due(c) => \A k \in Keys :
        IF k \in keys[c] THEN latest[k] < rows[c][k] /\ rows[c][k] <= version
                         ELSE rows[c][k] = Absent

(* What a client puts into the cache or, after a get, into the queue, is    *)
(* the newest row of an index of its call.                                  *)
Updating(t) == pc[t] \in {"put", "write"}
CarriedOf(c) ==
    Updating(c) \/ (op[c] = "get" /\ pc[c] \in {"enq", "enq_end"}) =>
        \A k \in Keys : rows[c][k] # Absent => k \in keys[c] /\ rows[c][k] = latest[k]

(* When a get does not wait for the queue any more, nothing but the newest  *)
(* row of its indices is around.                                            *)
Past(c) == op[c] = "get" /\ pc[c] \notin CvLabels
SettledOf(c) ==
    Past(c) => \A k \in keys[c] :
        Stored(k) = latest[k] /\ \A i \in Queued(k) : queue[i][k] = latest[k]

(* What a get has read: the hits, and then all rows.                        *)
Read(c) == op[c] = "get" /\ pc[c] \in {"put", "write", "unlock", "ret"} \cup Producing
AnswerOf(c) ==
    /\ pc[c] = "fetch" => \A k \in Keys :
          IF k \in keys[c] THEN got[c][k] = latest[k] \/ (got[c][k] = Absent /\ l2[k] = Absent)
                           ELSE got[c][k] = Absent
    /\ Read(c) => \A k \in Keys : got[c][k] = IF k \in keys[c] THEN latest[k] ELSE Absent

(* What a flush has written.                                                *)
FlushOf(c) ==
    op[c] = "flush" =>
        /\ pc[c] \in CvLabels => keys[c] = {}
        /\ pc[c] \notin CvLabels => queue = <<>>
        /\ pc[c] \in FlushLabels => \A k \in keys[c] :
              storage[k] = latest[k] \/ (pc[c] = "flush_write" /\ rows[c][k] = latest[k])
        /\ pc[c] = "flush_write" => \A k \in Keys : rows[c][k] \in {Absent, latest[k]}
        /\ pc[c] = "ret" => storage = latest

Calls == \A c \in Clients : /\ PendingOf(c) /\ CarriedOf(c) /\ SettledOf(c)
                             /\ AnswerOf(c) /\ FlushOf(c)

(* The background thread has the rows of the head of the queue in hand,     *)
(* less those it has put into the cache already.                            *)
Applied ==
    /\ pc[BgThread] = "lock" => rows[BgThread] = Head(queue)
    /\ Updating(BgThread) =>
          /\ \A k \in Keys : rows[BgThread][k] \in {Absent, Head(queue)[k]}
          /\ ~HasL2 => rows[BgThread] = Head(queue)
    /\ HasL2 /\ pc[BgThread] = "write" => rows[BgThread] = NoRows
    /\ pc[BgThread] \in {"unlock", "dequeue"} => rows[BgThread] = NoRows
    /\ (HasL2 /\ Updating(BgThread)) \/ pc[BgThread] \in {"unlock", "dequeue"} =>
          \A k \in Keys : Head(queue)[k] # Absent /\ rows[BgThread][k] = Absent =>
              Stored(k) = Head(queue)[k]

(* Rows evicted from the cache are written before its mutex is released.    *)
Clean ==
    /\ (\A t \in Threads : ~Updating(t)) => evicted = NoRows
    /\ ~HasL2 => l2 = NoRows /\ evicted = NoRows

Data == Routes /\ Apart /\ Ordered /\ Calls /\ Applied /\ Clean /\ EveryRowKept

IInv == Control /\ Data

-----------------------------------------------------------------------------
(* The initial state.                                                       *)

LEMMA InitData == Init => Data
<1> SUFFICES ASSUME Init PROVE Data
  OBVIOUS
<1>1. /\ \A c \in Clients : op[c] = "none" /\ pc[c] = "idle" /\ rows[c] = NoRows
      /\ \A t \in Threads : ~Updating(t)
      /\ pc[BgThread] \in {"cv_lock", "exit"} /\ (~async => pc[BgThread] = "exit")
      /\ async \in BOOLEAN
  BY ThreadsDistinct, ConstantsAssumption DEF Init, Updating
<1>2. \A k \in Keys : /\ l2[k] = Absent /\ evicted[k] = Absent /\ storage[k] = 0 /\ latest[k] = 0
                      /\ Queued(k) = {} /\ InHand(k) = {} /\ Stored(k) = 0
  <2>1. ASSUME NEW k \in Keys
        PROVE  l2[k] = Absent /\ evicted[k] = Absent /\ storage[k] = 0 /\ latest[k] = 0
    BY DEF Init, NoRows
  <2>2. Len(queue) = 0
    BY DEF Init
  <2>3. \A k \in Keys : Queued(k) = {}
    BY <2>2 DEF Queued
  <2>4. \A k \in Keys : InHand(k) = {}
    BY <1>1 DEF InHand
  <2>. QED BY <2>1, <2>3, <2>4 DEF Stored
<1>3. Routes /\ Apart /\ Clean
  BY <1>1 DEF Init, Routes, RouteOf, Apart, Clean, Active
<1>4. Calls /\ Applied
  BY <1>1 DEF Calls, PendingOf, Due, CarriedOf, SettledOf, Past, AnswerOf, Read, Applied, FlushOf, Updating
<1>5. Ordered /\ EveryRowKept
  BY <1>2 DEF Init, Ordered, OrderOf, EveryRowKept
<1>. QED BY <1>3, <1>4, <1>5 DEF Data

-----------------------------------------------------------------------------
(* Steps that move no rows.                                                 *)

(* What such a step must keep of the places of the threads.                 *)
Still(c) ==
    /\ Due(c)' => Due(c)
    /\ Past(c)' => Past(c) \/ (async /\ queue = <<>>)
    /\ Read(c)' => Read(c)
    /\ pc'[c] = "fetch" => pc[c] = "fetch"
    /\ Updating(c)' \/ (op[c] = "get" /\ pc'[c] \in {"enq", "enq_end"}) =>
           Updating(c) \/ (op[c] = "get" /\ pc[c] \in {"enq", "enq_end"})
    /\ op[c] = "flush" /\ pc'[c] # pc[c] =>
           \/ pc'[c] \in CvLabels /\ pc[c] \in CvLabels
           \/ pc'[c] = "copy" /\ pc[c] \in CvLabels /\ queue = <<>>
    /\ pc[c] = "put" \/ (pc[c] = "write" /\ ~HasL2) =>
           pc'[c] = "put" \/ (pc'[c] = "write" /\ ~HasL2) \/ rows[c] = NoRows
    /\ pc'[c] = "put" \/ (pc'[c] = "write" /\ ~HasL2) =>
           pc[c] = "put" \/ (pc[c] = "write" /\ ~HasL2)

LEMMA StillData ==
    ASSUME IInv, Routes', Applied', \A c \in Clients : Still(c),
           UNCHANGED <<op, keys, rows, got, queue, data, ghost, capacity, async>>,
           \A t \in Threads : Updating(t) => Updating(t)'
    PROVE  Data'
<1>. USE DEF IInv, Data, Control
<1>1. \A k \in Keys : Stored(k)' = Stored(k) /\ Queued(k)' = Queued(k)
  BY DEF Stored, Queued, data
<1>2. HasL2' = HasL2
  BY DEF HasL2, mode
<1>3. Apart' /\ Ordered'
  BY <1>1 DEF Apart, Active, Ordered, OrderOf, data, ghost
<1>4. Clean'
  BY <1>2 DEF Clean, data
<1>5. EveryRowKept'
  <2>1. ASSUME NEW k \in Keys PROVE InHand(k)' = InHand(k)
    BY <1>2 DEF InHand, Still, NoRows
  <2>. QED BY <1>1, <2>1 DEF EveryRowKept, ghost
<1>6. Calls'
  <2> SUFFICES ASSUME NEW c \in Clients
               PROVE  PendingOf(c)' /\ CarriedOf(c)' /\ SettledOf(c)' /\ AnswerOf(c)' /\ FlushOf(c)'
    BY DEF Calls
  <2>0. Still(c) /\ PendingOf(c) /\ CarriedOf(c) /\ SettledOf(c) /\ AnswerOf(c) /\ FlushOf(c)
    BY DEF Calls
  <2>1. PendingOf(c)' /\ CarriedOf(c)'
    BY <2>0 DEF PendingOf, CarriedOf, Still, ghost
  <2>2. AnswerOf(c)' /\ FlushOf(c)'
    BY <2>0 DEF AnswerOf, FlushOf, Still, data, ghost, CvLabels, FlushLabels
  <2>3. SettledOf(c)'
    <3> SUFFICES ASSUME Past(c)', NEW k \in keys[c]
                 PROVE  Stored(k) = latest[k] /\ \A i \in Queued(k) : queue[i][k] = latest[k]
      <4>1. \A l \in keys[c] : l \in Keys
        BY DEF TypeOK
      <4>. QED BY <1>1, <4>1 DEF SettledOf, ghost
    <3>0. k \in Keys
      BY DEF TypeOK
    <3>1. CASE Past(c)
      BY <2>0, <3>1 DEF SettledOf
    <3>2. CASE async /\ queue = <<>>
      <4>1. \A d \in Clients : pc[d] \notin {"put", "write"}
        BY <3>2 DEF Routes, RouteOf, TypeOK, FlowOK, CvLabels, Producing, FlushLabels
      <4>2. Queued(k) = {} /\ InHand(k) = {}
        BY <3>2, <4>1 DEF Queued, InHand
      <4>. QED BY <3>0, <4>2 DEF EveryRowKept
    <3>. QED BY <2>0, <3>1, <3>2 DEF Still
  <2>. QED BY <2>1, <2>2, <2>3
<1>. QED BY <1>3, <1>4, <1>5, <1>6

(* The moves of a client, and of the background thread, in such a step.     *)
Move(c) ==
    \/ pc'[c] = pc[c]
    \/ pc[c] \in CvLabels /\ pc'[c] \in CvLabels
    \/ pc[c] = "cv_check" /\ queue = <<>> /\ pc'[c] = IF op[c] = "get" THEN "lock" ELSE "copy"
    \/ pc[c] = "barrier" /\ pc'[c] = "notify"
    \/ pc[c] = "notify" /\ pc'[c] = IF op[c] = "get" THEN "unlock" ELSE "ret"
    \/ pc[c] = "enq" /\ pc'[c] = "enq_end"
    \/ pc[c] = "lock" /\ pc'[c] = "lookup" /\ op[c] = "get"
    \/ pc[c] = "put" /\ pc'[c] = "write" /\ (HasL2 => rows[c] = NoRows)
    \/ pc[c] = "unlock" /\ pc'[c] = "ret"

BgMove ==
    \/ pc'[BgThread] = pc[BgThread]
    \/ async /\ pc'[BgThread] \in CvLabels \cup {"peek", "barrier", "notify", "exit"}
    \/ pc[BgThread] = "lock" /\ pc'[BgThread] = "put"
    \/ pc[BgThread] = "put" /\ pc'[BgThread] = "write" /\ (HasL2 => rows[BgThread] = NoRows)
    \/ pc[BgThread] = "unlock" /\ pc'[BgThread] = "dequeue"

LEMMA MoveData ==
    ASSUME IInv, \A c \in Clients : Move(c), BgMove,
           UNCHANGED <<op, keys, rows, got, queue, data, ghost, capacity, async>>,
           \A t \in Threads : Updating(t) => Updating(t)'
    PROVE  Data'
<1>. USE DEF IInv, Data, Control
<1>1. ASSUME NEW c \in Clients PROVE Still(c)
  <2>1. Move(c)
    OBVIOUS
  <2>2. /\ pc[c] = "cv_check" => op[c] \in {"get", "flush"} /\ async
        /\ pc[c] = "put" => op[c] \in {"get", "set"}
        /\ pc[c] \in CvLabels => op[c] \in {"get", "flush"}
        /\ pc[c] = "lock" => op[c] \in {"get", "set"}
        /\ pc[c] \in {"unlock", "write"} => op[c] \in {"get", "set"}
        /\ pc[c] \in {"unlock", "notify", "barrier", "enq"} => op[c] # "flush"
    BY DEF Routes, RouteOf, FlowOK, TypeOK, CvLabels, FlushLabels, Producing
  <2>. QED BY <2>1, <2>2 DEF Move, Still, Due, Past, Read, Updating, CvLabels, Producing
<1>2. Routes'
  <2>1. ~async => pc'[BgThread] = "exit"
    BY DEF BgMove, Routes
  <2>2. ASSUME NEW c \in Clients PROVE RouteOf(c)'
    <3>1. Move(c)
      OBVIOUS
    <3>. QED BY <3>1 DEF Move, Routes, RouteOf, mode, CvLabels, FlushLabels, Producing
  <2>. QED BY <2>1, <2>2 DEF Routes, mode
<1>3. Applied'
  <2>1. HasL2' = HasL2 /\ \A k \in Keys : Stored(k)' = Stored(k)
    BY DEF HasL2, Stored, mode, data
  <2>. QED BY <2>1 DEF Applied, BgMove, Updating, CvLabels, Batch, TypeOK, NoRows
<1>. QED BY <1>1, <1>2, <1>3, StillData
(* A step of one thread, in which others may be woken. *)
Wakes(t, to) ==
    \E W \in SUBSET Waiting :
        pc' = [u \in Threads |-> IF u = t THEN to ELSE IF u \in W THEN "cv_lock" ELSE pc[u]]

LEMMA GotoWakes ==
    ASSUME TypeOK, NEW t \in Threads, NEW to, Goto(t, to)
    PROVE  Wakes(t, to)
<1>1. pc' = [u \in Threads |-> IF u = t THEN to ELSE IF u \in {} THEN "cv_lock" ELSE pc[u]]
  BY DEF Goto, TypeOK
<1>. USE DEF Wakes
<1>. WITNESS {} \in SUBSET Waiting
<1>. QED BY <1>1

LEMMA WakesMove ==
    ASSUME IInv, NEW t \in Threads, NEW to, Wakes(t, to), ~Updating(t) \/ to \in {"put", "write"}
    PROVE  /\ pc'[t] = to
           /\ \A c \in Clients : c # t => Move(c)
           /\ t # BgThread => BgMove
           /\ \A u \in Threads : Updating(u) => Updating(u)'
<1>1. PICK W \in SUBSET Waiting :
        pc' = [u \in Threads |-> IF u = t THEN to ELSE IF u \in W THEN "cv_lock" ELSE pc[u]]
  BY DEF Wakes
<1>2. \A u \in Threads : u # t => pc'[u] = pc[u] \/ (pc[u] = "cv_wait" /\ pc'[u] = "cv_lock")
  BY <1>1 DEF Waiting
<1>3. pc[BgThread] = "cv_wait" => async
  BY DEF IInv, Data, Routes, RouteOf
<1>. QED BY <1>1, <1>2, <1>3, ThreadsDistinct DEF Move, BgMove, Updating, CvLabels

LEMMA ClientMoveData ==
    ASSUME IInv, NEW c \in Clients,
           \/ CvStep(c) \/ SpuriousWake(c) \/ EnqueueBegin(c) \/ PutDone(c) \/ UnlockL2(c)
           \/ LockL2(c) /\ op[c] # "set"
           \/ NotifyOne(c)
    PROVE  Data'
<1>0. TypeOK /\ c \in Threads /\ c # BgThread
  BY ThreadsDistinct DEF IInv, Control
<1>1. UNCHANGED <<op, keys, rows, got, queue, data, ghost, capacity, async>>
  BY DEF CvStep, CvLock, CvCheck, CvSleep, LockBarrier, SpuriousWake, EnqueueBegin, PutDone,
     UnlockL2, LockL2, NotifyOne, ghost, mode
<1>2. pc[c] = "lock" => op[c] \in {"get", "set"}
  BY DEF IInv, Control, FlowOK
<1>3. PICK to : /\ Wakes(c, to)
                /\ ~Updating(c) \/ to \in {"put", "write"}
                /\ \/ pc[c] \in CvLabels /\ to \in CvLabels
                   \/ pc[c] = "cv_check" /\ queue = <<>> /\ to = IF op[c] = "get" THEN "lock" ELSE "copy"
                   \/ pc[c] = "barrier" /\ to = "notify"
                   \/ pc[c] = "notify" /\ to = IF op[c] = "get" THEN "unlock" ELSE "ret"
                   \/ pc[c] = "enq" /\ to = "enq_end"
                   \/ pc[c] = "lock" /\ to = "lookup" /\ op[c] = "get"
                   \/ pc[c] = "put" /\ to = "write" /\ (HasL2 => rows[c] = NoRows)
                   \/ pc[c] = "unlock" /\ to = "ret"
  <2>1. CASE CvStep(c) \/ SpuriousWake(c)
    BY <1>0, <2>1, GotoWakes DEF CvStep, CvLock, CvCheck, CvSleep, LockBarrier, SpuriousWake,
       CvPredicate, AfterWait, CvLabels, Updating
  <2>2. CASE EnqueueBegin(c) \/ PutDone(c) \/ UnlockL2(c)
    BY <1>0, <2>2, GotoWakes DEF EnqueueBegin, PutDone, UnlockL2, Updating
  <2>3. CASE LockL2(c) /\ op[c] # "set"
    BY <1>0, <1>2, <2>3, GotoWakes DEF LockL2, Updating
  <2>4. CASE NotifyOne(c)
    <3>. DEFINE next == IF op[c] = "get" THEN "unlock" ELSE "ret"
    <3>1. ASSUME NEW w \in Waiting, pc' = [pc EXCEPT ![c] = next, ![w] = "cv_lock"]
          PROVE  Wakes(c, next)
      <4>1. w # c
        BY <2>4 DEF NotifyOne, Waiting
      <4>2. pc' = [u \in Threads |-> IF u = c THEN next ELSE IF u \in {w} THEN "cv_lock" ELSE pc[u]]
        BY <1>0, <3>1, <4>1 DEF TypeOK
      <4>. HIDE DEF next
      <4>. QED BY <4>2 DEF Wakes
    <3>2. Wakes(c, next)
      BY <1>0, <2>4, <3>1, GotoWakes DEF NotifyOne
    <3>. QED BY <2>4, <3>2 DEF NotifyOne, Updating
  <2>. QED BY <2>1, <2>2, <2>3, <2>4
<1>4. pc'[c] = to /\ BgMove /\ \A u \in Threads : Updating(u) => Updating(u)'
  BY <1>0, <1>3, WakesMove
<1>5. \A d \in Clients : d # c => Move(d)
  BY <1>0, <1>3, WakesMove
<1>6. Move(c)
  BY <1>3, <1>4 DEF Move
<1>. QED BY <1>1, <1>4, <1>5, <1>6, MoveData

LEMMA BgMoveData ==
    ASSUME IInv,
           \/ CvStep(BgThread) \/ SpuriousWake(BgThread) \/ LockL2(BgThread) \/ PutDone(BgThread)
           \/ UnlockL2(BgThread) \/ BgNotifyAll
           \/ BgPeek /\ (queue = <<>> \/ stop)
    PROVE  Data'
<1>0. TypeOK /\ BgThread \in Threads /\ BgThread \notin Clients
  BY ThreadsDistinct DEF IInv, Control
<1>1. UNCHANGED <<op, keys, rows, got, queue, data, ghost, capacity, async>>
  BY <1>0 DEF CvStep, CvLock, CvCheck, CvSleep, LockBarrier, SpuriousWake, LockL2, PutDone,
     UnlockL2, BgNotifyAll, NotifyAll, BgPeek, ghost, mode
<1>2. pc[BgThread] # "exit" => async
  BY DEF IInv, Data, Routes, RouteOf
<1>3. PICK to : /\ Wakes(BgThread, to)
                /\ ~Updating(BgThread) \/ to \in {"put", "write"}
                /\ \/ async /\ to \in CvLabels \cup {"peek", "barrier", "notify", "exit"}
                   \/ pc[BgThread] = "lock" /\ to = "put"
                   \/ pc[BgThread] = "put" /\ to = "write" /\ (HasL2 => rows[BgThread] = NoRows)
                   \/ pc[BgThread] = "unlock" /\ to = "dequeue"
  <2>1. CASE CvStep(BgThread) \/ SpuriousWake(BgThread)
    BY <1>0, <1>2, <2>1, GotoWakes DEF CvStep, CvLock, CvCheck, CvSleep, LockBarrier, SpuriousWake,
       AfterWait, CvLabels, Updating
  <2>2. CASE LockL2(BgThread) \/ PutDone(BgThread) \/ UnlockL2(BgThread)
    BY <1>0, <2>2, GotoWakes DEF LockL2, PutDone, UnlockL2, Updating
  <2>3. CASE BgPeek /\ (queue = <<>> \/ stop)
    BY <1>0, <1>2, <2>3, GotoWakes DEF BgPeek, Updating
  <2>4. CASE BgNotifyAll
    <3>1. Wakes(BgThread, IF stop THEN "exit" ELSE "cv_lock")
      BY <2>4 DEF BgNotifyAll, NotifyAll, Wakes
    <3>. QED BY <1>2, <2>4, <3>1 DEF BgNotifyAll, NotifyAll, Updating, CvLabels
  <2>. QED BY <2>1, <2>2, <2>3, <2>4
<1>4. pc'[BgThread] = to /\ \A u \in Threads : Updating(u) => Updating(u)'
  BY <1>0, <1>3, WakesMove
<1>5. \A d \in Clients : Move(d)
  BY <1>0, <1>3, WakesMove
<1>6. BgMove
  BY <1>3, <1>4 DEF BgMove
<1>. QED BY <1>1, <1>4, <1>5, <1>6, MoveData

LEMMA OwnerMoveData ==
    ASSUME IInv, Destroy \/ LockBarrier(Owner) \/ OwnerNotifyAll \/ Join
    PROVE  Data'
<1>0. TypeOK /\ Owner \in Threads /\ Owner \notin Clients /\ Owner # BgThread
  BY ThreadsDistinct DEF IInv, Control
<1>1. UNCHANGED <<op, keys, rows, got, queue, data, ghost, capacity, async>>
  BY DEF Destroy, LockBarrier, OwnerNotifyAll, NotifyAll, Join, mode
<1>2. (\E to : Wakes(Owner, to)) /\ ~Updating(Owner)
  <2>1. CASE Destroy \/ LockBarrier(Owner) \/ Join
    BY <1>0, <2>1, GotoWakes DEF Destroy, LockBarrier, Join, Updating
  <2>2. CASE OwnerNotifyAll
    BY <2>2 DEF OwnerNotifyAll, NotifyAll, Wakes, Updating
  <2>. QED BY <2>1, <2>2
<1>3. BgMove /\ (\A c \in Clients : Move(c)) /\ \A u \in Threads : Updating(u) => Updating(u)'
  BY <1>0, <1>2, WakesMove
<1>. QED BY <1>1, <1>3, MoveData

LEMMA StutterData == ASSUME IInv, UNCHANGED vars PROVE Data'
<1>1. UNCHANGED <<pc, op, keys, rows, got, queue, data, ghost, capacity, async>>
  BY DEF vars, mode
<1>. QED BY <1>1, MoveData DEF Move, BgMove, Updating
-----------------------------------------------------------------------------
(* Steps of a client that change nothing but its own call.                  *)

CallOf(c) == RouteOf(c) /\ PendingOf(c) /\ CarriedOf(c) /\ SettledOf(c) /\ AnswerOf(c) /\ FlushOf(c)

LEMMA OwnData ==
    ASSUME IInv, TypeOK', NEW c \in Clients,
           UNCHANGED <<queue, data, latest, mode>>, version <= version',
           \A t \in Threads \ {c} : pc'[t] = pc[t] /\ rows'[t] = rows[t],
           \A d \in Clients \ {c} : op'[d] = op[d] /\ keys'[d] = keys[d] /\ got'[d] = got[d],
           CallOf(c)', Apart', Updating(c) => Updating(c)',
           \A k \in Keys : c \in InHand(k) => c \in InHand(k)'
    PROVE  Data'
<1>. USE DEF IInv, Data, Control
<1>0. c \in Threads /\ c # BgThread /\ BgThread \in Threads /\ Clients \subseteq Threads
  BY ThreadsDistinct
<1>1. HasL2' = HasL2 /\ \A k \in Keys : Stored(k)' = Stored(k) /\ Queued(k)' = Queued(k)
  BY DEF HasL2, mode, Stored, Queued, data
<1>2. ASSUME NEW d \in Clients, d # c PROVE CallOf(d)'
  <2>1. /\ pc'[d] = pc[d] /\ rows'[d] = rows[d] /\ op'[d] = op[d] /\ keys'[d] = keys[d]
        /\ got'[d] = got[d]
    BY <1>0, <1>2
  <2>2. \A k \in keys[d] : k \in Keys
    BY DEF TypeOK
  <2>3. CallOf(d)
    BY DEF Routes, Calls, CallOf
  <2>4. RouteOf(d)' /\ PendingOf(d)' /\ CarriedOf(d)'
    <3>1. \A k \in Keys : rows[d][k] \in Int
      BY <1>0 DEF TypeOK, Batch, Version, Absent
    <3>2. version \in Int /\ version' \in Int
      BY DEF TypeOK, Version
    <3>. QED BY <2>1, <2>3, <3>1, <3>2 DEF CallOf, RouteOf, PendingOf, Due, CarriedOf, Updating, mode
  <2>5. AnswerOf(d)' /\ FlushOf(d)'
    BY <2>1, <2>3 DEF CallOf, AnswerOf, Read, FlushOf, data
  <2>6. SettledOf(d)'
    BY <1>1, <2>1, <2>2, <2>3 DEF CallOf, SettledOf, Past
  <2>. QED BY <2>4, <2>5, <2>6 DEF CallOf
<1>3. Routes' /\ Calls'
  <2>1. \A d \in Clients : CallOf(d)'
    BY <1>2
  <2>2. pc'[BgThread] = pc[BgThread]
    BY <1>0
  <2>. QED BY <2>1, <2>2 DEF Routes, Calls, CallOf, mode
<1>4. Ordered'
  <2>1. \A k \in Keys : latest[k] \in Int
    BY DEF TypeOK, Version
  <2>2. version \in Int /\ version' \in Int
    BY DEF TypeOK, Version
  <2>. QED BY <1>1, <2>1, <2>2 DEF Ordered, OrderOf, data
<1>5. Applied'
  <2>1. pc'[BgThread] = pc[BgThread] /\ rows'[BgThread] = rows[BgThread]
    BY <1>0
  <2>. QED BY <1>1, <2>1 DEF Applied, Updating
<1>6. Clean'
  <2>1. \A t \in Threads : Updating(t) => Updating(t)'
    BY DEF Updating
  <2>. QED BY <1>1, <2>1 DEF Clean, data
<1>7. EveryRowKept'
  <2> SUFFICES ASSUME NEW k \in Keys
               PROVE  /\ \A i \in Queued(k) : (\A j \in Queued(k) : j <= i) => queue[i][k] = latest[k]
                      /\ \A d \in Clients : d \in InHand(k)' => rows'[d][k] = latest[k]
                      /\ Queued(k) = {} /\ InHand(k)' = {} => Stored(k) = latest[k]
    BY <1>1 DEF EveryRowKept, InHand
  <2>1. \A i \in Queued(k) : (\A j \in Queued(k) : j <= i) => queue[i][k] = latest[k]
    BY DEF EveryRowKept
  <2>2. ASSUME NEW d \in Clients, d # c PROVE d \in InHand(k)' <=> d \in InHand(k)
    <3>1. pc'[d] = pc[d] /\ rows'[d] = rows[d]
      BY <1>0, <2>2
    <3>. QED BY <1>1, <3>1 DEF InHand
  <2>3. ASSUME NEW d \in Clients, d \in InHand(k)' PROVE rows'[d][k] = latest[k]
    <3>1. CASE d # c
      <4>1. rows'[d] = rows[d] /\ d \in InHand(k)
        BY <1>0, <2>2, <2>3, <3>1
      <4>. QED BY <4>1 DEF EveryRowKept
    <3>2. CASE d = c
      BY <2>3, <3>2 DEF InHand, CallOf, CarriedOf, Updating
    <3>. QED BY <3>1, <3>2
  <2>4. InHand(k)' = {} => InHand(k) = {}
    BY <2>2 DEF InHand
  <2>. QED BY <2>1, <2>3, <2>4 DEF EveryRowKept
<1>. QED BY <1>3, <1>4, <1>5, <1>6, <1>7
(* Nothing of an index is on its way when no set of it is in progress.      *)
LEMMA NewGetSettles ==
    ASSUME IInv, ~async, NEW c \in Clients, NEW K \in SUBSET Keys, MayCall(c, "get", K), NEW k \in K
    PROVE  Stored(k) = latest[k] /\ Queued(k) = {}
<1>. USE DEF IInv, Data, Control
<1>1. Queued(k) = {} /\ k \in Keys
  BY DEF Routes, Queued
<1>2. CASE InHand(k) = {}
  BY <1>1, <1>2 DEF EveryRowKept
<1>3. ASSUME NEW d \in InHand(k) PROVE Stored(k) = latest[k]
  <2>1. d \in Clients /\ Updating(d) /\ rows[d][k] # Absent
    BY DEF InHand, Updating
  <2>2. k \in keys[d]
    BY <1>1, <2>1 DEF Calls, CarriedOf
  <2>3. d # c /\ op[d] # "none" /\ op[d] # "set"
    BY <2>1, <2>2, <1>1 DEF MayCall, Active, FlowOK, Updating
  <2>4. op[d] = "get" /\ Past(d)
    BY <2>1, <2>3 DEF TypeOK, FlowOK, Routes, RouteOf, FlushLabels, CvLabels, Updating, Past
  <2>. QED BY <2>1, <2>2, <2>4 DEF Calls, SettledOf
<1>. QED BY <1>1, <1>2, <1>3

LEMMA CallData ==
    ASSUME IInv, Control', NEW c \in Clients, ClientCall(c)
    PROVE  Data'
<1>. USE DEF IInv, Data, Control
<1>0. c \in Threads /\ Clients \subseteq Threads
  BY ThreadsDistinct
<1>1. PICK kind \in {"get", "set", "flush"}, K \in SUBSET Keys, label \in Labels :
        /\ Call(c, kind, K, label)
        /\ label = CASE kind = "get"   -> IF async THEN "cv_lock" ELSE "lock"
                     [] kind = "set"   -> IF async THEN "enq" ELSE "lock"
                     [] kind = "flush" -> IF async THEN "cv_lock" ELSE "copy"
        /\ kind = "set" => /\ version' = version + 1
                           /\ rows' = [rows EXCEPT ![c] = Pick([k \in Keys |-> version + 1], K)]
        /\ kind # "set" => UNCHANGED <<rows, version>>
        /\ kind = "flush" => K = {}
  <2>1. ASSUME NEW K \in SUBSET Keys, CallGet(c, K) \/ CallSet(c, K)
        PROVE  \/ /\ Call(c, "get", K, IF async THEN "cv_lock" ELSE "lock")
                  /\ UNCHANGED <<rows, version>>
               \/ /\ Call(c, "set", K, IF async THEN "enq" ELSE "lock")
                  /\ version' = version + 1
                  /\ rows' = [rows EXCEPT ![c] = Pick([k \in Keys |-> version + 1], K)]
    BY <2>1 DEF CallGet, CallSet
  <2>2. CASE CallFlush(c)
    BY <2>2 DEF CallFlush, Labels
  <2>. QED BY <2>1, <2>2 DEF ClientCall, Labels
<1>2. /\ pc[c] = "idle" /\ MayCall(c, kind, K)
      /\ UNCHANGED <<got, queue, data, latest, mode>>
      /\ pc' = [pc EXCEPT ![c] = label] /\ op' = [op EXCEPT ![c] = kind] /\ keys' = [keys EXCEPT ![c] = K]
  BY <1>1 DEF Call, MayCall, Goto
<1>3. /\ pc'[c] = label /\ op'[c] = kind /\ keys'[c] = K
      /\ \A t \in Threads \ {c} : pc'[t] = pc[t] /\ rows'[t] = rows[t]
      /\ \A d \in Clients \ {c} : op'[d] = op[d] /\ keys'[d] = keys[d] /\ got'[d] = got[d]
  BY <1>0, <1>1, <1>2 DEF TypeOK
<1>4. version \in Int /\ version <= version'
  BY <1>1 DEF TypeOK, Version
<1>5. Apart'
  <2> SUFFICES ASSUME NEW d \in Clients, d # c, op[d] # "none"
               PROVE  /\ kind # "flush" /\ op[d] # "flush"
                      /\ kind = "set" \/ op[d] = "set" => keys[d] \cap K = {}
    BY <1>3 DEF Apart, Active
  <2>. QED BY <1>2 DEF MayCall, Active
<1>6. ~Updating(c) /\ \A k \in Keys : c \notin InHand(k)
  BY <1>2 DEF Updating, InHand
<1>7. \A k \in Keys : Stored(k)' = Stored(k) /\ Queued(k)' = Queued(k)
  BY <1>2 DEF Stored, Queued, data
<1>8. CallOf(c)'
  <2>1. RouteOf(c)' /\ CarriedOf(c)' /\ AnswerOf(c)' /\ FlushOf(c)'
    BY <1>1, <1>2, <1>3 DEF RouteOf, CarriedOf, Updating, AnswerOf, Read, FlushOf, Routes, CvLabels,
       FlushLabels, Producing, mode
  <2>2. PendingOf(c)'
    <3>1. CASE kind = "set"
      <4>1. rows'[c] = Pick([k \in Keys |-> version + 1], K)
        BY <1>0, <1>1, <3>1 DEF TypeOK
      <4>2. \A k \in Keys : latest[k] <= version /\ latest[k] \in Int
        BY DEF Ordered, OrderOf, TypeOK, Version
      <4>. QED BY <1>1, <1>2, <1>3, <1>4, <3>1, <4>1, <4>2 DEF PendingOf, Pick
    <3>2. CASE kind # "set"
      BY <1>3, <3>2 DEF PendingOf, Due
    <3>. QED BY <3>1, <3>2
  <2>3. SettledOf(c)'
    <3>1. CASE kind = "get" /\ ~async
      <4>1. \A k \in K : Stored(k) = latest[k] /\ Queued(k) = {} /\ k \in Keys
        BY <1>2, <3>1, NewGetSettles
      <4>. QED BY <1>2, <1>3, <1>7, <4>1 DEF SettledOf
    <3>2. CASE ~(kind = "get" /\ ~async)
      BY <1>1, <1>3, <3>2 DEF SettledOf, Past, CvLabels, Routes
    <3>. QED BY <3>1, <3>2
  <2>. QED BY <2>1, <2>2, <2>3 DEF CallOf
<1>. QED BY <1>2, <1>3, <1>4, <1>5, <1>6, <1>8, OwnData

LEMMA ReturnData ==
    ASSUME IInv, Control', NEW c \in Clients, Return(c)
    PROVE  Data'
<1>. USE DEF IInv, Data, Control
<1>0. c \in Threads /\ Clients \subseteq Threads
  BY ThreadsDistinct
<1>1. /\ pc[c] = "ret" /\ pc'[c] = "idle" /\ op'[c] = "none"
      /\ UNCHANGED <<queue, data, latest, version, mode>>
      /\ \A t \in Threads \ {c} : pc'[t] = pc[t] /\ rows'[t] = rows[t]
      /\ \A d \in Clients \ {c} : op'[d] = op[d] /\ keys'[d] = keys[d] /\ got'[d] = got[d]
  BY <1>0 DEF Return, Goto, TypeOK, ghost
<1>2. CallOf(c)'
  BY <1>1 DEF CallOf, RouteOf, PendingOf, Due, CarriedOf, Updating, SettledOf, Past, AnswerOf, Read, FlushOf
<1>3. Apart'
  BY <1>1 DEF Apart, Active
<1>4. ~Updating(c) /\ \A k \in Keys : c \notin InHand(k)
  BY <1>1 DEF Updating, InHand
<1>5. version <= version'
  BY <1>1 DEF TypeOK, Version
<1>. QED BY <1>1, <1>2, <1>3, <1>4, <1>5, OwnData

(* A client that holds the mutex of the cache finds no rows half evicted.   *)
LEMMA HolderClean ==
    ASSUME IInv, NEW t \in Threads, HoldsL2(t), ~Updating(t)
    PROVE  \A k \in Keys : evicted[k] = Absent
<1>. USE DEF IInv, Data, Control
<1>1. \A u \in Threads : HoldsL2(u) => u = t
  BY DEF L2Owner
<1>2. \A u \in Threads : ~Updating(u)
  BY <1>1 DEF Updating, HoldsL2
<1>. QED BY <1>2 DEF Clean, NoRows

LEMMA LookupData ==
    ASSUME IInv, Control', NEW c \in Clients, Lookup(c)
    PROVE  Data'
<1>. USE DEF IInv, Data, Control
<1>0. c \in Threads /\ Clients \subseteq Threads /\ op[c] = "get"
  BY ThreadsDistinct DEF Lookup, FlowOK, GetLabels
<1>1. /\ pc[c] = "lookup" /\ op'[c] = op[c] /\ keys'[c] = keys[c] /\ rows'[c] = rows[c]
      /\ got'[c] = Pick(l2, keys[c])
      /\ pc'[c] = IF keys[c] \subseteq RowsOf(l2) THEN "unlock" ELSE "fetch"
      /\ UNCHANGED <<op, keys, queue, data, latest, version, mode>>
      /\ \A t \in Threads \ {c} : pc'[t] = pc[t] /\ rows'[t] = rows[t]
      /\ \A d \in Clients \ {c} : op'[d] = op[d] /\ keys'[d] = keys[d] /\ got'[d] = got[d]
  BY <1>0 DEF Lookup, Goto, TypeOK, ghost
<1>2. SettledOf(c) /\ Past(c)
  BY <1>0, <1>1 DEF Calls, Past, CvLabels
<1>3. \A k \in keys[c] : k \in Keys /\ (l2[k] # Absent => l2[k] = latest[k])
  BY <1>2 DEF SettledOf, Stored, TypeOK
<1>4. AnswerOf(c)'
  <2>1. \A k \in Keys : got'[c][k] = IF k \in keys[c] THEN l2[k] ELSE Absent
    BY <1>1 DEF Pick
  <2>2. CASE keys[c] \subseteq RowsOf(l2)
    <3>1. \A k \in keys[c] : l2[k] = latest[k]
      BY <1>3, <2>2 DEF RowsOf
    <3>. QED BY <1>1, <2>1, <2>2, <3>1 DEF AnswerOf
  <2>3. CASE ~(keys[c] \subseteq RowsOf(l2))
    <3>1. l2' = l2 /\ latest' = latest
      BY <1>1 DEF data
    <3>2. pc'[c] = "fetch" /\ keys'[c] = keys[c]
      BY <1>1, <2>3
    <3>. QED BY <1>3, <2>1, <3>1, <3>2 DEF AnswerOf, Read, Producing
  <2>. QED BY <2>2, <2>3
<1>5. SettledOf(c)'
  BY <1>1, <1>2, <1>3 DEF SettledOf, Stored, Queued, data
<1>6. CallOf(c)'
  BY <1>0, <1>1, <1>4, <1>5 DEF CallOf, RouteOf, PendingOf, Due, CarriedOf, Updating, FlushOf, mode
<1>7. Apart'
  BY <1>1 DEF Apart, Active
<1>8. ~Updating(c) /\ \A k \in Keys : c \notin InHand(k)
  BY <1>1 DEF Updating, InHand
<1>9. version <= version'
  BY <1>1 DEF TypeOK, Version
<1>. QED BY <1>1, <1>6, <1>7, <1>8, <1>9, OwnData

LEMMA FetchData ==
    ASSUME IInv, Control', NEW c \in Clients, Fetch(c)
    PROVE  Data'
<1>. USE DEF IInv, Data, Control
<1>0. c \in Threads /\ Clients \subseteq Threads /\ op[c] = "get"
  BY ThreadsDistinct DEF Fetch, FlowOK, GetLabels
<1>. DEFINE misses == Pick(storage, keys[c] \ RowsOf(got[c]))
<1>1. /\ pc[c] = "fetch" /\ op'[c] = op[c] /\ keys'[c] = keys[c]
      /\ got'[c] = Overwrite(got[c], misses)
      /\ rows'[c] = IF HasL2 THEN misses ELSE NoRows
      /\ pc'[c] = IF ~HasL2 THEN "unlock" ELSE IF async THEN "enq" ELSE "put"
      /\ UNCHANGED <<op, keys, queue, data, latest, version, mode>>
      /\ \A t \in Threads \ {c} : pc'[t] = pc[t] /\ rows'[t] = rows[t]
      /\ \A d \in Clients \ {c} : op'[d] = op[d] /\ keys'[d] = keys[d] /\ got'[d] = got[d]
  BY <1>0 DEF Fetch, Goto, TypeOK, ghost
<1>2. SettledOf(c) /\ Past(c) /\ AnswerOf(c)
  BY <1>0, <1>1 DEF Calls, Past, CvLabels
<1>3. \A k \in Keys : evicted[k] = Absent
  BY <1>0, <1>1, HolderClean DEF HoldsL2, Updating
<1>4. \A k \in keys[c] : k \in Keys /\ (l2[k] = Absent => storage[k] = latest[k])
  BY <1>2, <1>3 DEF SettledOf, Stored, TypeOK
<1>5. \A k \in Keys : /\ k \in keys[c] => got[c][k] = latest[k] \/ (got[c][k] = Absent /\ l2[k] = Absent)
                      /\ k \notin keys[c] => got[c][k] = Absent
  BY <1>1, <1>2 DEF AnswerOf
<1>6. \A k \in Keys : misses[k] = IF k \in keys[c] /\ got[c][k] = Absent THEN latest[k] ELSE Absent
  <2>1. \A k \in Keys : latest[k] # Absent
    BY DEF TypeOK, Version, Absent
  <2>2. \A k \in Keys : misses[k] = IF k \in keys[c] /\ got[c][k] = Absent THEN storage[k] ELSE Absent
    BY DEF Pick, RowsOf
  <2>. HIDE DEF misses
  <2>. QED BY <1>4, <1>5, <2>1, <2>2
<1>7. \A k \in Keys : got'[c][k] = IF k \in keys[c] THEN latest[k] ELSE Absent
  <2>1. \A k \in Keys : latest[k] # Absent
    BY DEF TypeOK, Version, Absent
  <2>2. \A k \in Keys : got'[c][k] = IF misses[k] = Absent THEN got[c][k] ELSE misses[k]
    BY <1>1 DEF Overwrite
  <2>. HIDE DEF misses
  <2>. QED BY <1>5, <1>6, <2>1, <2>2
<1>8. CarriedOf(c)'
  <2>1. \A k \in Keys : rows'[c][k] # Absent => k \in keys[c] /\ rows'[c][k] = latest[k]
    <3>. HIDE DEF misses
    <3>. QED BY <1>1, <1>6 DEF NoRows
  <2>. QED BY <1>1, <2>1 DEF CarriedOf
<1>9. AnswerOf(c)'
  <2>. HIDE DEF misses
  <2>. QED BY <1>1, <1>7 DEF AnswerOf
<1>10. SettledOf(c)'
  <2>. HIDE DEF misses
  <2>. QED BY <1>1, <1>2, <1>4 DEF SettledOf, Stored, Queued, data
<1>. HIDE DEF misses
<1>11. CallOf(c)'
  BY <1>0, <1>1, <1>8, <1>9, <1>10 DEF CallOf, RouteOf, PendingOf, Due, FlushOf, mode, Producing
<1>12. Apart'
  BY <1>1 DEF Apart, Active
<1>13. ~Updating(c) /\ \A k \in Keys : c \notin InHand(k)
  BY <1>1 DEF Updating, InHand
<1>14. version <= version'
  BY <1>1 DEF TypeOK, Version
<1>. QED BY <1>1, <1>11, <1>12, <1>13, <1>14, OwnData
(* While a flush copies and writes, nothing else is going on.               *)
LEMMA FlushAlone ==
    ASSUME IInv, NEW c \in Clients, op[c] = "flush", pc[c] \notin CvLabels
    PROVE  /\ queue = <<>>
           /\ \A d \in Clients \ {c} : op[d] = "none" /\ pc[d] = "idle"
           /\ \A t \in Threads : ~Updating(t)
           /\ \A k \in Keys : /\ Queued(k) = {} /\ InHand(k) = {} /\ evicted[k] = Absent
                              /\ Stored(k) = latest[k]
<1>. USE DEF IInv, Data, Control
<1>1. queue = <<>>
  BY DEF Calls, FlushOf
<1>2. \A d \in Clients \ {c} : op[d] = "none" /\ pc[d] = "idle"
  BY DEF Apart, Active, FlowOK
<1>3. \A t \in Threads : ~Updating(t)
  <2>1. ~Updating(c)
    BY DEF Routes, RouteOf, Updating, FlushLabels
  <2>2. ~Updating(BgThread) /\ ~Updating(Owner)
    BY <1>1 DEF FlowOK, Applying, OwnerLabels, Updating
  <2>. QED BY <1>2, <2>1, <2>2 DEF Updating, Threads
<1>4. \A k \in Keys : Queued(k) = {} /\ InHand(k) = {}
  BY <1>1, <1>3, ThreadsDistinct DEF Queued, InHand, Updating
<1>5. evicted = NoRows
  BY <1>3 DEF Clean
<1>. QED BY <1>1, <1>2, <1>3, <1>4, <1>5 DEF EveryRowKept, NoRows

LEMMA FlushCopyData ==
    ASSUME IInv, Control', NEW c \in Clients, FlushCopy(c)
    PROVE  Data'
<1>. USE DEF IInv, Data, Control
<1>0. c \in Threads /\ Clients \subseteq Threads /\ pc[c] = "copy" /\ op[c] = "flush"
  BY ThreadsDistinct DEF FlushCopy, FlowOK, FlushLabels
<1>1. /\ UNCHANGED <<op, got, queue, data, latest, version, mode>>
      /\ \A t \in Threads \ {c} : pc'[t] = pc[t] /\ rows'[t] = rows[t]
      /\ \A d \in Clients \ {c} : op'[d] = op[d] /\ keys'[d] = keys[d] /\ got'[d] = got[d]
      /\ \/ /\ RowsOf(l2) \subseteq keys[c] /\ pc'[c] = "ret" /\ rows' = rows /\ keys' = keys
         \/ \E B \in SUBSET Keys :
               /\ rows'[c] = Pick(l2, B) /\ keys'[c] = keys[c] \cup B /\ pc'[c] = "flush_write"
               /\ B \subseteq RowsOf(l2)
  <2>1. /\ UNCHANGED <<op, got, queue, data, latest, version, mode>>
        /\ \/ /\ RowsOf(l2) \subseteq keys[c] /\ pc' = [pc EXCEPT ![c] = "ret"] /\ rows' = rows /\ keys' = keys
           \/ \E B \in SUBSET Keys :
                 /\ rows' = [rows EXCEPT ![c] = Pick(l2, B)] /\ keys' = [keys EXCEPT ![c] = keys[c] \cup B]
                 /\ pc' = [pc EXCEPT ![c] = "flush_write"] /\ B \subseteq RowsOf(l2)
    <3>1. Unvisited(c) \subseteq RowsOf(l2) /\ (Unvisited(c) = {} => RowsOf(l2) \subseteq keys[c])
          /\ RowsOf(l2) \subseteq Keys
      BY DEF Unvisited, RowsOf
    <3>. QED BY <3>1 DEF FlushCopy, Goto, ghost
  <2>. QED BY <1>0, <2>1 DEF TypeOK
<1>2. /\ queue = <<>> /\ \A t \in Threads : ~Updating(t)
      /\ \A d \in Clients \ {c} : op[d] = "none"
      /\ \A k \in Keys : InHand(k) = {} /\ evicted[k] = Absent /\ Stored(k) = latest[k]
  BY <1>0, FlushAlone DEF CvLabels
<1>3. \A k \in Keys : IF l2[k] = Absent THEN storage[k] = latest[k] ELSE l2[k] = latest[k]
  BY <1>2 DEF Stored
<1>4. \A k \in keys[c] : k \in Keys /\ storage[k] = latest[k]
  BY <1>0 DEF Calls, FlushOf, FlushLabels, TypeOK
<1>5. FlushOf(c)'
  <2>1. CASE RowsOf(l2) \subseteq keys[c] /\ pc'[c] = "ret"
    <3>1. \A k \in Keys : storage[k] = latest[k]
      BY <1>3, <1>4, <2>1 DEF RowsOf
    <3>2. storage = latest
      BY <3>1 DEF TypeOK
    <3>. QED BY <1>1, <1>2, <2>1, <3>2 DEF FlushOf, CvLabels, FlushLabels, data
  <2>2. ASSUME NEW B \in SUBSET Keys, rows'[c] = Pick(l2, B), keys'[c] = keys[c] \cup B,
               pc'[c] = "flush_write", B \subseteq RowsOf(l2)
        PROVE  FlushOf(c)'
    <3>1. \A k \in B : rows'[c][k] = latest[k]
      BY <1>3, <2>2 DEF Pick, RowsOf
    <3>2. \A k \in Keys : rows'[c][k] \in {Absent, latest[k]}
      BY <1>3, <2>2 DEF Pick
    <3>3. UNCHANGED <<queue, storage, latest>>
      BY <1>1 DEF data
    <3>. QED BY <1>2, <1>4, <2>2, <3>1, <3>2, <3>3 DEF FlushOf, CvLabels
  <2>. QED BY <1>1, <2>1, <2>2
<1>6. CallOf(c)'
  BY <1>0, <1>1, <1>5 DEF CallOf, RouteOf, PendingOf, Due, CarriedOf, Updating, SettledOf, Past,
     AnswerOf, Read, FlushLabels
<1>7. Apart'
  BY <1>1, <1>2 DEF Apart, Active
<1>8. ~Updating(c) /\ \A k \in Keys : c \notin InHand(k)
  BY <1>0, <1>2
<1>9. version <= version'
  BY <1>1 DEF TypeOK, Version
<1>. QED BY <1>1, <1>6, <1>7, <1>8, <1>9, OwnData

-----------------------------------------------------------------------------
(* Steps that move rows.                                                    *)

(* What a call in progress must see left alone by the steps of others.      *)
LEMMA BystanderData ==
    ASSUME TypeOK, TypeOK', NEW d \in Clients, CallOf(d), SettledOf(d)', async' = async,
           pc'[d] = pc[d], op'[d] = op[d], keys'[d] = keys[d], rows'[d] = rows[d], got'[d] = got[d],
           version <= version', \A k \in keys[d] : latest'[k] = latest[k],
           op[d] = "flush" => pc[d] \in CvLabels,
           pc[d] = "fetch" => l2' = l2
    PROVE  CallOf(d)'
<1>1. PendingOf(d)'
  <2>1. \A k \in Keys : rows[d][k] \in Int
    BY ThreadsDistinct DEF TypeOK, Batch, Version, Absent
  <2>2. version \in Int /\ version' \in Int
    BY DEF TypeOK, Version
  <2>. QED BY <2>1, <2>2 DEF CallOf, PendingOf, Due
<1>2. CarriedOf(d)'
  BY DEF CallOf, CarriedOf, Updating
<1>3. AnswerOf(d)'
  BY DEF CallOf, AnswerOf, Read
<1>4. FlushOf(d)' /\ RouteOf(d)'
  BY DEF CallOf, RouteOf, FlushOf, FlushLabels, CvLabels
<1>. QED BY <1>1, <1>2, <1>3, <1>4 DEF CallOf

LEMMA FlushWriteData ==
    ASSUME IInv, Control', NEW c \in Clients, FlushWrite(c)
    PROVE  Data'
<1>. USE DEF IInv, Data, Control
<1>0. c \in Threads /\ Clients \subseteq Threads /\ pc[c] = "flush_write" /\ op[c] = "flush"
      /\ BgThread \in Threads /\ c # BgThread
  BY ThreadsDistinct DEF FlushWrite, FlowOK, FlushLabels
<1>1. /\ UNCHANGED <<op, keys, rows, got, queue, l2, evicted, latest, version, mode>>
      /\ storage' = Overwrite(storage, rows[c]) /\ pc'[c] = "copy"
      /\ \A t \in Threads \ {c} : pc'[t] = pc[t]
  BY <1>0 DEF FlushWrite, Goto, TypeOK, ghost
<1>2. /\ queue = <<>> /\ \A t \in Threads : ~Updating(t)
      /\ \A d \in Clients \ {c} : op[d] = "none" /\ pc[d] = "idle"
      /\ \A k \in Keys : Queued(k) = {} /\ InHand(k) = {} /\ evicted[k] = Absent /\ Stored(k) = latest[k]
  BY <1>0, FlushAlone DEF CvLabels
<1>3. /\ \A k \in Keys : rows[c][k] \in {Absent, latest[k]}
      /\ \A k \in keys[c] : k \in Keys /\ (storage[k] = latest[k] \/ rows[c][k] = latest[k])
  BY <1>0 DEF Calls, FlushOf, FlushLabels, TypeOK
<1>4. \A k \in Keys : /\ storage'[k] = IF rows[c][k] = Absent THEN storage[k] ELSE latest[k]
                      /\ latest[k] # Absent /\ latest[k] \in Int /\ storage[k] \in Int
  BY <1>1, <1>3 DEF Overwrite, TypeOK, Version, Absent
<1>5. \A k \in Keys : Stored(k)' = Stored(k) /\ Queued(k)' = {} /\ InHand(k)' = {}
  <2>1. \A k \in Keys : Stored(k)' = Stored(k)
    BY <1>1, <1>2, <1>4 DEF Stored
  <2>2. \A k \in Keys : Queued(k)' = {}
    BY <1>1, <1>2 DEF Queued
  <2>3. \A d \in Clients : ~Updating(d)'
    BY <1>0, <1>1, <1>2 DEF Updating
  <2>. QED BY <2>1, <2>2, <2>3 DEF InHand, Updating
<1>6. ASSUME NEW d \in Clients PROVE CallOf(d)'
  <2>1. CASE d = c
    <3>1. FlushOf(c)'
      <4>1. \A k \in keys[c] : storage'[k] = latest[k]
        BY <1>3, <1>4
      <4>. QED BY <1>1, <1>2, <4>1 DEF FlushOf, CvLabels
    <3>. QED BY <1>0, <1>1, <2>1, <3>1 DEF CallOf, RouteOf, PendingOf, Due, CarriedOf, Updating, SettledOf,
         Past, AnswerOf, Read, FlushLabels
  <2>2. CASE d # c
    <3>1. op'[d] = "none" /\ pc'[d] = "idle"
      BY <1>0, <1>1, <1>2, <2>2
    <3>. QED BY <3>1 DEF CallOf, RouteOf, PendingOf, Due, CarriedOf, Updating, SettledOf, Past,
         AnswerOf, Read, FlushOf
  <2>. QED BY <2>1, <2>2
<1>7. Routes' /\ Calls'
  <2>1. pc'[BgThread] = pc[BgThread]
    BY <1>0, <1>1
  <2>. QED BY <1>1, <1>6, <2>1 DEF Routes, Calls, CallOf, mode
<1>8. Apart' /\ Clean'
  <2>1. evicted' = evicted /\ l2' = l2 /\ HasL2' = HasL2 /\ evicted = NoRows
    BY <1>1, <1>2 DEF mode, HasL2, Clean
  <2>. QED BY <1>1, <2>1 DEF Apart, Active, Clean
<1>9. Ordered'
  <2>1. \A k \in Keys : OrderOf(k)
    BY DEF Ordered
  <2>2. \A k \in Keys : l2[k] # Absent => l2[k] = latest[k]
    BY <1>2 DEF Stored
  <2>. QED BY <1>1, <1>2, <1>4, <1>5, <2>1, <2>2 DEF Ordered, OrderOf
<1>10. Applied'
  <2>1. ~Applying /\ ~Applying'
    <3>1. pc'[BgThread] = pc[BgThread]
      BY <1>0, <1>1
    <3>. QED BY <1>2, <3>1 DEF FlowOK, Applying
  <2>. QED BY <2>1 DEF Applied, Applying, Updating
<1>11. EveryRowKept'
  BY <1>1, <1>2, <1>5 DEF EveryRowKept
<1>. QED BY <1>7, <1>8, <1>9, <1>10, <1>11

(* Positions in the queue before and after an append, and after a dequeue.  *)
LEMMA QueuedAppend ==
    ASSUME TypeOK, NEW r \in Batch, queue' = Append(queue, r), NEW k \in Keys
    PROVE  /\ \A i \in Queued(k) : i \in Queued(k)' /\ queue'[i] = queue[i] /\ i \in 1..Len(queue)
           /\ \A i \in Queued(k)' : \/ i \in Queued(k)
                                    \/ i = Len(queue) + 1 /\ r[k] # Absent
           /\ queue'[Len(queue) + 1] = r
           /\ r[k] # Absent => Len(queue) + 1 \in Queued(k)'
           /\ Len(queue) \in Nat
<1>1. queue \in Seq(Batch) /\ Len(queue) \in Nat
  BY DEF TypeOK
<1>2. /\ Len(queue') = Len(queue) + 1
      /\ \A i \in 1..Len(queue) : queue'[i] = queue[i]
      /\ queue'[Len(queue) + 1] = r
  BY <1>1
<1>. QED BY <1>1, <1>2 DEF Queued

LEMMA QueuedHead ==
    ASSUME TypeOK, queue # <<>>, NEW k \in Keys
    PROVE  /\ Head(queue) = queue[1] /\ Head(queue) \in Batch
           /\ Head(queue)[k] # Absent <=> 1 \in Queued(k)
           /\ \A i \in Queued(k) : i \in Int /\ i >= 1 /\ queue[i][k] \in Int
<1>1. queue \in Seq(Batch) /\ Len(queue) \in Nat /\ Len(queue) >= 1
  BY DEF TypeOK
<1>2. Head(queue) = queue[1] /\ \A i \in 1..Len(queue) : queue[i] \in Batch
  BY <1>1
<1>3. \A b \in Batch : b[k] \in Int
  BY DEF Batch, Version, Absent
<1>. QED BY <1>1, <1>2, <1>3 DEF Queued

LEMMA QueuedTail ==
    ASSUME TypeOK, queue # <<>>, queue' = Tail(queue), NEW k \in Keys
    PROVE  /\ \A i \in Queued(k)' : i + 1 \in Queued(k) /\ queue'[i] = queue[i + 1] /\ i \in Int
           /\ \A i \in Queued(k) : i \in Int /\ (i = 1 \/ (i - 1 \in Queued(k)' /\ queue'[i - 1] = queue[i]))
<1>1. queue \in Seq(Batch) /\ Len(queue) \in Nat /\ Len(queue) >= 1
  BY DEF TypeOK
<1>2. Len(queue') = Len(queue) - 1 /\ \A i \in 1..(Len(queue) - 1) : queue'[i] = queue[i + 1]
  BY <1>1
<1>. QED BY <1>1, <1>2 DEF Queued

(* An enqueue reaches the queue when no other is in progress.               *)
OneProducer == \A c, d \in Clients : pc[c] = "enq_end" /\ pc[d] = "enq_end" => c = d

LEMMA EnqueueData ==
    ASSUME IInv, OneProducer, Control', NEW c \in Clients, EnqueueEnd(c)
    PROVE  Data'
<1>. USE DEF IInv, Data, Control
<1>0. c \in Threads /\ Clients \subseteq Threads /\ pc[c] = "enq_end" /\ op[c] \in {"get", "set"}
      /\ BgThread \in Threads /\ c # BgThread /\ rows[c] \in Batch
  BY ThreadsDistinct DEF EnqueueEnd, FlowOK, TypeOK
<1>1. /\ UNCHANGED <<op, keys, got, data, version, mode>>
      /\ queue' = Append(queue, rows[c])
      /\ latest' = IF op[c] = "set" THEN Overwrite(latest, rows[c]) ELSE latest
      /\ pc'[c] = "barrier" /\ rows'[c] = NoRows
      /\ \A t \in Threads \ {c} : pc'[t] = pc[t] /\ rows'[t] = rows[t]
  BY <1>0, NoRowsType DEF EnqueueEnd, OneProducer, Goto, TypeOK
<1>2. async /\ \A d \in Clients : ~Updating(d)
  <2>1. async
    BY <1>0 DEF Routes, RouteOf
  <2>. QED BY <2>1 DEF Routes, RouteOf, TypeOK, FlowOK, CvLabels, Producing, FlushLabels, Updating
<1>3. \A k \in Keys : /\ latest[k] \in Int /\ version \in Int /\ latest[k] # Absent
                      /\ rows[c][k] \in Int /\ Stored(k) \in Int
                      /\ \A i \in Queued(k) : queue[i][k] \in Int
  <2>1. \A k \in Keys : \A i \in Queued(k) : queue[i][k] \in Int
    BY QueuedHead DEF Queued
  <2>2. \A b \in Batch : \A k \in Keys : b[k] \in Int
    BY DEF Batch, Version, Absent
  <2>3. l2 \in Batch /\ evicted \in Batch /\ rows[c] \in Batch
    BY <1>0 DEF TypeOK
  <2>. QED BY <2>1, <2>2, <2>3 DEF TypeOK, Version, Absent, Stored
<1>4. ASSUME NEW k \in Keys
      PROVE  /\ rows[c][k] = Absent => latest'[k] = latest[k]
             /\ rows[c][k] # Absent => latest'[k] = rows[c][k] /\ k \in keys[c]
             /\ latest[k] <= latest'[k] /\ latest'[k] <= version
             /\ op[c] = "get" => latest'[k] = latest[k]
             /\ Stored(k)' = Stored(k)
  <2>1. latest[k] <= version
    BY DEF Ordered, OrderOf
  <2>2. Stored(k)' = Stored(k)
    BY <1>1 DEF Stored, data
  <2>3. CASE op[c] = "set"
    <3>1. /\ latest'[k] = IF rows[c][k] = Absent THEN latest[k] ELSE rows[c][k]
          /\ IF k \in keys[c] THEN latest[k] < rows[c][k] /\ rows[c][k] <= version
                              ELSE rows[c][k] = Absent
      BY <1>0, <1>1, <2>3 DEF Overwrite, Calls, PendingOf, Due
    <3>. QED BY <1>3, <2>1, <2>2, <2>3, <3>1
  <2>4. CASE op[c] = "get"
    <3>1. latest' = latest /\ (rows[c][k] # Absent => k \in keys[c] /\ rows[c][k] = latest[k])
      BY <1>0, <1>1, <2>4 DEF Calls, CarriedOf
    <3>. QED BY <1>3, <2>1, <2>2, <2>4, <3>1
  <2>. QED BY <1>0, <2>3, <2>4
<1>5. \A d \in Clients : ~Updating(d)'
  BY <1>0, <1>1, <1>2 DEF Updating
<1>6. EveryRowKept'
  <2> SUFFICES ASSUME NEW k \in Keys
               PROVE  /\ \A i \in Queued(k)' : (\A j \in Queued(k)' : j <= i) => queue'[i][k] = latest'[k]
                      /\ InHand(k)' = {}
                      /\ Queued(k)' = {} => Stored(k)' = latest'[k]
    BY DEF EveryRowKept
  <2>1. InHand(k)' = {} /\ InHand(k) = {}
    BY <1>2, <1>5 DEF InHand, Updating
  <2>2. CASE rows[c][k] # Absent
    BY <1>0, <1>1, <1>4, <2>1, <2>2, QueuedAppend
  <2>3. CASE rows[c][k] = Absent
    <3>1. Queued(k)' = Queued(k) /\ \A i \in Queued(k) : queue'[i] = queue[i]
      BY <1>0, <1>1, <2>3, QueuedAppend
    <3>. QED BY <1>4, <2>1, <2>3, <3>1 DEF EveryRowKept
  <2>. QED BY <2>2, <2>3
<1>7. Ordered'
  <2> SUFFICES ASSUME NEW k \in Keys PROVE OrderOf(k)'
    BY DEF Ordered
  <2>1. OrderOf(k)
    BY DEF Ordered
  <2>2. /\ \A i \in Queued(k)' : Stored(k) <= queue'[i][k] /\ queue'[i][k] <= latest'[k]
        /\ \A i, j \in Queued(k)' : i <= j => queue'[i][k] <= queue'[j][k]
    BY <1>0, <1>1, <1>3, <1>4, <2>1, QueuedAppend DEF OrderOf
  <2>3. UNCHANGED <<l2, evicted, storage, version>>
    BY <1>1 DEF data
  <2>. QED BY <1>3, <1>4, <2>1, <2>2, <2>3 DEF OrderOf
<1>8. Applied'
  <2>1. UNCHANGED capacity /\ pc'[BgThread] = pc[BgThread] /\ rows'[BgThread] = rows[BgThread]
    BY <1>0, <1>1 DEF mode
  <2>2. Applying => Head(queue') = Head(queue)
    <3>1. Applying => queue \in Seq(Batch) /\ queue # <<>>
      BY DEF FlowOK, TypeOK
    <3>. QED BY <1>0, <1>1, <3>1
  <2>. QED BY <1>4, <2>1, <2>2 DEF Applied, Applying, Updating, HasL2
<1>9. Apart' /\ Clean'
  <2>1. \A t \in Threads : Updating(t) => Updating(t)'
    BY <1>0, <1>1 DEF Updating
  <2>. QED BY <1>1, <2>1 DEF Apart, Active, Clean, data, HasL2, mode
<1>10. ASSUME NEW d \in Clients, Past(d)', Past(d) PROVE SettledOf(d)'
  <2> SUFFICES ASSUME NEW k \in keys[d]
               PROVE  /\ Stored(k)' = latest'[k]
                      /\ \A i \in Queued(k)' : queue'[i][k] = latest'[k]
    BY <1>1 DEF SettledOf
  <2>0. k \in Keys
    BY DEF TypeOK
  <2>1. Stored(k) = latest[k] /\ \A i \in Queued(k) : queue[i][k] = latest[k]
    BY <1>10 DEF Calls, SettledOf
  <2>2. latest'[k] = latest[k] /\ rows[c][k] \in {Absent, latest[k]}
    <3>1. CASE op[c] = "set"
      <4>1. k \notin keys[c]
        BY <1>10, <3>1 DEF Apart, Active, Past
      <4>. QED BY <1>4, <2>0, <4>1
    <3>2. CASE op[c] = "get"
      BY <1>4, <2>0, <3>2
    <3>. QED BY <1>0, <3>1, <3>2
  <2>. QED BY <1>0, <1>1, <1>4, <2>0, <2>1, <2>2, QueuedAppend
<1>11. ASSUME NEW d \in Clients PROVE CallOf(d)'
  <2>0. op'[d] = op[d] /\ keys'[d] = keys[d] /\ got'[d] = got[d] /\ CallOf(d)
    BY <1>1 DEF Calls, Routes, CallOf
  <2>1. CASE d = c
    <3>1. SettledOf(c)'
      BY <1>0, <1>1, <1>10 DEF SettledOf, Past, CvLabels
    <3>2. AnswerOf(c)'
      <4>1. op[c] = "get" => Read(c) /\ latest' = latest
        BY <1>0, <1>1 DEF Read, Producing
      <4>. QED BY <1>0, <1>1, <2>0, <2>1, <4>1 DEF CallOf, AnswerOf, Read
    <3>3. async' = async
      BY <1>1 DEF mode
    <3>. QED BY <1>0, <1>1, <1>2, <2>0, <2>1, <3>1, <3>2, <3>3 DEF CallOf, RouteOf, PendingOf, Due, CarriedOf,
         Updating, FlushOf, Producing
  <2>2. CASE d # c /\ op[d] = "none"
    <3>1. pc'[d] = "idle" /\ op'[d] = "none"
      BY <1>0, <1>1, <2>2 DEF FlowOK
    <3>. QED BY <3>1 DEF CallOf, RouteOf, PendingOf, Due, CarriedOf, Updating, SettledOf, Past,
         AnswerOf, Read, FlushOf
  <2>3. CASE d # c /\ op[d] # "none"
    <3>1. pc'[d] = pc[d] /\ rows'[d] = rows[d]
      BY <1>0, <1>1, <2>3
    <3>2. op[d] # "flush" /\ (op[c] = "set" => keys[c] \cap keys[d] = {})
      BY <1>0, <2>3 DEF Apart, Active
    <3>3. \A k \in keys[d] : latest'[k] = latest[k]
      BY <1>0, <1>4, <3>2 DEF TypeOK
    <3>4. SettledOf(d)'
      BY <1>10, <2>0, <3>1 DEF SettledOf, Past
    <3>5. version <= version' /\ async' = async /\ l2' = l2
      BY <1>1 DEF TypeOK, Version, mode, data
    <3>. QED BY <2>0, <3>1, <3>2, <3>3, <3>4, <3>5, BystanderData
  <2>. QED BY <2>1, <2>2, <2>3
<1>12. Routes' /\ Calls'
  <2>1. async' = async
    BY <1>1 DEF mode
  <2>. QED BY <1>2, <1>11, <2>1 DEF Routes, Calls, CallOf
<1>. QED BY <1>6, <1>7, <1>8, <1>9, <1>12
(* Without a queue, a set takes effect when it has the cache's mutex.       *)
LEMMA LockSetData ==
    ASSUME IInv, Control', NEW c \in Clients, LockL2(c), op[c] = "set"
    PROVE  Data'
<1>. USE DEF IInv, Data, Control
<1>0. c \in Threads /\ Clients \subseteq Threads /\ pc[c] = "lock" /\ BgThread \in Threads /\ c # BgThread
  BY ThreadsDistinct DEF LockL2
<1>1. /\ UNCHANGED <<op, keys, rows, got, queue, data, version, mode>>
      /\ latest' = Overwrite(latest, rows[c]) /\ l2Mtx = NoThread
      /\ pc'[c] = "put" /\ \A t \in Threads \ {c} : pc'[t] = pc[t]
  BY <1>0 DEF LockL2, CanLockL2, Goto, TypeOK
<1>2. ~async /\ queue = <<>> /\ pc[BgThread] = "exit"
  BY <1>0 DEF Routes, RouteOf, Producing
<1>3. \A t \in Threads : ~Updating(t)
  <2>1. \A t \in Threads : ~HoldsL2(t)
    BY <1>1, ThreadsDistinct DEF L2Owner
  <2>. QED BY <2>1 DEF HoldsL2, Updating
<1>4. ASSUME NEW k \in Keys
      PROVE  /\ Queued(k) = {} /\ Queued(k)' = {} /\ InHand(k) = {}
             /\ Stored(k)' = Stored(k) /\ Stored(k) = latest[k]
             /\ IF k \in keys[c] THEN rows[c][k] # Absent /\ latest'[k] = rows[c][k]
                                 ELSE rows[c][k] = Absent /\ latest'[k] = latest[k]
             /\ latest[k] <= latest'[k] /\ latest'[k] <= version
             /\ latest[k] \in Int /\ latest'[k] \in Int
  <2>1. Queued(k) = {} /\ Queued(k)' = {} /\ Stored(k)' = Stored(k)
    BY <1>1, <1>2 DEF Queued, Stored, data
  <2>2. InHand(k) = {}
    BY <1>0, <1>3 DEF InHand, Updating
  <2>3. IF k \in keys[c] THEN latest[k] < rows[c][k] /\ rows[c][k] <= version ELSE rows[c][k] = Absent
    BY <1>0 DEF Calls, PendingOf, Due
  <2>4. latest[k] \in Version /\ latest[k] <= version /\ version \in Int
    BY DEF TypeOK, Ordered, OrderOf, Version
  <2>5. latest'[k] = IF rows[c][k] = Absent THEN latest[k] ELSE rows[c][k]
    BY <1>1 DEF Overwrite
  <2>6. rows[c][k] \in Int
    BY <1>0 DEF TypeOK, Batch, Version, Absent
  <2>. QED BY <2>1, <2>2, <2>3, <2>4, <2>5, <2>6 DEF EveryRowKept, Absent, Version
<1>5. ASSUME NEW d \in Clients PROVE CallOf(d)'
  <2>0. CallOf(d) /\ op'[d] = op[d] /\ keys'[d] = keys[d] /\ got'[d] = got[d] /\ rows'[d] = rows[d]
    BY <1>1 DEF Calls, Routes, CallOf
  <2>1. CASE d = c
    BY <1>0, <1>1, <1>2, <1>4, <2>0, <2>1 DEF CallOf, RouteOf, PendingOf, Due, CarriedOf, SettledOf, Past,
       AnswerOf, Read, FlushOf, mode
  <2>2. CASE d # c /\ op[d] = "none"
    <3>1. pc'[d] = "idle" /\ op'[d] = "none"
      BY <1>0, <1>1, <2>2 DEF FlowOK
    <3>. QED BY <3>1 DEF CallOf, RouteOf, PendingOf, Due, CarriedOf, Updating, SettledOf, Past,
         AnswerOf, Read, FlushOf
  <2>3. CASE d # c /\ op[d] # "none"
    <3>1. pc'[d] = pc[d]
      BY <1>0, <1>1, <2>3
    <3>2. op[d] # "flush" /\ keys[c] \cap keys[d] = {}
      BY <1>0, <2>3 DEF Apart, Active
    <3>3. \A k \in keys[d] : k \in Keys /\ latest'[k] = latest[k]
      BY <1>4, <3>2 DEF TypeOK
    <3>4. SettledOf(d)'
      BY <1>1, <1>4, <3>3 DEF SettledOf
    <3>5. version <= version' /\ async' = async /\ l2' = l2
      BY <1>1 DEF TypeOK, Version, mode, data
    <3>. QED BY <2>0, <3>1, <3>2, <3>3, <3>4, <3>5, BystanderData
  <2>. QED BY <2>1, <2>2, <2>3
<1>6. Routes' /\ Calls'
  BY <1>0, <1>1, <1>2, <1>5 DEF Routes, Calls, CallOf, mode
<1>7. Apart' /\ Clean' /\ Applied'
  <2>1. evicted' = evicted /\ evicted = NoRows /\ l2' = l2 /\ HasL2' = HasL2 /\ pc'[BgThread] = "exit"
    BY <1>0, <1>1, <1>2, <1>3 DEF Clean, data, HasL2, mode
  <2>. QED BY <1>1, <2>1 DEF Apart, Active, Clean, Applied, Updating
<1>8. Ordered'
  <2>1. \A k \in Keys : OrderOf(k)
    BY DEF Ordered
  <2>. QED BY <1>1, <1>4, <2>1 DEF Ordered, OrderOf, data
<1>9. EveryRowKept'
  <2> SUFFICES ASSUME NEW k \in Keys
               PROVE  /\ \A d \in Clients : d \in InHand(k)' => rows'[d][k] = latest'[k]
                      /\ InHand(k)' = {} => Stored(k)' = latest'[k]
    BY <1>4 DEF EveryRowKept, InHand
  <2>1. \A d \in Clients \ {c} : d \notin InHand(k)'
    BY <1>0, <1>1, <1>3 DEF InHand, Updating
  <2>2. c \in InHand(k)' <=> k \in keys[c]
    BY <1>0, <1>1, <1>4 DEF InHand
  <2>. QED BY <1>1, <1>4, <2>1, <2>2
<1>. QED BY <1>6, <1>7, <1>8, <1>9

(* A thread with the mutex moves rows of its batch into the cache or the    *)
(* storage: each index of the batch then has the batch's row, which is no   *)
(* older than what was stored and no newer than what is queued.             *)
LEMMA BatchRows ==
    ASSUME IInv, NEW t \in Clients \cup {BgThread}, Updating(t), NEW k \in Keys, rows[t][k] # Absent
    PROVE  /\ Stored(k) <= rows[t][k] /\ rows[t][k] <= latest[k]
           /\ \A i \in Queued(k) : rows[t][k] <= queue[i][k]
           /\ \A d \in Clients : Past(d) /\ k \in keys[d] => rows[t][k] = latest[k]
           /\ t \in Clients => rows[t][k] = latest[k] /\ queue = <<>> /\ pc[BgThread] = "exit"
           /\ t = BgThread => queue # <<>> /\ rows[t][k] = Head(queue)[k]
<1>. USE DEF IInv, Data, Control
<1>1. OrderOf(k)
  BY DEF Ordered
<1>2. CASE t \in Clients
  <2>1. ~async
    BY <1>2 DEF Routes, RouteOf, FlowOK, TypeOK, CvLabels, Producing, FlushLabels, Updating
  <2>2. rows[t][k] = latest[k] /\ queue = <<>> /\ pc[BgThread] = "exit"
    BY <1>2, <2>1 DEF Calls, CarriedOf, Routes
  <2>. QED BY <1>1, <1>2, <2>2, ThreadsDistinct DEF OrderOf, TypeOK, Version, Queued
<1>3. CASE t = BgThread
  <2>1. queue # <<>> /\ rows[t][k] = Head(queue)[k]
    BY <1>3 DEF Applied, FlowOK, Applying, Updating
  <2>2. 1 \in Queued(k) /\ queue[1][k] = rows[t][k] /\ \A i \in Queued(k) : i >= 1
    BY <2>1, QueuedHead
  <2>3. \A d \in Clients : Past(d) /\ k \in keys[d] => queue[1][k] = latest[k]
    BY <2>2 DEF Calls, SettledOf
  <2>. QED BY <1>1, <1>3, <2>1, <2>2, <2>3, ThreadsDistinct DEF OrderOf
<1>. QED BY <1>2, <1>3

LEMMA StoreData ==
    ASSUME IInv, Control', NEW t \in Clients \cup {BgThread}, Updating(t),
           UNCHANGED <<op, keys, got, queue, latest, version, mode>>,
           \A u \in Threads \ {t} : pc'[u] = pc[u] /\ rows'[u] = rows[u],
           pc'[t] \in {pc[t], "unlock"},
           \A k \in Keys : rows'[t][k] \in {rows[t][k], Absent},
           \A k \in Keys : Stored(k)' = Stored(k) \/ (rows[t][k] # Absent /\ Stored(k)' = rows[t][k]),
           \A k \in Keys : t \in InHand(k)' => t \in InHand(k),
           \A k \in Keys : t \in InHand(k) => t \in InHand(k)' \/ Stored(k)' = rows[t][k],
           \A k \in Keys : /\ evicted'[k] # Absent => storage'[k] <= evicted'[k]
                           /\ l2'[k] # Absent => /\ storage'[k] <= l2'[k]
                                                 /\ evicted'[k] # Absent => evicted'[k] <= l2'[k],
           Clean', Applied'
    PROVE  Data'
<1>. USE DEF IInv, Data, Control
<1>0. t \in Threads /\ Clients \subseteq Threads /\ BgThread \in Threads
  BY ThreadsDistinct
<1>1. HasL2' = HasL2 /\ async' = async /\ \A k \in Keys : Queued(k)' = Queued(k)
  BY DEF HasL2, mode, Queued
<1>2. \A u \in Threads : HoldsL2(u) => u = t
  BY <1>0 DEF L2Owner, HoldsL2, Updating
<1>3. \A d \in Clients : op[d] = "flush" => pc[d] \in CvLabels
  BY <1>0, FlushAlone
<1>4. ASSUME NEW d \in Clients PROVE CallOf(d)'
  <2>0. CallOf(d) /\ op'[d] = op[d] /\ keys'[d] = keys[d] /\ got'[d] = got[d]
    BY DEF Calls, Routes, CallOf
  <2>1. ASSUME Past(d) PROVE SettledOf(d)'
    <3> SUFFICES ASSUME NEW k \in keys[d]
                 PROVE  Stored(k)' = latest[k] /\ \A i \in Queued(k)' : queue'[i][k] = latest[k]
      BY <2>0 DEF SettledOf
    <3>1. k \in Keys /\ Stored(k) = latest[k] /\ \A i \in Queued(k) : queue[i][k] = latest[k]
      BY <2>0, <2>1 DEF TypeOK, CallOf, SettledOf
    <3>2. rows[t][k] # Absent => rows[t][k] = latest[k]
      BY <2>1, <3>1, BatchRows
    <3>. QED BY <1>1, <3>1, <3>2
  <2>2. CASE d # t
    <3>1. pc'[d] = pc[d] /\ rows'[d] = rows[d]
      BY <1>0, <2>2
    <3>2. pc[d] # "fetch"
      BY <1>0, <1>2, <2>2 DEF HoldsL2
    <3>3. SettledOf(d)'
      BY <2>0, <2>1, <3>1 DEF SettledOf, Past
    <3>4. version <= version' /\ \A k \in keys[d] : latest'[k] = latest[k]
      BY DEF TypeOK, Version
    <3>. QED BY <1>1, <1>3, <2>0, <3>1, <3>2, <3>3, <3>4, BystanderData
  <2>3. CASE d = t
    <3>1. op[d] \in {"get", "set"}
      BY <2>3 DEF FlowOK, TypeOK, Routes, RouteOf, CvLabels, FlushLabels, Updating
    <3>2. SettledOf(d)'
      <4>1. Past(d)' => Past(d)
        BY <2>0, <2>3 DEF Past, Updating, CvLabels
      <4>. QED BY <2>1, <4>1 DEF SettledOf
    <3>3. PendingOf(d)' /\ CarriedOf(d)' /\ FlushOf(d)' /\ AnswerOf(d)'
      BY <2>0, <2>3, <3>1 DEF CallOf, PendingOf, Due, CarriedOf, Updating, FlushOf, AnswerOf, Read
    <3>4. RouteOf(d)'
      <4>1. ~async
        BY <2>3, <3>1 DEF Routes, RouteOf, Updating, CvLabels, Producing
      <4>. QED BY <1>1, <2>0, <2>3, <3>1, <4>1 DEF CallOf, RouteOf, Updating
    <3>. QED BY <3>2, <3>3, <3>4 DEF CallOf
  <2>. QED BY <2>2, <2>3
<1>5. Routes' /\ Calls'
  <2>1. ~async => pc'[BgThread] = pc[BgThread]
    BY <1>0 DEF Routes, Updating
  <2>. QED BY <1>1, <1>4, <2>1 DEF Routes, Calls, CallOf
<1>6. Apart'
  BY DEF Apart, Active
<1>7. Ordered'
  <2> SUFFICES ASSUME NEW k \in Keys PROVE OrderOf(k)'
    BY DEF Ordered
  <2>1. OrderOf(k)
    BY DEF Ordered
  <2>2. rows[t][k] # Absent => /\ Stored(k) <= rows[t][k] /\ rows[t][k] <= latest[k]
                               /\ \A i \in Queued(k) : rows[t][k] <= queue[i][k]
    BY BatchRows
  <2>. QED BY <1>1, <2>1, <2>2 DEF OrderOf
<1>8. EveryRowKept'
  <2> SUFFICES ASSUME NEW k \in Keys
               PROVE  /\ \A d \in Clients : d \in InHand(k)' => rows'[d][k] = latest[k]
                      /\ Queued(k) = {} /\ InHand(k)' = {} => Stored(k)' = latest[k]
    BY <1>1 DEF EveryRowKept, InHand
  <2>1. \A d \in Clients \ {t} : (d \in InHand(k)' <=> d \in InHand(k)) /\ rows'[d] = rows[d]
    BY <1>0, <1>1 DEF InHand
  <2>2. \A d \in InHand(k) : rows[d][k] = latest[k] /\ rows[d][k] # Absent
    BY DEF EveryRowKept, InHand
  <2>3. ASSUME NEW d \in Clients, d \in InHand(k)' PROVE rows'[d][k] = latest[k]
    <3>1. CASE d = t
      BY <2>2, <2>3, <3>1 DEF InHand
    <3>2. CASE d # t
      BY <2>1, <2>2, <2>3, <3>2
    <3>. QED BY <3>1, <3>2
  <2>4. ASSUME Queued(k) = {}, InHand(k)' = {} PROVE Stored(k)' = latest[k]
    <3>1. CASE t \in InHand(k)
      BY <2>2, <2>4, <3>1
    <3>2. CASE t \notin InHand(k)
      <4>1. InHand(k) = {}
        BY <2>1, <2>4, <3>2 DEF InHand
      <4>2. rows[t][k] # Absent => t \in Clients
        BY <2>4, BatchRows, QueuedHead
      <4>3. rows[t][k] # Absent => rows[t][k] = latest[k]
        BY <4>2, BatchRows
      <4>. QED BY <2>4, <4>1, <4>3 DEF EveryRowKept
    <3>. QED BY <3>1, <3>2
  <2>. QED BY <2>3, <2>4
<1>. QED BY <1>5, <1>6, <1>7, <1>8

LEMMA PutRowData ==
    ASSUME IInv, Control', ~AllocFails, NEW t \in Clients \cup {BgThread}, NEW r \in Keys, PutRow(t, r)
    PROVE  Data'
<1>. USE DEF IInv, Data, Control
<1>0. t \in Threads /\ BgThread \in Threads /\ BgThread \notin Clients
  BY ThreadsDistinct
<1>1. /\ pc[t] = "put" /\ HasL2 /\ Updating(t) /\ rows[t][r] # Absent
      /\ UNCHANGED <<pc, op, keys, got, queue, storage, latest, version, mode>>
      /\ \A u \in Threads \ {t} : rows'[u] = rows[u]
      /\ \A k \in Keys : rows'[t][k] = IF k = r THEN Absent ELSE rows[t][k]
  BY <1>0 DEF PutRow, Updating, TypeOK, Batch, ghost
<1>2. PICK E \in SUBSET (Keys \ {r}) :
        /\ \A k \in E : l2[k] # Absent
        /\ \A k \in Keys : /\ l2'[k] = IF k = r THEN rows[t][r] ELSE IF k \in E THEN Absent ELSE l2[k]
                           /\ evicted'[k] = IF k \in E THEN l2[k] ELSE evicted[k]
  <2>1. l2 \in [Keys -> Version \cup {Absent}] /\ evicted \in [Keys -> Version \cup {Absent}]
    BY DEF TypeOK, Batch
  <2>2. CASE l2' = [l2 EXCEPT ![r] = rows[t][r]] /\ UNCHANGED evicted
    <3>. WITNESS {} \in SUBSET (Keys \ {r})
    <3>. QED BY <2>1, <2>2
  <2>3. ASSUME r \notin RowsOf(l2), NEW e \in RowsOf(l2),
               l2' = [l2 EXCEPT ![e] = Absent, ![r] = rows[t][r]],
               evicted' = [evicted EXCEPT ![e] = l2[e]]
        PROVE  \E E \in SUBSET (Keys \ {r}) :
                  /\ \A k \in E : l2[k] # Absent
                  /\ \A k \in Keys : /\ l2'[k] = IF k = r THEN rows[t][r] ELSE IF k \in E THEN Absent ELSE l2[k]
                                     /\ evicted'[k] = IF k \in E THEN l2[k] ELSE evicted[k]
    <3>1. e \in Keys /\ e # r /\ l2[e] # Absent
      BY <2>3 DEF RowsOf
    <3>2. {e} \in SUBSET (Keys \ {r})
      BY <3>1
    <3>. WITNESS {e} \in SUBSET (Keys \ {r})
    <3>. QED BY <2>1, <2>3, <3>1
  <2>. QED BY <2>2, <2>3 DEF PutRow
<1>3. \A k \in Keys : Stored(k)' = IF k = r THEN rows[t][r] ELSE Stored(k)
  BY <1>1, <1>2 DEF Stored
<1>4. Clean'
  <2>1. Updating(t)' /\ HasL2'
    BY <1>1 DEF Updating, HasL2, mode
  <2>. QED BY <1>0, <2>1 DEF Clean
<1>5. Applied'
  <2>0. HasL2' = HasL2 /\ pc' = pc /\ queue' = queue
    BY <1>1 DEF HasL2, mode
  <2>1. CASE t \in Clients
    <3>1. pc[BgThread] = "exit"
      BY <1>1, <2>1, BatchRows
    <3>. QED BY <2>0, <3>1 DEF Applied, Updating
  <2>2. CASE t = BgThread
    <3>1. rows[t][r] = Head(queue)[r]
      BY <1>1, <2>2, BatchRows
    <3>2. /\ \A k \in Keys : rows[t][k] \in {Absent, Head(queue)[k]}
          /\ \A k \in Keys : Head(queue)[k] # Absent /\ rows[t][k] = Absent => Stored(k) = Head(queue)[k]
      BY <1>1, <2>2 DEF Applied
    <3>3. /\ \A k \in Keys : rows'[t][k] \in {Absent, Head(queue)[k]}
          /\ \A k \in Keys : Head(queue)[k] # Absent /\ rows'[t][k] = Absent => Stored(k)' = Head(queue)[k]
      BY <1>1, <1>3, <3>1, <3>2
    <3>. QED BY <1>1, <2>0, <2>2, <3>3 DEF Applied, Updating
  <2>. QED BY <2>1, <2>2
<1>6. \A k \in Keys : /\ t \in InHand(k)' => t \in InHand(k)
                      /\ t \in InHand(k) => t \in InHand(k)' \/ Stored(k)' = rows[t][k]
  BY <1>1, <1>3 DEF InHand
<1>7. \A k \in Keys : /\ evicted'[k] # Absent => storage'[k] <= evicted'[k]
                      /\ l2'[k] # Absent => /\ storage'[k] <= l2'[k]
                                            /\ evicted'[k] # Absent => evicted'[k] <= l2'[k]
  <2> SUFFICES ASSUME NEW k \in Keys
               PROVE  /\ evicted'[k] # Absent => storage[k] <= evicted'[k]
                      /\ l2'[k] # Absent => /\ storage[k] <= l2'[k]
                                            /\ evicted'[k] # Absent => evicted'[k] <= l2'[k]
    BY <1>1
  <2>1. OrderOf(k)
    BY DEF Ordered
  <2>2. CASE k # r
    BY <1>2, <2>1, <2>2 DEF OrderOf
  <2>3. CASE k = r
    <3>1. Stored(r) <= rows[t][r] /\ rows[t][r] \in Int /\ storage[r] \in Int
          /\ evicted[r] \in Int /\ l2[r] \in Int
      BY <1>0, <1>1, BatchRows DEF TypeOK, Batch, Version, Absent
    <3>2. l2'[r] = rows[t][r] /\ evicted'[r] = evicted[r]
      BY <1>2
    <3>. QED BY <2>1, <2>3, <3>1, <3>2 DEF OrderOf, Stored
  <2>. QED BY <2>2, <2>3
<1>8. pc'[t] \in {pc[t], "unlock"} /\ \A u \in Threads \ {t} : pc'[u] = pc[u] /\ rows'[u] = rows[u]
  BY <1>1
<1>9. \A k \in Keys : /\ rows'[t][k] \in {rows[t][k], Absent}
                      /\ Stored(k)' = Stored(k) \/ (rows[t][k] # Absent /\ Stored(k)' = rows[t][k])
  BY <1>1, <1>3
<1>. QED BY <1>1, <1>4, <1>5, <1>6, <1>7, <1>8, <1>9, StoreData

LEMMA WriteStorageData ==
    ASSUME IInv, Control', NEW t \in Clients \cup {BgThread}, WriteStorage(t)
    PROVE  Data'
<1>. USE DEF IInv, Data, Control
<1>0. t \in Threads /\ BgThread \in Threads /\ BgThread \notin Clients
  BY ThreadsDistinct
<1>1. /\ pc[t] = "write" /\ Updating(t) /\ pc'[t] = "unlock"
      /\ UNCHANGED <<op, keys, got, queue, l2, latest, version, mode>>
      /\ \A u \in Threads \ {t} : pc'[u] = pc[u] /\ rows'[u] = rows[u]
      /\ \A k \in Keys : rows'[t][k] = Absent /\ evicted'[k] = Absent
      /\ rows'[t] = NoRows /\ evicted' = NoRows
      /\ \A k \in Keys : storage'[k] = IF ToStorage(t)[k] = Absent THEN storage[k] ELSE ToStorage(t)[k]
  BY <1>0 DEF WriteStorage, Updating, Goto, TypeOK, ghost, Overwrite, NoRows
<1>2. HasL2' = HasL2
  BY <1>1 DEF HasL2, mode
<1>3. \A k \in Keys : ~HasL2 => l2[k] = Absent /\ evicted[k] = Absent
  BY DEF Clean, NoRows
<1>4. \A k \in Keys : Stored(k)' = IF ~HasL2 /\ rows[t][k] # Absent THEN rows[t][k] ELSE Stored(k)
  <2> SUFFICES ASSUME NEW k \in Keys
               PROVE  Stored(k)' = IF ~HasL2 /\ rows[t][k] # Absent THEN rows[t][k] ELSE Stored(k)
    OBVIOUS
  <2>1. storage[k] # Absent
    BY DEF TypeOK, Version, Absent
  <2>. QED BY <1>1, <1>3, <2>1 DEF Stored, ToStorage
<1>5. Clean'
  BY <1>1, <1>2 DEF Clean
<1>6. Applied'
  <2>1. CASE t \in Clients
    <3>1. ~async
      BY <1>1, <2>1 DEF Routes, RouteOf, FlowOK, TypeOK, CvLabels, Producing, FlushLabels, Updating
    <3>2. pc'[BgThread] = "exit"
      BY <1>0, <1>1, <2>1, <3>1 DEF Routes
    <3>. QED BY <3>2 DEF Applied, Updating
  <2>2. CASE t = BgThread
    <3>1. \A k \in Keys : Head(queue)[k] # Absent => Stored(k)' = Head(queue)[k]
      <4>1. CASE HasL2
        <5>1. \A k \in Keys : rows[t][k] = Absent
          BY <1>1, <2>2, <4>1 DEF Applied, NoRows
        <5>. QED BY <1>1, <1>4, <2>2, <4>1, <5>1 DEF Applied
      <4>2. CASE ~HasL2
        BY <1>1, <1>4, <2>2, <4>2 DEF Applied
      <4>. QED BY <4>1, <4>2
    <3>. QED BY <1>1, <2>2, <3>1 DEF Applied, Updating
  <2>. QED BY <2>1, <2>2
<1>7. \A k \in Keys : /\ t \in InHand(k)' => t \in InHand(k)
                      /\ t \in InHand(k) => t \in InHand(k)' \/ Stored(k)' = rows[t][k]
  BY <1>1, <1>4 DEF InHand
<1>8. \A k \in Keys : /\ evicted'[k] # Absent => storage'[k] <= evicted'[k]
                      /\ l2'[k] # Absent => /\ storage'[k] <= l2'[k]
                                            /\ evicted'[k] # Absent => evicted'[k] <= l2'[k]
  <2> SUFFICES ASSUME NEW k \in Keys, l2[k] # Absent
               PROVE  storage'[k] <= l2[k]
    BY <1>1
  <2>1. OrderOf(k) /\ HasL2
    BY <1>3 DEF Ordered
  <2>. QED BY <1>1, <2>1 DEF OrderOf, ToStorage
<1>9. pc'[t] \in {pc[t], "unlock"} /\ \A k \in Keys : rows'[t][k] \in {rows[t][k], Absent}
  BY <1>1
<1>10. \A k \in Keys : Stored(k)' = Stored(k) \/ (rows[t][k] # Absent /\ Stored(k)' = rows[t][k])
  BY <1>4
<1>. QED BY <1>1, <1>5, <1>6, <1>7, <1>8, <1>9, <1>10, StoreData

-----------------------------------------------------------------------------
(* The background thread takes the head of the queue, and drops it once it  *)
(* has been applied.                                                        *)

LEMMA BgQueueCalls ==
    ASSUME IInv, Control', queue # <<>>,
           UNCHANGED <<op, keys, got, data, ghost, mode>>,
           \A t \in Threads \ {BgThread} : pc'[t] = pc[t] /\ rows'[t] = rows[t],
           \A k \in Keys : \A i \in Queued(k)' : \E j \in Queued(k) : queue'[i][k] = queue[j][k]
    PROVE  /\ \A c \in Clients : CallOf(c)'
           /\ Apart'
           /\ \A k \in Keys : Stored(k)' = Stored(k) /\ InHand(k)' = InHand(k)
<1>. USE DEF IInv, Data, Control
<1>1. Clients \subseteq Threads \ {BgThread}
  BY ThreadsDistinct
<1>2. \A k \in Keys : Stored(k)' = Stored(k) /\ InHand(k)' = InHand(k)
  <2>1. HasL2' = HasL2 /\ \A c \in Clients : pc'[c] = pc[c] /\ rows'[c] = rows[c]
    BY <1>1 DEF HasL2, mode
  <2>. QED BY <2>1 DEF Stored, InHand, data
<1>3. ASSUME NEW c \in Clients PROVE CallOf(c)'
  <2>1. CallOf(c) /\ pc'[c] = pc[c] /\ rows'[c] = rows[c]
    BY <1>1 DEF Calls, Routes, CallOf
  <2>2. op[c] = "flush" => pc[c] \in CvLabels
    BY FlushAlone
  <2>3. SettledOf(c)'
    <3> SUFFICES ASSUME Past(c), NEW k \in keys[c]
                 PROVE  Stored(k)' = latest[k] /\ \A i \in Queued(k)' : queue'[i][k] = latest[k]
      BY <2>1 DEF SettledOf, Past, ghost
    <3>1. k \in Keys /\ Stored(k) = latest[k] /\ \A i \in Queued(k) : queue[i][k] = latest[k]
      BY <2>1 DEF CallOf, SettledOf, TypeOK
    <3>. QED BY <1>2, <3>1
  <2>4. version <= version' /\ latest' = latest /\ l2' = l2 /\ async' = async
    BY DEF TypeOK, Version, ghost, data, mode
  <2>. QED BY <2>1, <2>2, <2>3, <2>4, BystanderData
<1>4. Apart'
  BY DEF Apart, Active
<1>. QED BY <1>2, <1>3, <1>4

LEMMA BgTakeData ==
    ASSUME IInv, Control', BgPeek, queue # <<>>, ~stop
    PROVE  Data'
<1>. USE DEF IInv, Data, Control
<1>0. BgThread \in Threads
  BY ThreadsDistinct
<1>1. /\ UNCHANGED <<op, keys, got, queue, data, ghost, mode>>
      /\ pc[BgThread] = "peek" /\ pc'[BgThread] = "lock" /\ rows'[BgThread] = Head(queue)
      /\ \A t \in Threads \ {BgThread} : pc'[t] = pc[t] /\ rows'[t] = rows[t]
  BY <1>0 DEF BgPeek, Goto, TypeOK
<1>2. HasL2' = HasL2 /\ \A k \in Keys : Queued(k)' = Queued(k)
  BY <1>1 DEF HasL2, mode, Queued
<1>3. /\ \A c \in Clients : CallOf(c)'
      /\ Apart'
      /\ \A k \in Keys : Stored(k)' = Stored(k) /\ InHand(k)' = InHand(k)
  BY <1>1, <1>2, BgQueueCalls
<1>4. Routes' /\ Calls'
  BY <1>1, <1>3 DEF Routes, Calls, CallOf, mode
<1>5. Applied'
  BY <1>1 DEF Applied, Updating
<1>6. Clean'
  <2>1. \A t \in Threads : Updating(t) => Updating(t)'
    BY <1>1 DEF Updating
  <2>. QED BY <1>1, <1>2, <2>1 DEF Clean, data
<1>7. Ordered'
  BY <1>1, <1>2, <1>3 DEF Ordered, OrderOf, data, ghost
<1>8. EveryRowKept'
  <2>1. \A k \in Keys : \A c \in InHand(k) : rows'[c] = rows[c]
    BY <1>1, ThreadsDistinct DEF InHand
  <2>. QED BY <1>1, <1>2, <1>3, <2>1 DEF EveryRowKept, ghost
<1>. QED BY <1>3, <1>4, <1>5, <1>6, <1>7, <1>8

LEMMA BgDequeueData ==
    ASSUME IInv, Control', BgDequeue
    PROVE  Data'
<1>. USE DEF IInv, Data, Control
<1>0. BgThread \in Threads
  BY ThreadsDistinct
<1>1. /\ UNCHANGED <<op, keys, rows, got, data, ghost, mode>>
      /\ pc[BgThread] = "dequeue" /\ pc'[BgThread] = "peek" /\ queue' = Tail(queue) /\ queue # <<>>
      /\ \A t \in Threads \ {BgThread} : pc'[t] = pc[t] /\ rows'[t] = rows[t]
  BY <1>0 DEF BgDequeue, Goto, TypeOK, FlowOK, Applying
<1>2. \A k \in Keys : /\ \A i \in Queued(k)' : i + 1 \in Queued(k) /\ queue'[i] = queue[i + 1] /\ i \in Int
                      /\ \A i \in Queued(k) : /\ i \in Int
                                              /\ i = 1 \/ (i - 1 \in Queued(k)' /\ queue'[i - 1] = queue[i])
  BY <1>1, QueuedTail
<1>3. \A k \in Keys : 1 \in Queued(k) => Stored(k) = queue[1][k]
  <2>1. /\ \A k \in Keys : rows[BgThread][k] = Absent
        /\ \A k \in Keys : Head(queue)[k] # Absent /\ rows[BgThread][k] = Absent => Stored(k) = Head(queue)[k]
    BY <1>1 DEF Applied, NoRows
  <2>. QED BY <1>1, <2>1, QueuedHead
<1>4. HasL2' = HasL2
  BY <1>1 DEF HasL2, mode
<1>5. /\ \A c \in Clients : CallOf(c)'
      /\ Apart'
      /\ \A k \in Keys : Stored(k)' = Stored(k) /\ InHand(k)' = InHand(k)
  <2>1. \A k \in Keys : \A i \in Queued(k)' : \E j \in Queued(k) : queue'[i][k] = queue[j][k]
    BY <1>2
  <2>. QED BY <1>1, <2>1, BgQueueCalls
<1>6. Routes' /\ Calls'
  BY <1>1, <1>5 DEF Routes, Calls, CallOf, mode
<1>7. Applied' /\ Clean'
  <2>1. \A t \in Threads : Updating(t) => Updating(t)'
    BY <1>1 DEF Updating
  <2>. QED BY <1>1, <1>4, <2>1 DEF Applied, Updating, Clean, data
<1>8. Ordered'
  <2> SUFFICES ASSUME NEW k \in Keys PROVE OrderOf(k)'
    BY DEF Ordered
  <2>1. OrderOf(k)
    BY DEF Ordered
  <2>2. UNCHANGED <<l2, evicted, storage, latest, version>>
    BY <1>1 DEF data, ghost
  <2>. QED BY <1>2, <1>5, <2>1, <2>2 DEF OrderOf
<1>9. EveryRowKept'
  <2> SUFFICES ASSUME NEW k \in Keys
               PROVE  /\ \A i \in Queued(k)' : (\A j \in Queued(k)' : j <= i) => queue'[i][k] = latest[k]
                      /\ \A c \in InHand(k) : rows[c][k] = latest[k]
                      /\ Queued(k)' = {} /\ InHand(k) = {} => Stored(k) = latest[k]
    BY <1>1, <1>5 DEF EveryRowKept, ghost
  <2>1. /\ \A i \in Queued(k) : (\A j \in Queued(k) : j <= i) => queue[i][k] = latest[k]
        /\ \A c \in InHand(k) : rows[c][k] = latest[k]
        /\ Queued(k) = {} /\ InHand(k) = {} => Stored(k) = latest[k]
    BY DEF EveryRowKept
  <2>2. ASSUME NEW i \in Queued(k)', \A j \in Queued(k)' : j <= i PROVE queue'[i][k] = latest[k]
    <3>1. i + 1 \in Queued(k) /\ queue'[i] = queue[i + 1] /\ i \in Int /\ i + 1 >= 1
      BY <1>1, <1>2, QueuedHead
    <3>2. \A j \in Queued(k) : j <= i + 1
      BY <1>2, <2>2, <3>1
    <3>. QED BY <2>1, <3>1, <3>2
  <2>3. ASSUME Queued(k)' = {}, InHand(k) = {} PROVE Stored(k) = latest[k]
    BY <1>2, <1>3, <2>1, <2>3
  <2>. QED BY <2>1, <2>2, <2>3
<1>. QED BY <1>5, <1>6, <1>7, <1>8, <1>9

-----------------------------------------------------------------------------
(* Every step.                                                              *)

LEMMA OnlyBeginEnqueues ==
    ASSUME TypeOK, [Next]_vars, NEW c \in Clients, pc'[c] = "enq_end", pc[c] # "enq_end"
    PROVE  EnqueueBegin(c)
<1>. DEFINE Moves(t) == \E to : to # "enq_end" /\ Wakes(t, to)
<1>0. \A u \in Threads : ~Moves(u)
  BY ThreadsDistinct DEF Wakes
<1>1. ASSUME NEW t \in Threads, NEW to, to # "enq_end", Goto(t, to) PROVE FALSE
  BY <1>0, <1>1, GotoWakes
<1>. HIDE DEF Moves
<1>2. ASSUME NEW d \in Clients, ClientCall(d) \/ ClientStep(d) PROVE EnqueueBegin(c)
  <2>0. d \in Threads
    BY ThreadsDistinct
  <2>1. ~ClientCall(d)
    BY <1>1, <2>0 DEF ClientCall, CallGet, CallSet, CallFlush, Call
  <2>2. ~CvStep(d)
    BY <1>1, <2>0 DEF CvStep, CvLock, CvCheck, CvSleep, LockBarrier, AfterWait
  <2>3. CASE UpdateStep(d)
    <3>1. \A k \in Keys : ~PutRow(d, k)
      BY DEF PutRow
    <3>. QED BY <1>1, <2>0, <2>3, <3>1 DEF UpdateStep, LockL2, PutDone, WriteStorage, UnlockL2
  <2>4. ~NotifyOne(d)
    <3>1. ASSUME NEW w \in Waiting,
                 pc' = [pc EXCEPT ![d] = IF op[d] = "get" THEN "unlock" ELSE "ret", ![w] = "cv_lock"]
          PROVE  FALSE
      BY <2>0, <3>1, ThreadsDistinct DEF TypeOK
    <3>. QED BY <1>1, <2>0, <3>1 DEF NotifyOne
  <2>5. CASE EnqueueBegin(d)
    BY <2>0, <2>5, ThreadsDistinct DEF EnqueueBegin, Goto, TypeOK
  <2>6. ~EnqueueEnd(d) /\ ~Lookup(d) /\ ~Return(d) /\ ~FlushWrite(d)
    BY <1>1, <2>0 DEF EnqueueEnd, Lookup, Return, FlushWrite
  <2>7. CASE Fetch(d)
    BY <1>1, <2>0, <2>7 DEF Fetch
  <2>8. ~FlushCopy(d)
    BY <1>1, <2>0 DEF FlushCopy
  <2>. QED BY <1>2, <2>1, <2>2, <2>3, <2>4, <2>5, <2>6, <2>7, <2>8 DEF ClientStep
<1>3. ~\E t \in Threads : SpuriousWake(t)
  BY <1>1 DEF SpuriousWake
<1>4. ~BgStep
  <2>1. \A k \in Keys : ~PutRow(BgThread, k)
    BY DEF PutRow
  <2>2. ~CvStep(BgThread) /\ ~UpdateStep(BgThread)
    BY <1>1, <2>1, ThreadsDistinct DEF CvStep, CvLock, CvCheck, CvSleep, LockBarrier, AfterWait,
       UpdateStep, LockL2, PutDone, WriteStorage, UnlockL2
  <2>3. ~BgPeek /\ ~BgDequeue
    BY <1>1, ThreadsDistinct DEF BgPeek, BgDequeue
  <2>4. ~BgNotifyAll
    BY ThreadsDistinct DEF BgNotifyAll, NotifyAll
  <2>. QED BY <2>2, <2>3, <2>4 DEF BgStep
<1>5. ~OwnerStep /\ ~Destroy
  <2>1. ~OwnerNotifyAll
    BY ThreadsDistinct DEF OwnerNotifyAll, NotifyAll
  <2>. QED BY <1>1, <2>1, ThreadsDistinct DEF OwnerStep, LockBarrier, Join, Destroy
<1>6. ~UNCHANGED vars
  BY DEF vars
<1>. QED BY <1>2, <1>3, <1>4, <1>5, <1>6 DEF Next

(* Only the thread that meets another one in enqueue() says so, and what    *)
(* has happened has happened.                                               *)
LEMMA CollisionsStay == ASSUME TypeOK, [Next]_vars, collided PROVE collided'
<1>1. ASSUME NEW t \in Threads, CvStep(t) \/ UpdateStep(t) \/ SpuriousWake(t) PROVE collided'
  BY <1>1 DEF CvStep, CvLock, CvCheck, CvSleep, LockBarrier, UpdateStep, LockL2, PutDone,
     WriteStorage, UnlockL2, PutRow, SpuriousWake, mode
<1>2. ASSUME NEW c \in Clients, ClientCall(c) \/ ClientStep(c) PROVE collided'
  <2>1. CASE ClientCall(c) \/ Return(c)
    BY <2>1 DEF ClientCall, CallGet, CallSet, CallFlush, Call, Return, mode
  <2>2. CASE NotifyOne(c) \/ EnqueueBegin(c) \/ EnqueueEnd(c)
    BY <2>2 DEF NotifyOne, EnqueueBegin, EnqueueEnd, mode
  <2>3. CASE Lookup(c) \/ Fetch(c) \/ FlushCopy(c) \/ FlushWrite(c)
    BY <2>3 DEF Lookup, Fetch, FlushCopy, FlushWrite, mode
  <2>. QED BY <1>1, <1>2, <2>1, <2>2, <2>3, ThreadsDistinct DEF ClientStep
<1>3. CASE BgStep
  BY <1>1, <1>3, ThreadsDistinct DEF BgStep, BgPeek, BgDequeue, BgNotifyAll, NotifyAll, mode
<1>4. CASE OwnerStep \/ Destroy \/ UNCHANGED vars
  BY <1>4 DEF OwnerStep, LockBarrier, OwnerNotifyAll, NotifyAll, Join, Destroy, vars, mode
<1>. QED BY <1>1, <1>2, <1>3, <1>4 DEF Next

LEMMA NextOneProducer ==
    ASSUME TypeOK, OneProducer, [Next]_vars, ~collided'
    PROVE  OneProducer'
<1>1. ASSUME NEW c \in Clients, EnqueueBegin(c)
      PROVE  \A d \in Clients : pc'[d] = "enq_end" => d = c
  BY <1>1, ThreadsDistinct DEF EnqueueBegin, Goto, TypeOK
<1>. QED BY <1>1, OnlyBeginEnqueues DEF OneProducer

LEMMA NextData ==
    ASSUME ~AllocFails, IInv, OneProducer, [Next]_vars
    PROVE  Data'
<1>0. Control /\ Control'
  BY NextControl DEF IInv
<1>1. ASSUME NEW c \in Clients, ClientCall(c) \/ ClientStep(c) PROVE Data'
  <2>0. op[c] # "set" \/ op[c] = "set"
    OBVIOUS
  <2>1. CASE UpdateStep(c)
    <3>1. CASE LockL2(c)
      BY <1>0, <3>1, ClientMoveData, LockSetData
    <3>. QED BY <1>0, <2>1, <3>1, ClientMoveData, WriteStorageData, PutRowData DEF UpdateStep
  <2>2. CASE CvStep(c) \/ NotifyOne(c) \/ EnqueueBegin(c)
    BY <2>2, ClientMoveData
  <2>3. CASE EnqueueEnd(c) \/ Lookup(c) \/ Fetch(c)
    BY <1>0, <2>3, EnqueueData, LookupData, FetchData
  <2>4. CASE FlushCopy(c) \/ FlushWrite(c) \/ Return(c) \/ ClientCall(c)
    BY <1>0, <2>4, FlushCopyData, FlushWriteData, ReturnData, CallData
  <2>. QED BY <1>1, <2>1, <2>2, <2>3, <2>4 DEF ClientStep
<1>2. ASSUME NEW t \in Threads, SpuriousWake(t) PROVE Data'
  <2>1. t # Owner
    BY <1>0, <1>2 DEF SpuriousWake, Control, FlowOK, OwnerLabels
  <2>. QED BY <1>2, <2>1, ClientMoveData, BgMoveData DEF Threads
<1>3. CASE BgStep
  <2>1. CASE UpdateStep(BgThread)
    BY <1>0, <2>1, BgMoveData, WriteStorageData, PutRowData DEF UpdateStep
  <2>2. CASE BgPeek
    BY <1>0, <2>2, BgMoveData, BgTakeData
  <2>. QED BY <1>0, <1>3, <2>1, <2>2, BgMoveData, BgDequeueData DEF BgStep
<1>. QED BY <1>1, <1>2, <1>3, OwnerMoveData, StutterData DEF Next, OwnerStep

-----------------------------------------------------------------------------
(* Theorems.                                                                *)

(* Until two producers have met, the routes of the calls, what each has in  *)
(* hand, the order of the versions of a row on its way to the storage, and  *)
(* that none is lost.                                                       *)
Unharmed == ~collided => IInv /\ OneProducer

(* A step from an unharmed state keeps the whole invariant, also the step   *)
(* in which the second producer arrives.                                    *)
LEMMA UnharmedStep ==
    ASSUME ~AllocFails, Unharmed, [Next]_vars, ~collided
    PROVE  IInv /\ OneProducer /\ IInv'
BY NextControl, NextData DEF Unharmed, IInv

(* The whole invariant, at every state of which no two producers have met   *)
(* inside enqueue().                                                        *)
THEOREM DataInvariance ==
    ASSUME ~AllocFails
    PROVE  Spec => [](~collided => IInv /\ OneProducer)
<1>1. Init => Control /\ Unharmed
  <2>1. Init => OneProducer
    BY ThreadsDistinct DEF Init, OneProducer
  <2>. QED BY <2>1, InitControl, InitData DEF IInv, Unharmed
<1>2. Control /\ Unharmed /\ [Next]_vars => (Control /\ Unharmed)'
  <2>. SUFFICES ASSUME Control, Unharmed, [Next]_vars PROVE (Control /\ Unharmed)'
    OBVIOUS
  <2>1. TypeOK /\ Control'
    BY NextControl DEF Control
  <2>2. ASSUME ~collided' PROVE (IInv /\ OneProducer)'
    BY <2>1, <2>2, CollisionsStay, UnharmedStep, NextOneProducer
  <2>. QED BY <2>1, <2>2 DEF Unharmed
<1>. QED BY <1>1, <1>2, PTL DEF Spec, Unharmed

(* No update is lost between the queue, the cache, the rows on their way    *)
(* out of it and the storage, until two producers have met.                 *)
THEOREM NothingLost ==
    ASSUME ~AllocFails
    PROVE  Spec => []NoRowLost
<1>1. (~collided => IInv /\ OneProducer) => NoRowLost
  BY DEF IInv, Data, NoRowLost
<1>. QED BY <1>1, DataInvariance, PTL

(* A get returns the newest rows set, whatever the cache held or evicted,   *)
(* until two producers have met.                                            *)
THEOREM GetsAreCurrent ==
    ASSUME ~AllocFails
    PROVE  Spec => []GetReadsLatest
<1>1. (~collided => IInv /\ OneProducer) => GetReadsLatest
  <2>. SUFFICES ASSUME IInv, NEW c \in Clients, op[c] = "get", pc[c] = "ret", NEW k \in keys[c]
                PROVE  got[c][k] = latest[k]
    BY DEF GetReadsLatest
  <2>1. k \in Keys /\ AnswerOf(c) /\ Read(c)
    BY DEF IInv, Control, Data, TypeOK, Calls, Read
  <2>. QED BY <2>1 DEF AnswerOf
<1>. QED BY <1>1, DataInvariance, PTL

(* When a flush returns, the storage has the newest row of every index,     *)
(* until two producers have met.                                            *)
THEOREM FlushesAreComplete ==
    ASSUME ~AllocFails
    PROVE  Spec => []FlushComplete
<1>1. (~collided => IInv /\ OneProducer) => FlushComplete
  BY DEF IInv, Data, Calls, FlushOf, FlushComplete
<1>. QED BY <1>1, DataInvariance, PTL

LEMMA StorageSteps ==
    ASSUME Control, [Next]_vars
    PROVE  \/ storage' = storage
           \/ \E t \in Clients \cup {BgThread} : WriteStorage(t)
           \/ \E c \in Clients : FlushWrite(c)
<1>1. ASSUME NEW t \in Threads, CvStep(t) \/ SpuriousWake(t) PROVE storage' = storage
  BY <1>1 DEF CvStep, CvLock, CvCheck, CvSleep, LockBarrier, SpuriousWake, data
<1>2. ASSUME NEW t \in Clients \cup {BgThread}, UpdateStep(t)
      PROVE  storage' = storage \/ WriteStorage(t)
  BY <1>2 DEF UpdateStep, LockL2, PutDone, UnlockL2, PutRow, data
<1>3. ASSUME NEW c \in Clients, ClientCall(c) \/ ClientStep(c)
      PROVE  storage' = storage \/ WriteStorage(c) \/ FlushWrite(c)
  <2>1. CASE ClientCall(c) \/ Return(c)
    BY <2>1 DEF ClientCall, CallGet, CallSet, CallFlush, Call, Return, data
  <2>2. CASE NotifyOne(c) \/ EnqueueBegin(c) \/ EnqueueEnd(c)
    BY <2>2 DEF NotifyOne, EnqueueBegin, EnqueueEnd, data
  <2>3. CASE Lookup(c) \/ Fetch(c) \/ FlushCopy(c)
    BY <2>3 DEF Lookup, Fetch, FlushCopy, data
  <2>. QED BY <1>1, <1>2, <1>3, <2>1, <2>2, <2>3, ThreadsDistinct DEF ClientStep
<1>4. CASE BgStep
  BY <1>1, <1>2, <1>4, ThreadsDistinct DEF BgStep, BgPeek, BgDequeue, BgNotifyAll, NotifyAll, data
<1>5. CASE OwnerStep \/ Destroy \/ UNCHANGED vars
  BY <1>5 DEF OwnerStep, LockBarrier, OwnerNotifyAll, NotifyAll, Join, Destroy, vars, data
<1>. QED BY <1>1, <1>3, <1>4, <1>5 DEF Next

LEMMA StorageAdvances ==
    ASSUME IInv, [Next]_vars, NEW k \in Keys
    PROVE  storage[k] <= storage'[k] /\ storage'[k] <= latest[k]
<1>. USE DEF IInv, Data, Control
<1>0. /\ storage[k] \in Int /\ latest[k] \in Int /\ latest[k] # Absent
      /\ evicted[k] \in Int /\ l2[k] \in Int
  BY DEF TypeOK, Batch, Version, Absent
<1>1. /\ storage[k] <= latest[k]
      /\ evicted[k] # Absent => storage[k] <= evicted[k] /\ evicted[k] <= latest[k]
  BY <1>0 DEF Ordered, OrderOf, Stored
<1>2. ASSUME NEW t \in Clients \cup {BgThread}, WriteStorage(t)
      PROVE  storage[k] <= storage'[k] /\ storage'[k] <= latest[k]
  <2>1. storage'[k] = IF ToStorage(t)[k] = Absent THEN storage[k] ELSE ToStorage(t)[k]
    BY <1>2 DEF WriteStorage, Overwrite
  <2>2. CASE HasL2
    BY <1>0, <1>1, <2>1, <2>2 DEF ToStorage
  <2>3. CASE ~HasL2
    <3>1. Stored(k) = storage[k]
      BY <2>3 DEF Clean, NoRows, Stored
    <3>2. rows[t][k] # Absent => storage[k] <= rows[t][k] /\ rows[t][k] <= latest[k]
      BY <1>2, <3>1, BatchRows DEF WriteStorage, Updating
    <3>. QED BY <1>0, <1>1, <2>1, <2>3, <3>2 DEF ToStorage
  <2>. QED BY <2>2, <2>3
<1>3. ASSUME NEW c \in Clients, FlushWrite(c)
      PROVE  storage[k] <= storage'[k] /\ storage'[k] <= latest[k]
  <2>1. op[c] = "flush" /\ rows[c][k] \in {Absent, latest[k]}
    BY <1>3 DEF FlushWrite, FlowOK, FlushLabels, Calls, FlushOf
  <2>2. storage'[k] = IF rows[c][k] = Absent THEN storage[k] ELSE rows[c][k]
    BY <1>3 DEF FlushWrite, Overwrite
  <2>. QED BY <1>0, <1>1, <2>1, <2>2
<1>. QED BY <1>0, <1>1, <1>2, <1>3, StorageSteps

(* Neither a late eviction nor a write-back of what a get had read puts an  *)
(* older row over a newer one in the storage, until two producers have met. *)
THEOREM StorageAdvancesOnly ==
    ASSUME ~AllocFails
    PROVE  Spec => StorageNeverRegresses
<1>1. /\ (~collided => IInv /\ OneProducer) /\ [Next]_vars
      => [~collided => \A k \in Keys : storage'[k] >= storage[k]]_vars
  <2>. SUFFICES ASSUME IInv, [Next]_vars, NEW k \in Keys PROVE storage'[k] >= storage[k]
    OBVIOUS
  <2>1. storage'[k] \in Int /\ storage[k] \in Int
    BY NextControl DEF IInv, Control, TypeOK, Version
  <2>. QED BY <2>1, StorageAdvances
<1>. QED BY <1>1, DataInvariance, PTL DEF Spec, StorageNeverRegresses

-----------------------------------------------------------------------------
(* EmbeddingKVDB implements KVStore.                                        *)

(* What KVStore sees of a call.                                             *)
ArgsOf(c)      == IF op[c] = "flush" THEN {} ELSE keys[c]
PendingRows(c) == IF op[c] = "set" /\ ~Effective(c) THEN rows[c] ELSE NoRows
ReplyRows(c)   == IF op[c] = "get" /\ Effective(c) THEN got[c] ELSE NoRows

SameView(c) == /\ op'[c] = op[c] /\ (Effective(c)' <=> Effective(c))
               /\ ArgsOf(c)' = ArgsOf(c)
               /\ PendingRows(c)' = PendingRows(c) /\ ReplyRows(c)' = ReplyRows(c)

(* A step of thread t leaves the calls of the others as they are, or wakes  *)
(* them.                                                                    *)
Only(t) == \A d \in Clients \ {t} :
              /\ op'[d] = op[d] /\ keys'[d] = keys[d] /\ rows'[d] = rows[d] /\ got'[d] = got[d]
              /\ pc'[d] = pc[d] \/ (pc[d] = "cv_wait" /\ pc'[d] = "cv_lock")

LEMMA OnlyView ==
    ASSUME NEW t, Only(t), NEW d \in Clients, d # t
    PROVE  SameView(d)
BY DEF Only, SameView, ArgsOf, PendingRows, ReplyRows, Effective

LEMMA EffectiveType ==
    ASSUME NEW c \in Clients PROVE Effective(c) \in BOOLEAN /\ Effective(c)' \in BOOLEAN
BY DEF Effective

(* The abstract variables when only the call of c changes.                  *)
LEMMA OneView ==
    ASSUME TypeOK, TypeOK', NEW c \in Clients, \A d \in Clients \ {c} : SameView(d)
    PROVE  /\ op' = [op EXCEPT ![c] = op'[c]]
           /\ [d \in Clients |-> Effective(d)]' =
                 [[d \in Clients |-> Effective(d)] EXCEPT ![c] = Effective(c)']
           /\ [d \in Clients |-> ArgsOf(d)]' = [[d \in Clients |-> ArgsOf(d)] EXCEPT ![c] = ArgsOf(c)']
           /\ [d \in Clients |-> PendingRows(d)]' =
                 [[d \in Clients |-> PendingRows(d)] EXCEPT ![c] = PendingRows(c)']
           /\ [d \in Clients |-> ReplyRows(d)]' =
                 [[d \in Clients |-> ReplyRows(d)] EXCEPT ![c] = ReplyRows(c)']
<1>1. op' = [op EXCEPT ![c] = op'[c]]
  BY DEF TypeOK, SameView
<1>2. \A d \in Clients \ {c} : /\ Effective(d)' = Effective(d) /\ ArgsOf(d)' = ArgsOf(d)
                               /\ PendingRows(d)' = PendingRows(d) /\ ReplyRows(d)' = ReplyRows(d)
  BY EffectiveType DEF SameView
<1>. QED BY <1>1, <1>2

LEMMA SilentStep ==
    ASSUME IInv, IInv', [Next]_vars, \A c \in Clients : SameView(c), latest' = latest
    PROVE  [Abstract!Next]_Abstract!vars
<1>0. TypeOK /\ TypeOK'
  BY DEF IInv, Control
<1>1. /\ op' = op
      /\ [d \in Clients |-> Effective(d)]' = [d \in Clients |-> Effective(d)]
      /\ [d \in Clients |-> ArgsOf(d)]' = [d \in Clients |-> ArgsOf(d)]
      /\ [d \in Clients |-> PendingRows(d)]' = [d \in Clients |-> PendingRows(d)]
      /\ [d \in Clients |-> ReplyRows(d)]' = [d \in Clients |-> ReplyRows(d)]
  <2>1. op' = op
    BY <1>0 DEF TypeOK, SameView
  <2>2. \A d \in Clients : /\ Effective(d)' = Effective(d) /\ ArgsOf(d)' = ArgsOf(d)
                           /\ PendingRows(d)' = PendingRows(d) /\ ReplyRows(d)' = ReplyRows(d)
    BY EffectiveType DEF SameView
  <2>. QED BY <2>1, <2>2
<1>2. CASE storage' = storage
  BY <1>1, <1>2 DEF Abstract!vars, ArgsOf, PendingRows, ReplyRows
<1>3. CASE storage' # storage
  <2>1. \A k \in Keys : storage[k] <= storage'[k] /\ storage'[k] <= latest[k]
    BY StorageAdvances
  <2>2. DOMAIN storage' = Keys
    BY <1>0 DEF TypeOK
  <2>3. Abstract!Persist
    BY <1>1, <1>3, <2>1, <2>2 DEF Abstract!Persist, ArgsOf, PendingRows, ReplyRows
  <2>. QED BY <2>3 DEF Abstract!Next
<1>. QED BY <1>2, <1>3

LEMMA OnlyOneMoves ==
    ASSUME TypeOK
    PROVE  /\ \A c \in Clients : ClientCall(c) \/ ClientStep(c) => Only(c)
           /\ \A t \in Threads : SpuriousWake(t) => Only(t)
           /\ BgStep => Only(BgThread)
           /\ OwnerStep \/ Destroy => Only(Owner)
<1>0. Clients \subseteq Threads /\ BgThread \in Threads /\ Owner \in Threads
  BY ThreadsDistinct
<1>1. ASSUME NEW t \in Threads, NEW to, Wakes(t, to), UNCHANGED <<op, keys, rows, got>>
      PROVE  Only(t)
  BY <1>0, <1>1 DEF Wakes, Only, Waiting
<1>2. ASSUME NEW t \in Threads, CvStep(t) \/ SpuriousWake(t) PROVE Only(t)
  BY <1>0, <1>2 DEF CvStep, CvLock, CvCheck, CvSleep, LockBarrier, SpuriousWake, Goto, Only, TypeOK
<1>3. ASSUME NEW t \in Threads, UpdateStep(t) PROVE Only(t)
  BY <1>0, <1>3 DEF UpdateStep, LockL2, PutDone, WriteStorage, UnlockL2, PutRow, Goto, Only, TypeOK
<1>4. ASSUME NEW c \in Clients, ClientCall(c) \/ ClientStep(c) PROVE Only(c)
  <2>1. CASE ClientCall(c) \/ Return(c)
    BY <1>0, <2>1 DEF ClientCall, CallGet, CallSet, CallFlush, Call, Return, Goto, Only, TypeOK
  <2>2. CASE NotifyOne(c)
    <3>1. pc[c] # "cv_wait" /\ UNCHANGED <<op, keys, rows, got>>
      BY <2>2 DEF NotifyOne
    <3>2. \A d \in Clients \ {c} : pc'[d] = pc[d] \/ (pc[d] = "cv_wait" /\ pc'[d] = "cv_lock")
      BY <1>0, <2>2 DEF NotifyOne, Waiting, Goto, TypeOK
    <3>. QED BY <3>1, <3>2 DEF Only
  <2>3. CASE EnqueueBegin(c) \/ EnqueueEnd(c) \/ Lookup(c) \/ Fetch(c)
    BY <1>0, <2>3 DEF EnqueueBegin, EnqueueEnd, Lookup, Fetch, Goto, Only, TypeOK
  <2>4. CASE FlushCopy(c) \/ FlushWrite(c)
    BY <1>0, <2>4 DEF FlushCopy, FlushWrite, Goto, Only, TypeOK
  <2>. QED BY <1>0, <1>2, <1>3, <1>4, <2>1, <2>2, <2>3, <2>4 DEF ClientStep
<1>5. ASSUME BgStep PROVE Only(BgThread)
  <2>1. CASE BgPeek \/ BgDequeue
    BY <1>0, <2>1 DEF BgPeek, BgDequeue, Goto, Only, TypeOK
  <2>2. CASE BgNotifyAll
    BY <1>0, <1>1, <2>2 DEF BgNotifyAll, NotifyAll, Wakes
  <2>. QED BY <1>0, <1>2, <1>3, <1>5, <2>1, <2>2 DEF BgStep
<1>6. ASSUME OwnerStep \/ Destroy PROVE Only(Owner)
  <2>1. CASE OwnerNotifyAll
    BY <1>0, <1>1, <2>1 DEF OwnerNotifyAll, NotifyAll, Wakes
  <2>. QED BY <1>0, <1>6, <2>1 DEF OwnerStep, LockBarrier, Join, Destroy, Goto, Only, TypeOK
<1>. QED BY <1>2, <1>4, <1>5, <1>6

(* The steps of a call that its caller, and KVStore, do not see.            *)
LEMMA InnerStep ==
    ASSUME IInv, NEW c \in Clients,
           \/ CvStep(c) \/ SpuriousWake(c) \/ EnqueueBegin(c) \/ NotifyOne(c)
           \/ Lookup(c) \/ Fetch(c) \/ PutDone(c) \/ WriteStorage(c) \/ FlushWrite(c)
           \/ \E k \in Keys : PutRow(c, k)
           \/ (LockL2(c) \/ EnqueueEnd(c)) /\ op[c] # "set"
           \/ UnlockL2(c) /\ op[c] # "get"
           \/ FlushCopy(c) /\ pc'[c] # "ret"
    PROVE  SameView(c) /\ latest' = latest
<1>. USE DEF IInv, Data, Control
<1>0. c \in Threads /\ c # BgThread /\ RouteOf(c)
  BY ThreadsDistinct DEF Routes
<1>1. CASE CvStep(c) \/ SpuriousWake(c)
  <2>1. /\ UNCHANGED <<op, keys, rows, got, latest>> /\ pc'[c] # "ret"
        /\ pc[c] \in CvLabels \cup {"barrier"} /\ pc'[c] \in CvLabels \cup {"lock", "copy", "notify"}
        /\ op[c] = "set" => pc[c] = "barrier" /\ pc'[c] = "notify"
    BY <1>0, <1>1 DEF CvStep, CvLock, CvCheck, CvSleep, LockBarrier, SpuriousWake, Goto, TypeOK, ghost,
       AfterWait, CvLabels, FlowOK
  <2>. QED BY <2>1 DEF SameView, Effective, ArgsOf, PendingRows, ReplyRows, CvLabels
<1>2. CASE EnqueueBegin(c) \/ NotifyOne(c)
  <2>1. /\ UNCHANGED <<op, keys, rows, got, latest>> /\ op[c] \in {"get", "set"}
        /\ \/ pc[c] = "enq" /\ pc'[c] = "enq_end"
           \/ pc[c] = "notify" /\ pc'[c] = IF op[c] = "get" THEN "unlock" ELSE "ret"
    <3>1. ASSUME NotifyOne(c) PROVE pc'[c] = IF op[c] = "get" THEN "unlock" ELSE "ret"
      <4>1. pc[c] = "notify" /\ c \notin Waiting
        BY <3>1 DEF NotifyOne, Waiting
      <4>. QED BY <1>0, <3>1, <4>1 DEF NotifyOne, Goto, TypeOK
    <3>2. pc[c] \in {"enq", "notify"} => op[c] \in {"get", "set"}
      BY <1>0 DEF FlowOK, RouteOf, TypeOK, FlushLabels, CvLabels
    <3>. QED BY <1>0, <1>2, <3>1, <3>2 DEF EnqueueBegin, NotifyOne, Goto, TypeOK, ghost
  <2>. QED BY <2>1 DEF SameView, Effective, ArgsOf, PendingRows, ReplyRows
<1>3. CASE Lookup(c) \/ Fetch(c) \/ ((LockL2(c) \/ EnqueueEnd(c)) /\ op[c] # "set")
  <2>1. /\ UNCHANGED <<op, keys, latest>> /\ op[c] = "get" /\ pc[c] # "ret" /\ pc'[c] # "ret"
    BY <1>0, <1>3 DEF Lookup, Fetch, LockL2, EnqueueEnd, Goto, TypeOK, ghost, FlowOK, GetLabels
  <2>. QED BY <2>1 DEF SameView, Effective, ArgsOf, PendingRows, ReplyRows
<1>4. CASE PutDone(c) \/ WriteStorage(c) \/ (UnlockL2(c) /\ op[c] # "get") \/ \E k \in Keys : PutRow(c, k)
  <2>1. /\ UNCHANGED <<op, keys, got, latest>> /\ op[c] \in {"get", "set"}
        /\ pc[c] \in {"put", "write", "unlock"} /\ pc'[c] \in {"put", "write", "unlock", "ret"}
        /\ op[c] = "get" => pc'[c] # "ret"
    <3>1. pc[c] \in {"put", "write", "unlock"} => op[c] \in {"get", "set"}
      BY <1>0 DEF FlowOK, RouteOf, TypeOK, FlushLabels, CvLabels
    <3>. QED BY <1>0, <1>4, <3>1 DEF PutDone, WriteStorage, UnlockL2, PutRow, Goto, TypeOK, ghost
  <2>. QED BY <2>1 DEF SameView, Effective, ArgsOf, PendingRows, ReplyRows
<1>5. CASE FlushWrite(c) \/ (FlushCopy(c) /\ pc'[c] # "ret")
  <2>1. UNCHANGED <<op, got, latest>> /\ op[c] = "flush" /\ pc[c] # "ret" /\ pc'[c] # "ret"
    BY <1>0, <1>5 DEF FlushWrite, FlushCopy, Goto, TypeOK, ghost, FlowOK, FlushLabels
  <2>. QED BY <2>1 DEF SameView, Effective, ArgsOf, PendingRows, ReplyRows
<1>. QED BY <1>1, <1>2, <1>3, <1>4, <1>5

(* The steps it sees: the request, the effect and the reply of a call.      *)
LEMMA RequestStep ==
    ASSUME IInv, IInv', NEW c \in Clients, ClientCall(c)
    PROVE  Abstract!Next
<1>. USE DEF IInv, Data, Control
<1>0. c \in Threads /\ op[c] = "none"
  BY ThreadsDistinct DEF ClientCall, CallGet, CallSet, CallFlush, Call, MayCall, FlowOK
<1>1. \A d \in Clients \ {c} : SameView(d)
  BY OnlyOneMoves, OnlyView
<1>2. UNCHANGED <<storage, latest>>
  BY DEF ClientCall, CallGet, CallSet, CallFlush, Call, data
<1>3. ~Effective(c) /\ ReplyRows(c) = NoRows
  BY <1>0 DEF Effective, ReplyRows
<1>4. ASSUME NEW kind \in {"get", "set", "flush"}, NEW K \in SUBSET Keys, NEW batch,
             op' = [op EXCEPT ![c] = kind], ~Effective(c)',
             ArgsOf(c)' = K, PendingRows(c)' = batch, ReplyRows(c)' = NoRows
      PROVE  Abstract!Request(c, kind, K, batch)
  <2>1. /\ op[c] = "none" /\ op' = [op EXCEPT ![c] = kind]
        /\ [d \in Clients |-> ArgsOf(d)]' = [[d \in Clients |-> ArgsOf(d)] EXCEPT ![c] = K]
        /\ [d \in Clients |-> PendingRows(d)]' = [[d \in Clients |-> PendingRows(d)] EXCEPT ![c] = batch]
    BY <1>0, <1>1, <1>4, OneView
  <2>2. [d \in Clients |-> Effective(d)]' = [d \in Clients |-> Effective(d)]
    <3>1. Effective(c)' = Effective(c)
      BY <1>3, <1>4, EffectiveType
    <3>. QED BY <1>1, <3>1, OneView
  <2>3. [d \in Clients |-> ReplyRows(d)]' = [d \in Clients |-> ReplyRows(d)]
    BY <1>1, <1>3, <1>4, OneView
  <2>. QED BY <1>2, <2>1, <2>2, <2>3 DEF Abstract!Request, ArgsOf, PendingRows, ReplyRows
<1>5. ASSUME NEW K \in SUBSET Keys, CallGet(c, K) PROVE Abstract!Request(c, "get", K, NoRows)
  <2>1. op' = [op EXCEPT ![c] = "get"] /\ op'[c] = "get" /\ keys'[c] = K /\ pc'[c] # "ret"
    BY <1>0, <1>5 DEF CallGet, Call, Goto, TypeOK
  <2>2. ~Effective(c)' /\ ArgsOf(c)' = K /\ PendingRows(c)' = NoRows /\ ReplyRows(c)' = NoRows
    BY <2>1 DEF Effective, ArgsOf, PendingRows, ReplyRows
  <2>. QED BY <1>4, <2>1, <2>2
<1>6. ASSUME CallFlush(c) PROVE Abstract!Request(c, "flush", {}, NoRows)
  <2>1. op' = [op EXCEPT ![c] = "flush"] /\ op'[c] = "flush" /\ pc'[c] # "ret"
    BY <1>0, <1>6 DEF CallFlush, Call, Goto, TypeOK
  <2>2. ~Effective(c)' /\ ArgsOf(c)' = {} /\ PendingRows(c)' = NoRows /\ ReplyRows(c)' = NoRows
    BY <2>1 DEF Effective, ArgsOf, PendingRows, ReplyRows
  <2>. QED BY <1>4, <2>1, <2>2
<1>7. ASSUME NEW K \in SUBSET Keys, CallSet(c, K)
      PROVE  \E v \in 1..MaxVersion :
                Abstract!Request(c, "set", K, Abstract!Select([k \in Keys |-> v], K))
  <2>1. PICK v \in 1..MaxVersion : v = version + 1
    BY <1>7, ConstantsAssumption DEF CallSet, TypeOK, Version
  <2>2. /\ op' = [op EXCEPT ![c] = "set"] /\ op'[c] = "set" /\ pc'[c] \in {"enq", "lock"} /\ keys'[c] = K
        /\ rows'[c] = Pick([k \in Keys |-> version + 1], K)
    BY <1>0, <1>7 DEF CallSet, Call, Goto, TypeOK
  <2>3. rows'[c] = Abstract!Select([k \in Keys |-> v], K)
    BY <2>1, <2>2 DEF Pick, Abstract!Select
  <2>4. /\ ~Effective(c)' /\ ArgsOf(c)' = K /\ ReplyRows(c)' = NoRows
        /\ PendingRows(c)' = Abstract!Select([k \in Keys |-> v], K)
    BY <2>2, <2>3 DEF Effective, ArgsOf, PendingRows, ReplyRows
  <2>5. Abstract!Request(c, "set", K, Abstract!Select([k \in Keys |-> v], K))
    BY <1>4, <2>2, <2>4
  <2>. QED BY <2>5
<1>8. Abstract!NoRows = NoRows
  BY DEF Abstract!NoRows, NoRows
<1>9. CASE \E K \in SUBSET Keys : CallGet(c, K) \/ CallSet(c, K)
  <2>1. PICK K \in SUBSET Keys : CallGet(c, K) \/ CallSet(c, K)
    BY <1>9
  <2>2. CASE CallGet(c, K)
    <3>1. Abstract!Request(c, "get", K, Abstract!NoRows)
      BY <1>5, <1>8, <2>2
    <3>. QED BY <3>1 DEF Abstract!Next
  <2>3. CASE CallSet(c, K)
    <3>1. PICK v \in 1..MaxVersion : Abstract!Request(c, "set", K, Abstract!Select([k \in Keys |-> v], K))
      BY <1>7, <2>3
    <3>. QED BY <3>1 DEF Abstract!Next
  <2>. QED BY <2>1, <2>2, <2>3
<1>10. CASE CallFlush(c)
  <2>1. Abstract!Request(c, "flush", {}, Abstract!NoRows)
    BY <1>6, <1>8, <1>10
  <2>2. {} \in SUBSET Keys
    OBVIOUS
  <2>. QED BY <2>1, <2>2 DEF Abstract!Next
<1>. QED BY <1>9, <1>10 DEF ClientCall

LEMMA SetStep ==
    ASSUME IInv, IInv', OneProducer, NEW c \in Clients, op[c] = "set", LockL2(c) \/ EnqueueEnd(c)
    PROVE  Abstract!Set(c)
<1>. USE DEF IInv, Data, Control
<1>0. c \in Threads /\ Due(c)
  BY ThreadsDistinct DEF Due, LockL2, EnqueueEnd
<1>1. \A d \in Clients \ {c} : SameView(d)
  BY OnlyOneMoves, OnlyView DEF ClientStep, UpdateStep
<1>2. /\ UNCHANGED <<op, keys, storage>> /\ latest' = Overwrite(latest, rows[c])
      /\ pc[c] \in {"lock", "enq_end"} /\ pc'[c] \in {"put", "barrier"}
  BY <1>0 DEF LockL2, EnqueueEnd, Goto, TypeOK, data
<1>3. /\ ~Effective(c) /\ Effective(c)' /\ ArgsOf(c)' = ArgsOf(c) /\ ArgsOf(c) = keys[c]
      /\ PendingRows(c) = rows[c] /\ PendingRows(c)' = NoRows /\ ReplyRows(c)' = ReplyRows(c)
  BY <1>2 DEF Effective, ArgsOf, PendingRows, ReplyRows
<1>4. latest' = [k \in Keys |-> IF k \in keys[c] THEN rows[c][k] ELSE latest[k]]
  <2>1. \A k \in Keys : rows[c][k] = Absent <=> k \notin keys[c]
    <3>1. \A k \in Keys : /\ k \in keys[c] => latest[k] < rows[c][k]
                          /\ k \notin keys[c] => rows[c][k] = Absent
      BY <1>0 DEF Calls, PendingOf
    <3>. QED BY <1>0, <3>1 DEF TypeOK, Version, Absent, Batch
  <2>. QED BY <1>2, <2>1 DEF Overwrite
<1>5. /\ [d \in Clients |-> Effective(d)]' = [[d \in Clients |-> Effective(d)] EXCEPT ![c] = TRUE]
      /\ [d \in Clients |-> ArgsOf(d)]' = [d \in Clients |-> ArgsOf(d)]
      /\ [d \in Clients |-> PendingRows(d)]' = [[d \in Clients |-> PendingRows(d)] EXCEPT ![c] = NoRows]
      /\ [d \in Clients |-> ReplyRows(d)]' = [d \in Clients |-> ReplyRows(d)]
  <2>1. Effective(c)' = TRUE
    BY <1>3, EffectiveType
  <2>. QED BY <1>1, <1>3, <2>1, OneView
<1>6. op[c] = "set" /\ ~[d \in Clients |-> Effective(d)][c]
  BY <1>3
<1>7. /\ [d \in Clients |-> ArgsOf(d)][c] = keys[c] /\ [d \in Clients |-> PendingRows(d)][c] = rows[c]
      /\ Abstract!NoRows = NoRows
  BY <1>3 DEF Abstract!NoRows, NoRows
<1>. QED BY <1>2, <1>4, <1>5, <1>6, <1>7 DEF Abstract!Set, ArgsOf, PendingRows, ReplyRows

LEMMA GetStep ==
    ASSUME IInv, IInv', NEW c \in Clients, op[c] = "get", UnlockL2(c)
    PROVE  Abstract!Get(c)
<1>. USE DEF IInv, Data, Control
<1>0. c \in Threads /\ c # BgThread
  BY ThreadsDistinct
<1>1. \A d \in Clients \ {c} : SameView(d)
  BY OnlyOneMoves, OnlyView DEF ClientStep, UpdateStep
<1>2. /\ UNCHANGED <<op, keys, rows, got, storage, latest>> /\ pc[c] = "unlock" /\ pc'[c] = "ret"
  BY <1>0 DEF UnlockL2, Goto, TypeOK, data, ghost
<1>3. got[c] = Abstract!Select(latest, keys[c])
  <2>1. \A k \in Keys : got[c][k] = IF k \in keys[c] THEN latest[k] ELSE Absent
    BY <1>2 DEF Calls, AnswerOf, Read
  <2>. QED BY <2>1 DEF TypeOK, Batch, Abstract!Select
<1>4. /\ ~Effective(c) /\ Effective(c)' /\ ArgsOf(c)' = ArgsOf(c) /\ ArgsOf(c) = keys[c]
      /\ PendingRows(c)' = PendingRows(c) /\ ReplyRows(c)' = got[c]
  BY <1>2 DEF Effective, ArgsOf, PendingRows, ReplyRows
<1>5. /\ [d \in Clients |-> Effective(d)]' = [[d \in Clients |-> Effective(d)] EXCEPT ![c] = TRUE]
      /\ [d \in Clients |-> ArgsOf(d)]' = [d \in Clients |-> ArgsOf(d)]
      /\ [d \in Clients |-> PendingRows(d)]' = [d \in Clients |-> PendingRows(d)]
      /\ [d \in Clients |-> ReplyRows(d)]' =
            [[d \in Clients |-> ReplyRows(d)] EXCEPT ![c] = Abstract!Select(latest, keys[c])]
  <2>1. Effective(c)' = TRUE
    BY <1>4, EffectiveType
  <2>. QED BY <1>1, <1>3, <1>4, <2>1, OneView
<1>6. ~[d \in Clients |-> Effective(d)][c] /\ [d \in Clients |-> ArgsOf(d)][c] = keys[c]
  BY <1>4
<1>. QED BY <1>2, <1>5, <1>6 DEF Abstract!Get, ArgsOf, PendingRows, ReplyRows

LEMMA FlushStep ==
    ASSUME IInv, IInv', NEW c \in Clients, FlushCopy(c), pc'[c] = "ret"
    PROVE  Abstract!Flush(c)
<1>. USE DEF IInv, Data, Control
<1>0. c \in Threads
  BY ThreadsDistinct
<1>1. \A d \in Clients \ {c} : SameView(d)
  BY OnlyOneMoves, OnlyView DEF ClientStep
<1>2. UNCHANGED <<op, got, storage, latest>> /\ pc[c] = "copy" /\ op[c] = "flush"
  BY DEF FlushCopy, FlowOK, FlushLabels, data, ghost
<1>3. storage = latest
  <2>1. storage' = latest'
    BY <1>2 DEF Calls, FlushOf
  <2>. QED BY <1>2, <2>1
<1>4. /\ ~Effective(c) /\ Effective(c)' /\ ArgsOf(c)' = ArgsOf(c)
      /\ PendingRows(c)' = PendingRows(c) /\ ReplyRows(c)' = ReplyRows(c)
  BY <1>2 DEF Effective, ArgsOf, PendingRows, ReplyRows
<1>5. /\ [d \in Clients |-> Effective(d)]' = [[d \in Clients |-> Effective(d)] EXCEPT ![c] = TRUE]
      /\ [d \in Clients |-> ArgsOf(d)]' = [d \in Clients |-> ArgsOf(d)]
      /\ [d \in Clients |-> PendingRows(d)]' = [d \in Clients |-> PendingRows(d)]
      /\ [d \in Clients |-> ReplyRows(d)]' = [d \in Clients |-> ReplyRows(d)]
  <2>1. Effective(c)' = TRUE
    BY <1>4, EffectiveType
  <2>. QED BY <1>1, <1>4, <2>1, OneView
<1>6. ~[d \in Clients |-> Effective(d)][c]
  BY <1>4
<1>. QED BY <1>2, <1>3, <1>5, <1>6 DEF Abstract!Flush, ArgsOf, PendingRows, ReplyRows

LEMMA ReplyStep ==
    ASSUME IInv, IInv', NEW c \in Clients, Return(c)
    PROVE  Abstract!Reply(c)
<1>. USE DEF IInv, Data, Control
<1>0. c \in Threads
  BY ThreadsDistinct
<1>1. \A d \in Clients \ {c} : SameView(d)
  BY OnlyOneMoves, OnlyView DEF ClientStep
<1>2. /\ UNCHANGED <<storage, latest>> /\ pc[c] = "ret" /\ op[c] # "none"
      /\ op' = [op EXCEPT ![c] = "none"] /\ op'[c] = "none" /\ keys'[c] = {}
  BY DEF Return, FlowOK, data, ghost, TypeOK
<1>3. /\ Effective(c) /\ ~Effective(c)' /\ ArgsOf(c)' = {}
      /\ PendingRows(c)' = PendingRows(c) /\ ReplyRows(c)' = NoRows
  BY <1>2 DEF Effective, ArgsOf, PendingRows, ReplyRows, TypeOK
<1>4. /\ [d \in Clients |-> Effective(d)]' = [[d \in Clients |-> Effective(d)] EXCEPT ![c] = FALSE]
      /\ [d \in Clients |-> ArgsOf(d)]' = [[d \in Clients |-> ArgsOf(d)] EXCEPT ![c] = {}]
      /\ [d \in Clients |-> PendingRows(d)]' = [d \in Clients |-> PendingRows(d)]
      /\ [d \in Clients |-> ReplyRows(d)]' = [[d \in Clients |-> ReplyRows(d)] EXCEPT ![c] = NoRows]
  <2>1. Effective(c)' = FALSE
    BY <1>3, EffectiveType
  <2>. QED BY <1>1, <1>3, <2>1, OneView
<1>5. [d \in Clients |-> Effective(d)][c] /\ Abstract!NoRows = NoRows
  BY <1>3 DEF Abstract!NoRows, NoRows
<1>. QED BY <1>2, <1>4, <1>5 DEF Abstract!Reply, ArgsOf, PendingRows, ReplyRows

LEMMA StepImplements ==
    ASSUME IInv, IInv', OneProducer, [Next]_vars
    PROVE  [Abstract!Next]_Abstract!vars
<1>0. TypeOK /\ Control
  BY DEF IInv, Control
<1>1. ASSUME NEW c \in Clients, SameView(c), Only(c), latest' = latest
      PROVE  [Abstract!Next]_Abstract!vars
  <2>1. \A d \in Clients : SameView(d)
    BY <1>1, OnlyView
  <2>. QED BY <1>1, <2>1, SilentStep
<1>2. ASSUME NEW t \in {BgThread, Owner}, Only(t), latest' = latest
      PROVE  [Abstract!Next]_Abstract!vars
  <2>1. \A d \in Clients : SameView(d)
    BY <1>2, OnlyView, ThreadsDistinct
  <2>. QED BY <1>2, <2>1, SilentStep
<1>3. ASSUME NEW c \in Clients, ClientCall(c) \/ ClientStep(c)
      PROVE  [Abstract!Next]_Abstract!vars
  <2>1. Only(c)
    BY <1>0, <1>3, OnlyOneMoves
  <2>2. CASE ClientCall(c)
    BY <2>2, RequestStep
  <2>3. CASE (LockL2(c) \/ EnqueueEnd(c)) /\ op[c] = "set"
    BY <2>3, SetStep DEF Abstract!Next
  <2>4. CASE UnlockL2(c) /\ op[c] = "get"
    BY <2>4, GetStep DEF Abstract!Next
  <2>5. CASE FlushCopy(c) /\ pc'[c] = "ret"
    BY <2>5, FlushStep DEF Abstract!Next
  <2>6. CASE Return(c)
    BY <2>6, ReplyStep DEF Abstract!Next
  <2>7. CASE \/ CvStep(c) \/ EnqueueBegin(c) \/ NotifyOne(c)
             \/ Lookup(c) \/ Fetch(c) \/ PutDone(c) \/ WriteStorage(c) \/ FlushWrite(c)
             \/ \E k \in Keys : PutRow(c, k)
             \/ (LockL2(c) \/ EnqueueEnd(c)) /\ op[c] # "set"
             \/ UnlockL2(c) /\ op[c] # "get"
             \/ FlushCopy(c) /\ pc'[c] # "ret"
    <3>1. SameView(c) /\ latest' = latest
      BY <2>7, InnerStep
    <3>. QED BY <1>1, <2>1, <3>1
  <2>. QED BY <1>3, <2>2, <2>3, <2>4, <2>5, <2>6, <2>7 DEF ClientStep, UpdateStep
<1>4. ASSUME NEW t \in Threads, SpuriousWake(t) PROVE [Abstract!Next]_Abstract!vars
  <2>1. Only(t) /\ latest' = latest
    BY <1>0, <1>4, OnlyOneMoves DEF SpuriousWake, ghost
  <2>2. CASE t \in Clients
    BY <1>1, <1>4, <2>1, <2>2, InnerStep
  <2>. QED BY <1>2, <2>1, <2>2 DEF Threads
<1>5. CASE BgStep
  <2>1. latest' = latest
    BY <1>5, ThreadsDistinct DEF BgStep, CvStep, CvLock, CvCheck, CvSleep, LockBarrier, UpdateStep, LockL2,
       PutDone, WriteStorage, UnlockL2, PutRow, BgPeek, BgDequeue, BgNotifyAll, NotifyAll, ghost
  <2>. QED BY <1>0, <1>2, <1>5, <2>1, OnlyOneMoves
<1>6. CASE OwnerStep \/ Destroy
  <2>1. latest' = latest
    BY <1>6 DEF OwnerStep, LockBarrier, OwnerNotifyAll, NotifyAll, Join, Destroy, ghost
  <2>. QED BY <1>0, <1>2, <1>6, <2>1, OnlyOneMoves
<1>7. CASE UNCHANGED vars
  <2>1. latest' = latest /\ \A d \in Clients : SameView(d)
    BY <1>7 DEF vars, ghost, SameView, Effective, ArgsOf, PendingRows, ReplyRows
  <2>. QED BY <2>1, SilentStep
<1>. QED BY <1>3, <1>4, <1>5, <1>6, <1>7 DEF Next

LEMMA InitImplements == Init => Abstract!Init
<1>. SUFFICES ASSUME Init PROVE Abstract!Init
  OBVIOUS
<1>1. \A c \in Clients : op[c] = "none" /\ keys[c] = {} /\ Effective(c) = FALSE
  BY DEF Init, Effective
<1>2. NoRows = Abstract!NoRows
  BY DEF NoRows, Abstract!NoRows
<1>. QED BY <1>1, <1>2 DEF Init, Abstract!Init

(* A set takes effect when its rows are queued (or, with no queue, when it  *)
(* has the cache's mutex), a get and a flush when they return, each at one  *)
(* instant within the call: until two producers have met, EmbeddingKVDB is  *)
(* a linearizable store whose flush makes it durable.                       *)
THEOREM Implementation ==
    ASSUME ~AllocFails
    PROVE  Spec => ImplementsKVStore
<1>1. Unharmed /\ [Next]_vars => [collided \/ Abstract!Next]_(Abstract!vars)
  BY UnharmedStep, StepImplements
<1>2. Spec => []Unharmed
  BY DataInvariance DEF Unharmed
<1>. QED BY <1>1, <1>2, InitImplements, PTL DEF Spec, ImplementsKVStore
=============================================================================
