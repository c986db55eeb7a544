-------------------------- MODULE FeatureEvict_proofs --------------------------
(***************************************************************************)
(* The safety properties of FeatureEvict for every number of shards, blocks *)
(* and rounds, as long as nobody triggers a round while another thread is  *)
(* in wait_until_eviction_done.                                            *)
(***************************************************************************)
EXTENDS FeatureEvict, FiniteSetTheorems, TLAPS

Waiters == {s \in Shards : task[s] \in {"cv", "woken"}}
Done    == {s \in Shards : task[s] = "none"}

(* num_waiting_evicts_ and finished_evictions_ count the tasks; the round is *)
(* over when the last one is done, and no earlier.                           *)
Counting ==
    /\ waiting = Cardinality(Waiters)
    /\ state = "Ongoing" => finished = Cardinality(Done) /\ Done # Shards
    /\ state = "Idle" => finished \in {0, NumShards} /\ Done = Shards

(* A scan stays within its snapshot, stops for an interrupt and for the     *)
(* thresholds, and leaves only when it is complete.                         *)
ScanOK(s) ==
    /\ cursor[s] <= snapshot[s]
    /\ task[s] = "block" => cursor[s] < snapshot[s]
    /\ task[s] \in {"none", "finish"} => cursor[s] = snapshot[s] \/ shutdown
    /\ interrupt => unscanned[s] >= IF task[s] = "block" THEN 1 ELSE 0
    /\ thresholds => cursor[s] = 0 /\ task[s] \notin {"lock", "inner", "block"}

Scanning == (thresholds => interrupt) /\ \A s \in Shards : ScanOK(s)

(* The futures of a round are in futures_ or awaited until its tasks end.   *)
Tracking ==
    /\ futures \in {{}, Shards}
    /\ state = "Ongoing" => futures = Shards
    /\ waiter = "wait" /\ state = "Ongoing" =>
          \A s \in Shards : task[s] # "none" => s \in awaited
    /\ waiter = "done" => state = "Idle"

IInv == TypeOK /\ Counting /\ Scanning /\ Tracking

(* Every set of shards has a cardinality, at most NumShards. *)
LEMMA ShardsFinite ==
    ASSUME NEW S \in SUBSET Shards
    PROVE  /\ IsFiniteSet(S) /\ Cardinality(S) \in 0..NumShards
           /\ Cardinality(S) = NumShards => S = Shards
<1>1. IsFiniteSet(S) /\ Cardinality(S) <= NumShards /\ (Cardinality(S) = NumShards => S = Shards)
  BY ConstantsAssumption, FS_Subset DEF NumShards
<1>2. Cardinality(S) \in Nat /\ NumShards \in Nat
  BY <1>1, ConstantsAssumption, FS_CardinalityType DEF NumShards
<1>. QED
  BY <1>1, <1>2

(* A step that moves no task between these sets keeps the counts right. *)
LEMMA CountingUnchanged ==
    ASSUME Counting, UNCHANGED <<waiting, finished, state, Waiters, Done>>
    PROVE  Counting'
BY DEF Counting, NumShards

LEMMA InitIInv == Init => IInv
<1>. SUFFICES ASSUME Init PROVE IInv
  OBVIOUS
<1>1. Waiters = {} /\ Done = Shards
  BY DEF Init, Waiters, Done
<1>2. TypeOK
  <2>1. 0 \in 0..NumShards
    BY ShardsFinite, FS_EmptySet
  <2>2. /\ task \in [Shards -> Tasks] /\ held \in [Shards -> {"free", "evict", "client"}]
        /\ cursor \in [Shards -> Nat] /\ snapshot \in [Shards -> Nat]
        /\ unscanned \in [Shards -> Int]
    BY DEF Init, Tasks
  <2>. QED
    BY <2>1, <2>2 DEF Init, TypeOK
<1>3. Counting
  BY <1>1, FS_EmptySet DEF Init, Counting
<1>4. Scanning /\ Tracking
  BY DEF Init, Scanning, ScanOK, Tracking
<1>. QED
  BY <1>2, <1>3, <1>4 DEF IInv

(* A notify_all moves sleeping tasks to the test of their predicate. *)
LEMMA WokenTasks ==
    ASSUME TypeOK
    PROVE  /\ Woken \in [Shards -> Tasks]
           /\ \A s \in Shards :
                /\ Woken[s] \in {"cv", "woken"} <=> task[s] \in {"cv", "woken"}
                /\ Woken[s] \in {"cv", "woken"} \/ Woken[s] = task[s]
BY DEF Woken, TypeOK, Tasks

LEMMA TriggerIInv == ASSUME IInv, QuietWait, Trigger PROVE IInv'
<1>. USE DEF IInv
<1>1. Waiters = {} /\ Waiters' = {} /\ Done' = {}
  BY DEF Trigger, Counting, Waiters, Done
<1>2. TypeOK'
  <2>1. \A sizes \in [Shards -> 0..MaxBlocks] : sizes \in [Shards -> Nat]
    BY ConstantsAssumption
  <2>. QED
    BY <2>1, ShardsFinite, FS_EmptySet DEF Trigger, TypeOK, Tasks, FinishedAtStart,
       InitialInterrupt, Submitted, callers
<1>3. Counting'
  BY <1>1, FS_EmptySet, ConstantsAssumption DEF Trigger, Counting, FinishedAtStart
<1>4. Scanning'
  BY ConstantsAssumption DEF Trigger, Scanning, ScanOK, InitialInterrupt
<1>5. Tracking'
  BY DEF Trigger, Tracking, Submitted, TypeOK, callers, MayCall
<1>. QED
  BY <1>2, <1>3, <1>4, <1>5

(* resume, alone or as the first step of a wait. *)
LEMMA ResumeIInv == ASSUME IInv, Resume \/ WaitResume PROVE IInv'
<1>. USE DEF IInv
<1>1. /\ DoResume
      /\ UNCHANGED <<state, shutdown, counts, scan, futures, held, awaited, owner, rounds>>
      /\ waiter' = waiter \/ (waiter = "idle" /\ waiter' = "collect")
  BY DEF Resume, WaitResume, callers
<1>2. TypeOK'
  <2>1. waiter' \in {"idle", "collect", "wait", "done"}
    BY <1>1 DEF TypeOK
  <2>2. CASE state = "Idle"
    BY <1>1, <2>1, <2>2 DEF DoResume, TypeOK, counts, scan
  <2>3. CASE state # "Idle"
    <3>1. [s \in Shards |-> snapshot[s]] \in [Shards -> Int]
      BY DEF TypeOK
    <3>. QED
      BY <1>1, <2>1, <2>3, <3>1, WokenTasks DEF DoResume, TypeOK, counts, scan
  <2>. QED
    BY <2>2, <2>3
<1>3. Waiters' = Waiters /\ Done' = Done
  BY <1>1, WokenTasks DEF DoResume, Waiters, Done
<1>4. Counting'
  BY <1>1, <1>3, CountingUnchanged DEF counts
<1>5. Scanning'
  BY <1>1, WokenTasks DEF DoResume, Scanning, ScanOK, TypeOK, scan
<1>6. Tracking'
  BY <1>1, WokenTasks DEF DoResume, Tracking, TypeOK
<1>. QED
  BY <1>2, <1>4, <1>5, <1>6

LEMMA PauseIInv == ASSUME IInv, Pause PROVE IInv'
<1>. USE DEF IInv, Pause
<1>1. TypeOK'
  BY DEF TypeOK, callers, counts, scan
<1>2. Waiters' = Waiters /\ Done' = Done
  BY DEF Waiters, Done
<1>3. Counting'
  BY <1>2, CountingUnchanged DEF counts
<1>4. Scanning'
  BY DEF Scanning, ScanOK, TypeOK, scan
<1>5. Tracking'
  BY DEF Tracking, callers
<1>. QED
  BY <1>1, <1>3, <1>4, <1>5

(* The steps of a wait after its resume. *)
LEMMA WaiterIInv == ASSUME IInv, WaiterStep PROVE IInv'
<1>. USE DEF IInv
<1>1. /\ UNCHANGED <<state, flags, counts, scan, task, held, owner, history>>
      /\ futures' \in {futures, {}}
      /\ futures' # futures => state # "Ongoing"
      /\ waiter' \in {"wait", "done", "idle"}
      /\ awaited' \in SUBSET Shards
  <2>1. CASE WaitCollect
    BY <2>1 DEF WaitCollect, TypeOK
  <2>2. CASE WaitClear
    <3>1. state = "Ongoing" => \A s \in Shards : task[s] = "none"
      BY <2>2 DEF WaitClear, Tracking
    <3>. QED
      BY <2>2, <3>1 DEF WaitClear, TypeOK, Counting, Done
  <2>3. CASE WaitReturn
    BY <2>3 DEF WaitReturn, TypeOK
  <2>. QED
    BY <2>1, <2>2, <2>3 DEF WaiterStep
<1>2. TypeOK'
  BY <1>1 DEF TypeOK, flags, counts, scan, history
<1>3. Counting'
  BY <1>1, CountingUnchanged DEF counts, Waiters, Done
<1>4. Scanning'
  BY <1>1 DEF Scanning, ScanOK, flags, scan, history
<1>5. Tracking'
  <2>1. CASE WaitCollect
    BY <2>1 DEF WaitCollect, Tracking
  <2>2. CASE WaitClear
    <3>1. state # "Ongoing"
      BY <2>2 DEF WaitClear, Tracking, Counting, Done
    <3>. QED
      BY <2>2, <3>1 DEF WaitClear, Tracking, TypeOK
  <2>3. CASE WaitReturn
    BY <2>3 DEF WaitReturn, Tracking
  <2>. QED
    BY <2>1, <2>2, <2>3 DEF WaiterStep
<1>. QED
  BY <1>2, <1>3, <1>4, <1>5

LEMMA DestroyIInv == ASSUME IInv, Destroy PROVE IInv'
<1>. USE DEF IInv, Destroy
<1>1. TypeOK'
  <2>1. [s \in Shards |-> IF task[s] = "block" THEN 1 ELSE 0] \in [Shards -> Int]
    OBVIOUS
  <2>. QED
    BY <2>1, WokenTasks DEF TypeOK, counts, scan
<1>2. Waiters' = Waiters /\ Done' = Done
  BY WokenTasks DEF Waiters, Done
<1>3. Counting'
  BY <1>2, CountingUnchanged DEF counts
<1>4. Scanning'
  BY WokenTasks DEF Scanning, ScanOK, TypeOK, scan
<1>5. Tracking'
  BY WokenTasks DEF Tracking
<1>. QED
  BY <1>1, <1>3, <1>4, <1>5

LEMMA DestroyDoneIInv == ASSUME IInv, DestroyDone PROVE IInv'
<1>. USE DEF IInv, DestroyDone
<1>1. state # "Ongoing"
  BY DEF Tracking, Counting, Done
<1>2. TypeOK'
  BY DEF TypeOK, flags, counts, scan, history
<1>3. Counting'
  BY CountingUnchanged DEF counts, Waiters, Done
<1>4. Scanning'
  BY DEF Scanning, ScanOK, flags, scan, history
<1>5. Tracking'
  BY <1>1 DEF Tracking, TypeOK
<1>. QED
  BY <1>2, <1>3, <1>4, <1>5

(* The steps of a task that touch neither the counts nor the sets behind    *)
(* them: the loop conditions, the shard's lock and the scan of a block.     *)
LEMMA ScanStepIInv ==
    ASSUME IInv, NEW s \in Shards,
           Outer(s) \/ LockShard(s) \/ Inner(s) \/ Block(s)
    PROVE  IInv'
<1>. USE DEF IInv
<1>1. /\ UNCHANGED <<state, flags, counts, snapshot, futures, callers, rounds>>
      /\ task[s] \in {"outer", "lock", "inner", "block"}
      /\ \E place \in {"gate", "finish", "inner", "outer", "block"} :
            task' = [task EXCEPT ![s] = place]
  BY DEF Outer, LockShard, Inner, Block, Step, scan, history
<1>2. TypeOK'
  <2>1. cursor' \in [Shards -> Nat] /\ unscanned' \in [Shards -> Int]
        /\ held' \in [Shards -> {"free", "evict", "client"}]
    BY DEF Outer, LockShard, Inner, Block, TypeOK, scan, history
  <2>2. task' \in [Shards -> Tasks]
    BY <1>1 DEF TypeOK, Tasks
  <2>. QED
    BY <1>1, <2>1, <2>2 DEF TypeOK, flags, counts, callers
<1>3. Waiters' = Waiters /\ Done' = Done
  BY <1>1 DEF Waiters, Done, TypeOK
<1>4. Counting'
  BY <1>1, <1>3, CountingUnchanged DEF counts
<1>5. Scanning'
  <2>1. CASE Outer(s)
    BY <2>1 DEF Outer, Step, Scanning, ScanOK, TypeOK, flags, scan, history
  <2>2. CASE LockShard(s)
    BY <2>2 DEF LockShard, Step, Scanning, ScanOK, TypeOK, flags, scan, history
  <2>3. CASE Inner(s)
    BY <2>3 DEF Inner, ShouldExit, Step, Scanning, ScanOK, TypeOK, flags, scan, history
  <2>4. CASE Block(s)
    BY <2>4 DEF Block, Step, Scanning, ScanOK, TypeOK, flags
  <2>. QED
    BY <2>1, <2>2, <2>3, <2>4
<1>6. Tracking'
  BY <1>1 DEF Tracking, TypeOK, callers
<1>. QED
  BY <1>2, <1>4, <1>5, <1>6

(* A task that goes to wait is counted. *)
LEMMA GateIInv == ASSUME IInv, NEW s \in Shards, Gate(s) PROVE IInv'
<1>. USE DEF IInv
<1>1. /\ UNCHANGED <<state, flags, finished, scan, futures, held, callers, history>>
      /\ task[s] = "gate"
      /\ \/ /\ task' = [task EXCEPT ![s] = IF shutdown THEN "finish" ELSE "lock"]
            /\ waiting' = waiting /\ (shutdown \/ ~interrupt)
         \/ /\ \E place \in {"cv", "woken"} : task' = [task EXCEPT ![s] = place]
            /\ waiting' = waiting + 1
  BY DEF Gate, Step, ShouldExit
<1>2. Done' = Done
  BY <1>1 DEF Done, TypeOK
<1>3. waiting' = Cardinality(Waiters') /\ waiting' \in 0..NumShards
  <2>1. CASE waiting' = waiting
    <3>1. Waiters' = Waiters
      BY <1>1, <2>1 DEF Waiters, TypeOK
    <3>. QED
      BY <2>1, <3>1 DEF Counting, TypeOK
  <2>2. CASE waiting' # waiting
    <3>1. Waiters' = Waiters \cup {s} /\ s \notin Waiters /\ waiting' = waiting + 1
      BY <1>1, <2>2 DEF Waiters, TypeOK
    <3>2. IsFiniteSet(Waiters) /\ Waiters' \in SUBSET Shards
      BY ShardsFinite DEF Waiters
    <3>3. Cardinality(Waiters') = waiting + 1
      BY <3>1, <3>2, FS_AddElement DEF Counting
    <3>. QED
      BY <3>1, <3>2, <3>3, ShardsFinite
  <2>. QED
    BY <2>1, <2>2
<1>4. TypeOK'
  BY <1>1, <1>3 DEF TypeOK, Tasks, flags, scan, callers, history
<1>5. Counting'
  BY <1>1, <1>2, <1>3 DEF Counting, NumShards
<1>6. Scanning'
  BY <1>1 DEF Scanning, ScanOK, TypeOK, flags, scan, history
<1>7. Tracking'
  BY <1>1 DEF Tracking, TypeOK, callers
<1>. QED
  BY <1>4, <1>5, <1>6, <1>7

(* A task that resumes is no longer counted; one that finds the interrupt   *)
(* still set goes back to sleep.                                            *)
LEMMA WakeIInv == ASSUME IInv, NEW s \in Shards, Wake(s) \/ Spurious(s) PROVE IInv'
<1>. USE DEF IInv
<1>1. /\ UNCHANGED <<state, flags, finished, scan, futures, held, callers, history>>
      /\ s \in Waiters
      /\ \/ /\ \E place \in {"cv", "woken"} : task' = [task EXCEPT ![s] = place]
            /\ waiting' = waiting
         \/ /\ ~interrupt /\ waiting' = waiting - 1
            /\ task' = [task EXCEPT ![s] = IF shutdown THEN "finish" ELSE "lock"]
  BY DEF Wake, Spurious, Step, StillWaiting, Waiters, counts
<1>2. Done' = Done
  BY <1>1 DEF Done, Waiters, TypeOK
<1>3. waiting' = Cardinality(Waiters') /\ waiting' \in 0..NumShards
  <2>1. CASE waiting' = waiting
    <3>1. Waiters' = Waiters
      BY <1>1, <2>1 DEF Waiters, TypeOK
    <3>. QED
      BY <2>1, <3>1 DEF Counting, TypeOK
  <2>2. CASE waiting' # waiting
    <3>1. Waiters' = Waiters \ {s} /\ waiting' = waiting - 1
      BY <1>1, <2>2 DEF Waiters, TypeOK
    <3>2. IsFiniteSet(Waiters) /\ Waiters' \in SUBSET Shards
      BY ShardsFinite DEF Waiters
    <3>3. Cardinality(Waiters') = waiting - 1
      BY <1>1, <3>1, <3>2, FS_RemoveElement DEF Counting
    <3>. QED
      BY <3>1, <3>2, <3>3, ShardsFinite
  <2>. QED
    BY <2>1, <2>2
<1>4. TypeOK'
  BY <1>1, <1>3 DEF TypeOK, Tasks, flags, scan, callers, history
<1>5. Counting'
  BY <1>1, <1>2, <1>3 DEF Counting, NumShards
<1>6. Scanning'
  BY <1>1 DEF Scanning, ScanOK, TypeOK, Waiters, flags, scan, history
<1>7. Tracking'
  BY <1>1 DEF Tracking, TypeOK, Waiters, callers
<1>. QED
  BY <1>4, <1>5, <1>6, <1>7

(* The last task to finish, and no other, ends the round: then no task is   *)
(* left to wait.                                                            *)
LEMMA FinishIInv == ASSUME IInv, NEW s \in Shards, Finish(s) PROVE IInv'
<1>. USE DEF IInv
<1>1. /\ UNCHANGED <<flags, waiting, scan, futures, held, waiter, owner, history>>
      /\ task[s] = "finish" /\ task' = [task EXCEPT ![s] = "none"]
      /\ finished' = finished + 1
      /\ state' = IF RoundOver(finished + 1) THEN "Idle" ELSE state
      /\ awaited' = awaited \ {s}
  BY DEF Finish, Step
<1>2. state = "Ongoing" /\ finished = Cardinality(Done) /\ waiting = Cardinality(Waiters)
  BY <1>1 DEF Counting, TypeOK, Done
<1>3. Done' = Done \cup {s} /\ Waiters' = Waiters
  BY <1>1 DEF Done, Waiters, TypeOK
<1>4. finished' = Cardinality(Done') /\ finished' \in 0..NumShards
      /\ (finished' = NumShards <=> Done' = Shards)
  <2>1. IsFiniteSet(Done) /\ s \notin Done /\ Done' \in SUBSET Shards
    BY <1>1, ShardsFinite DEF Done
  <2>2. Cardinality(Done') = finished + 1
    BY <1>2, <1>3, <2>1, FS_AddElement
  <2>. QED
    BY <1>1, <2>1, <2>2, ShardsFinite DEF NumShards
<1>5. Done' = Shards => waiting = 0
  <2>1. Done' = Shards => Waiters' = {}
    BY DEF Done, Waiters
  <2>. QED
    BY <1>2, <1>3, <2>1, FS_EmptySet
<1>6. state' = IF Done' = Shards THEN "Idle" ELSE "Ongoing"
  BY <1>1, <1>2, <1>4, <1>5, ShardsFinite DEF RoundOver, TypeOK
<1>7. TypeOK'
  BY <1>1, <1>4, <1>6 DEF TypeOK, Tasks, flags, scan, history
<1>8. Counting'
  <2>1. NumShards' = NumShards
    BY DEF NumShards
  <2>. QED
    BY <1>1, <1>2, <1>3, <1>4, <1>6, <2>1 DEF Counting
<1>9. Scanning'
  BY <1>1 DEF Scanning, ScanOK, TypeOK, flags, scan, history
<1>10. Tracking'
  BY <1>1, <1>2, <1>6 DEF Tracking, TypeOK
<1>. QED
  BY <1>7, <1>8, <1>9, <1>10

LEMMA ClientIInv == ASSUME IInv, NEW s \in Shards, ClientLock(s) \/ ClientUnlock(s) PROVE IInv'
<1>1. /\ UNCHANGED <<state, flags, counts, scan, futures, task, callers, history>>
      /\ held' \in [Shards -> {"free", "evict", "client"}]
  BY DEF IInv, TypeOK, ClientLock, ClientUnlock
<1>2. TypeOK' /\ Counting'
  BY <1>1, CountingUnchanged DEF IInv, TypeOK, flags, counts, scan, callers, history, Waiters, Done
<1>3. Scanning' /\ Tracking'
  BY <1>1 DEF IInv, Scanning, ScanOK, Tracking, flags, scan, callers, history
<1>. QED
  BY <1>2, <1>3 DEF IInv

(* The inductive invariant, when no round is triggered during a wait. *)
THEOREM Invariance == ASSUME QuietWait PROVE Spec => []IInv
<1>1. IInv /\ [Next]_vars => IInv'
  <2>. SUFFICES ASSUME IInv, [Next]_vars PROVE IInv'
    OBVIOUS
  <2>1. CASE Trigger
    BY <2>1, TriggerIInv
  <2>2. CASE Resume \/ WaitResume
    BY <2>2, ResumeIInv
  <2>3. CASE Pause
    BY <2>3, PauseIInv
  <2>4. CASE WaiterStep
    BY <2>4, WaiterIInv
  <2>5. CASE Destroy
    BY <2>5, DestroyIInv
  <2>6. CASE DestroyDone
    BY <2>6, DestroyDoneIInv
  <2>7. ASSUME NEW s \in Shards,
               TaskStep(s) \/ Spurious(s) \/ ClientLock(s) \/ ClientUnlock(s)
        PROVE  IInv'
    <3>1. CASE Outer(s) \/ LockShard(s) \/ Inner(s) \/ Block(s)
      BY <3>1, ScanStepIInv
    <3>2. CASE Gate(s)
      BY <3>2, GateIInv
    <3>3. CASE Wake(s) \/ Spurious(s)
      BY <3>3, WakeIInv
    <3>4. CASE Finish(s)
      BY <3>4, FinishIInv
    <3>5. CASE ClientLock(s) \/ ClientUnlock(s)
      BY <3>5, ClientIInv
    <3>. QED
      BY <2>7, <3>1, <3>2, <3>3, <3>4, <3>5 DEF TaskStep
  <2>8. CASE UNCHANGED vars
    BY <2>8, CountingUnchanged DEF vars, flags, counts, scan, callers, history, IInv,
       TypeOK, Scanning, ScanOK, Tracking, Waiters, Done
  <2>. QED
    BY <2>1, <2>2, <2>3, <2>4, <2>5, <2>6, <2>7, <2>8 DEF Next
<1>. QED
  BY <1>1, InitIInv, PTL DEF Spec

(* When the engine is idle, the CHECKs of the next trigger hold. *)
THEOREM SanityChecksHold == ASSUME QuietWait PROVE Spec => []SanityChecks
<1>1. IInv => SanityChecks
  <2>. SUFFICES ASSUME IInv, state = "Idle" PROVE SanityChecks
    BY DEF SanityChecks
  <2>1. Waiters = {}
    BY DEF IInv, Counting, Waiters, Done
  <2>. QED
    BY <2>1, FS_EmptySet DEF IInv, Counting, Tracking, SanityChecks
<1>. QED
  BY <1>1, Invariance, PTL

(* A round is over only when every shard has scanned its whole snapshot. *)
THEOREM RoundsComplete == ASSUME QuietWait PROVE Spec => []RoundCoversSnapshot
<1>1. IInv => RoundCoversSnapshot
  BY DEF IInv, Counting, Done, Scanning, ScanOK, RoundCoversSnapshot
<1>. QED
  BY <1>1, Invariance, PTL

(* No scan before the resume that computes the thresholds, at most one block *)
(* per shard after a pause, none beyond the snapshot.                        *)
THEOREM ScansObeyPause ==
    ASSUME QuietWait
    PROVE  Spec => [](NoScanBeforeResume /\ PauseStopsScan /\ ScanWithinSnapshot)
<1>1. IInv => NoScanBeforeResume /\ PauseStopsScan /\ ScanWithinSnapshot
  BY DEF IInv, TypeOK, Scanning, ScanOK, NoScanBeforeResume, PauseStopsScan, ScanWithinSnapshot
<1>. QED
  BY <1>1, Invariance, PTL

(* A wait returns only when no round is in progress, and a round in progress *)
(* can be waited for.                                                        *)
THEOREM WaitsAreSound == ASSUME QuietWait PROVE Spec => [](WaitMeansIdle /\ RoundIsTracked)
<1>1. IInv => WaitMeansIdle /\ RoundIsTracked
  BY DEF IInv, Tracking, WaitMeansIdle, RoundIsTracked
<1>. QED
  BY <1>1, Invariance, PTL

=============================================================================
