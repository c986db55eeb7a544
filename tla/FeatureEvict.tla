------------------------------ MODULE FeatureEvict ------------------------------
(***************************************************************************)
(* kv_mem::FeatureEvict: rounds of eviction over the blocks of every       *)
(* shard, one task per shard, that the training path pauses and resumes.   *)
(*                                                                         *)
(* trigger_evict, resume, pause and the bodies that run under mutex_ are   *)
(* one action each: nothing inside them blocks.  evict_interrupt_ is also  *)
(* read without mutex_, between any two blocks of a scan.  What a scan     *)
(* does to a block is abstracted here to moving the cursor past it; the    *)
(* decision and its effect on the map and the pool belong to the store.    *)
(***************************************************************************)
EXTENDS Integers, FiniteSets

CONSTANTS
    Shards,      \* the shards of the store, one task each
    MaxBlocks,   \* bound: blocks a shard's pool may hold at a trigger
    MaxRounds,   \* bound: rounds triggered
    QuietWait    \* nobody calls trigger, pause or resume during a wait

ASSUME ConstantsAssumption ==
    /\ IsFiniteSet(Shards) /\ Shards # {}
    /\ MaxBlocks \in Nat /\ MaxRounds \in Nat /\ QuietWait \in BOOLEAN

NumShards == Cardinality(Shards)

VARIABLES
    state,       \* evict_state_
    interrupt,   \* evict_interrupt_
    shutdown,    \* shutdown_
    thresholds,  \* thresholds_need_computation_
    waiting,     \* num_waiting_evicts_
    finished,    \* finished_evictions_
    cursor,      \* block_cursors_
    snapshot,    \* block_nums_snapshot_
    futures,     \* futures_: the shards whose task it holds a future of
    task,        \* where each shard's task is
    held,        \* each shard's map lock: "free", "evict", "client"
    waiter,      \* where the thread in wait_until_eviction_done is
    awaited,     \* the futures collectAll took that are not fulfilled
    owner,       \* where the thread that destroys the object is
    rounds,      \* history: rounds triggered
    unscanned    \* history: blocks a scan may still examine since the pause

flags   == <<interrupt, shutdown, thresholds>>
counts  == <<waiting, finished>>
scan    == <<cursor, snapshot>>
callers == <<waiter, awaited, owner>>
history == <<rounds, unscanned>>
vars    == <<state, flags, counts, scan, futures, task, held, callers, history>>

Tasks == {"none",     \* no task, or the task has returned
          "outer",    \* process_shard: while (cursor < snapshot)
          "gate",     \* entering wait_until_resume
          "cv",       \* asleep on evict_cv_
          "woken",    \* notified, about to take mutex_ and test again
          "lock",     \* about to take the shard's wlock
          "inner",    \* while (!should_exit_evict_loop)
          "block",    \* past that test, at get_block(cursor++)
          "finish"}   \* update_evict_finish_flags

Init ==
    /\ state = "Idle"
    /\ interrupt = FALSE /\ shutdown = FALSE /\ thresholds = FALSE
    /\ waiting = 0 /\ finished = 0
    /\ cursor = [s \in Shards |-> 0] /\ snapshot = [s \in Shards |-> 0]
    /\ futures = {}
    /\ task = [s \in Shards |-> "none"]
    /\ held = [s \in Shards |-> "free"]
    /\ waiter = "idle" /\ awaited = {} /\ owner = "alive"
    /\ rounds = 0 /\ unscanned = [s \in Shards |-> 0]

MayCall == owner = "alive" /\ (QuietWait => waiter = "idle")

ShouldExit_IgnoresInterrupt(s) == cursor[s] >= snapshot[s]
ShouldExit(s) == interrupt \/ cursor[s] >= snapshot[s]

-----------------------------------------------------------------------------
(* The public methods.                                                     *)

(* trigger_evict, once the interval since the last round has elapsed: the  *)
(* new round starts paused, with the pool sizes of this moment.            *)
InitialInterrupt == TRUE

FinishedAtStart == 0

Submitted == Shards

Trigger ==
    /\ MayCall /\ rounds < MaxRounds
    /\ state = "Idle"
    /\ state' = "Ongoing"
    /\ \E sizes \in [Shards -> 0..MaxBlocks] : snapshot' = sizes
    /\ cursor' = [s \in Shards |-> 0]
    /\ finished' = FinishedAtStart
    /\ thresholds' = TRUE
    /\ interrupt' = InitialInterrupt
    /\ futures' = Submitted
    /\ task' = [s \in Shards |-> "outer"]
    /\ rounds' = rounds + 1
    /\ unscanned' = [s \in Shards |-> 0]
    /\ UNCHANGED <<shutdown, waiting, held, callers>>

Woken_None == task
Woken == [s \in Shards |-> IF task[s] = "cv" THEN "woken" ELSE task[s]]

(* resume(), also the first step of wait_until_eviction_done. *)
DoResume ==
    IF state = "Idle"
    THEN UNCHANGED <<thresholds, interrupt, task, unscanned>>
    ELSE /\ thresholds' = FALSE
         /\ interrupt' = FALSE
         /\ task' = Woken
         /\ unscanned' = [s \in Shards |-> snapshot[s]]

Resume ==
    /\ MayCall
    /\ DoResume
    /\ UNCHANGED <<state, shutdown, counts, scan, futures, held, callers, rounds>>

(* pause() does not wait for the scans: each may be past its test. *)
Pause ==
    /\ MayCall
    /\ state = "Ongoing"
    /\ interrupt' = TRUE
    /\ unscanned' = [s \in Shards |-> IF task[s] = "block" THEN 1 ELSE 0]
    /\ UNCHANGED <<state, shutdown, thresholds, counts, scan, futures, task, held,
                   callers, rounds>>

-----------------------------------------------------------------------------
(* wait_until_eviction_done: resume(); collectAll(futures_).wait();         *)
(* futures_.clear().  The last two do not hold mutex_; collectAll takes the *)
(* futures out of the vector and leaves it to be cleared.                   *)

WaitResume ==
    /\ owner = "alive" /\ waiter = "idle"
    /\ DoResume
    /\ waiter' = "collect"
    /\ UNCHANGED <<state, shutdown, counts, scan, futures, held, awaited, owner, rounds>>

WaitCollect ==
    /\ waiter = "collect"
    /\ awaited' = {s \in futures : task[s] # "none"}
    /\ waiter' = "wait"
    /\ UNCHANGED <<state, flags, counts, scan, futures, task, held, owner, history>>

WaitClear ==
    /\ waiter = "wait" /\ awaited = {}
    /\ futures' = {}
    /\ waiter' = "done"
    /\ UNCHANGED <<state, flags, counts, scan, task, held, awaited, owner, history>>

WaitReturn ==
    /\ waiter = "done"
    /\ waiter' = "idle"
    /\ UNCHANGED <<state, flags, counts, scan, futures, task, held, awaited, owner, history>>

(* ~FeatureEvict: no other call is running.  notify_all finds every waiter's *)
(* predicate, !evict_interrupt_, false, so it wakes nobody for good.         *)
Destroy ==
    /\ owner = "alive" /\ waiter = "idle"
    /\ shutdown' = TRUE
    /\ interrupt' = TRUE
    /\ task' = Woken
    /\ owner' = "collect"
    /\ unscanned' = [s \in Shards |-> IF task[s] = "block" THEN 1 ELSE 0]
    /\ UNCHANGED <<state, thresholds, counts, scan, futures, held, waiter, awaited, rounds>>

DestroyDone ==
    /\ owner = "collect"
    /\ \A s \in futures : task[s] = "none"
    /\ futures' = {}
    /\ owner' = "gone"
    /\ UNCHANGED <<state, flags, counts, scan, task, held, waiter, awaited, history>>

-----------------------------------------------------------------------------
(* A shard's task.                                                          *)

Step(s, from, to) == task[s] = from /\ task' = [task EXCEPT ![s] = to]

(* process_shard's loop condition *)
Outer(s) ==
    /\ Step(s, "outer", IF cursor[s] < snapshot[s] THEN "gate" ELSE "finish")
    /\ UNCHANGED <<state, flags, counts, scan, futures, held, callers, history>>

(* wait_until_resume, up to the sleep *)
Gate(s) ==
    /\ \/ /\ shutdown
          /\ Step(s, "gate", "finish")
          /\ UNCHANGED waiting
       \/ /\ ~shutdown /\ ~ShouldExit(s)
          /\ Step(s, "gate", "lock")
          /\ UNCHANGED waiting
       \/ /\ ~shutdown /\ ShouldExit(s)
          /\ waiting' = waiting + 1
          /\ Step(s, "gate", IF interrupt THEN "cv" ELSE "woken")
    /\ UNCHANGED <<state, flags, finished, scan, futures, held, callers, history>>

(* wait_until_resume, when the condition variable returns or is notified *)
StillWaiting == waiting - 1

Spurious(s) ==
    /\ Step(s, "cv", "woken")
    /\ UNCHANGED <<state, flags, counts, scan, futures, held, callers, history>>

Wake(s) ==
    /\ \/ /\ interrupt
          /\ Step(s, "woken", "cv")
          /\ UNCHANGED waiting
       \/ /\ ~interrupt
          /\ waiting' = StillWaiting
          /\ Step(s, "woken", IF shutdown THEN "finish" ELSE "lock")
    /\ UNCHANGED <<state, flags, finished, scan, futures, held, callers, history>>

(* start_training_eviction_loop: wlock, scan, unlock *)
LockShard(s) ==
    /\ held[s] = "free"
    /\ held' = [held EXCEPT ![s] = "evict"]
    /\ Step(s, "lock", "inner")
    /\ UNCHANGED <<state, flags, counts, scan, futures, callers, history>>

Inner(s) ==
    /\ IF ShouldExit(s)
       THEN /\ Step(s, "inner", "outer")
            /\ held' = [held EXCEPT ![s] = "free"]
       ELSE /\ Step(s, "inner", "block")
            /\ UNCHANGED held
    /\ UNCHANGED <<state, flags, counts, scan, futures, callers, history>>

Block(s) ==
    /\ Step(s, "block", "inner")
    /\ cursor' = [cursor EXCEPT ![s] = @ + 1]
    /\ unscanned' = [unscanned EXCEPT ![s] = @ - 1]
    /\ UNCHANGED <<state, flags, counts, snapshot, futures, held, callers, rounds>>

(* update_evict_finish_flags; then the future is fulfilled *)
RoundOver_FirstShard(n) == n >= 1
RoundOver_NeverReached(n) == waiting + n > NumShards
RoundOver(n) == waiting + n = NumShards /\ n = NumShards

Finish(s) ==
    /\ Step(s, "finish", "none")
    /\ finished' = finished + 1
    /\ state' = IF RoundOver(finished + 1) THEN "Idle" ELSE state
    /\ awaited' = awaited \ {s}
    /\ UNCHANGED <<flags, waiting, scan, futures, held, waiter, owner, history>>

-----------------------------------------------------------------------------
(* Readers and writers of the store hold the shard's lock for a while.      *)
ClientLock(s) ==
    /\ owner = "alive" /\ held[s] = "free"
    /\ held' = [held EXCEPT ![s] = "client"]
    /\ UNCHANGED <<state, flags, counts, scan, futures, task, callers, history>>

ClientUnlock(s) ==
    /\ held[s] = "client"
    /\ held' = [held EXCEPT ![s] = "free"]
    /\ UNCHANGED <<state, flags, counts, scan, futures, task, callers, history>>

TaskStep(s) == \/ Outer(s) \/ Gate(s) \/ Wake(s)
               \/ LockShard(s) \/ Inner(s) \/ Block(s) \/ Finish(s)
WaiterStep  == WaitCollect \/ WaitClear \/ WaitReturn

Next ==
    \/ Trigger \/ Resume \/ Pause \/ WaitResume \/ WaiterStep
    \/ Destroy \/ DestroyDone
    \/ \E s \in Shards : TaskStep(s) \/ Spurious(s) \/ ClientLock(s) \/ ClientUnlock(s)

Spec == Init /\ [][Next]_vars

(* The executor has a thread for every shard; the lock of a shard is given   *)
(* back and, being taken again and again by clients, is still obtained.      *)
Fairness == /\ WF_vars(WaiterStep) /\ WF_vars(DestroyDone)
            /\ \A s \in Shards : /\ WF_vars(TaskStep(s)) /\ WF_vars(ClientUnlock(s))
                                 /\ SF_vars(LockShard(s))
FairSpec == Spec /\ Fairness

-----------------------------------------------------------------------------
(* Properties.                                                             *)

(* Every variable holds a value of its type. *)
TypeOK ==
    /\ state \in {"Idle", "Ongoing"}
    /\ interrupt \in BOOLEAN /\ shutdown \in BOOLEAN /\ thresholds \in BOOLEAN
    /\ waiting \in 0..NumShards /\ finished \in 0..NumShards
    /\ cursor \in [Shards -> Nat] /\ snapshot \in [Shards -> Nat]
    /\ futures \in SUBSET Shards
    /\ task \in [Shards -> Tasks]
    /\ held \in [Shards -> {"free", "evict", "client"}]
    /\ waiter \in {"idle", "collect", "wait", "done"}
    /\ awaited \in SUBSET Shards
    /\ owner \in {"alive", "collect", "gone"}
    /\ rounds \in Nat
    /\ unscanned \in [Shards -> Int]

(* The CHECKs of sanity_check_before_new_round never fire: when a round may *)
(* be triggered no task waits, all or none of the shards have finished and  *)
(* futures_ holds the tasks of one round or nothing.                        *)
SanityChecks ==
    state = "Idle" => /\ waiting = 0
                      /\ finished \in {0, NumShards}
                      /\ futures \in {{}, Shards}

(* A round is declared over only when every shard has scanned every block   *)
(* of its snapshot, however often it was paused; a shutdown cuts it short.  *)
RoundCoversSnapshot ==
    state = "Idle" /\ ~shutdown => \A s \in Shards : cursor[s] = snapshot[s] /\ task[s] = "none"

(* "make sure we don't start right away, wait until resume() is called":    *)
(* no block is scanned before resume has computed the round's thresholds.   *)
NoScanBeforeResume ==
    thresholds => \A s \in Shards : cursor[s] = 0 /\ task[s] \notin {"lock", "inner", "block"}

(* After pause() returns, each shard examines at most the one block its     *)
(* scan had already tested for, until the next resume.                      *)
PauseStopsScan == interrupt => \A s \in Shards : unscanned[s] >= 0

(* A scan never runs past the pool size its round was triggered with: the   *)
(* chunks added meanwhile are left to the next round.                       *)
ScanWithinSnapshot == \A s \in Shards :
    cursor[s] <= snapshot[s] /\ (task[s] = "block" => cursor[s] < snapshot[s])

(* wait_until_eviction_done returns only when no round is in progress, so   *)
(* that the state saved afterwards is not being evicted under the reader.   *)
WaitMeansIdle == waiter = "done" => state = "Idle"

(* While a round runs, futures_ or a waiter holds its tasks, so that a wait *)
(* or the destructor waits for them.                                        *)
RoundIsTracked == state = "Ongoing" => futures = Shards

(* A round that is running and not paused again finishes. *)
ResumedRoundFinishes == (state = "Ongoing" /\ ~interrupt) ~> (state = "Idle" \/ interrupt)

(* wait_until_eviction_done returns. *)
WaitReturns == (waiter # "idle") ~> (waiter = "idle")

(* The destructor returns. *)
DestructorReturns == (owner = "collect") ~> (owner = "gone")

=============================================================================
