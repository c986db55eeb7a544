-------------------------------- MODULE RWLock --------------------------------
(***************************************************************************)
(* _RWLock of the SSD inference operator: prefetch and forward share it,   *)
(* streaming_update and load_snapshot own it.  Every block under           *)
(* "with self._cond" runs to its wait or to its end, so it is one action;  *)
(* a thread that waits is asleep until a notify_all, then tests its        *)
(* condition again.                                                        *)
(***************************************************************************)
EXTENDS Integers, FiniteSets

CONSTANT Threads
ASSUME ThreadsAssumption == IsFiniteSet(Threads)

VARIABLES
    readers,        \* _readers
    writersWaiting, \* _writers_waiting
    writerActive,   \* _writer_active
    pc              \* where each thread is

vars == <<readers, writersWaiting, writerActive, pc>>

Places == {"idle", "read_asleep", "read_retry", "reading",
           "write_asleep", "write_retry", "writing"}
At(places) == {t \in Threads : pc[t] \in places}
ReadersIn     == At({"reading"})
WritersIn     == At({"writing"})
WritersQueued == At({"write_asleep", "write_retry"})

Init ==
    /\ readers = 0 /\ writersWaiting = 0 /\ writerActive = FALSE
    /\ pc = [t \in Threads |-> "idle"]

MustNotRead_NoPriority == writerActive
MustNotRead == writerActive \/ writersWaiting > 0

MustNotWrite_IgnoresReaders == writerActive
MustNotWrite == readers > 0 \/ writerActive

Notified == [t \in Threads |-> CASE pc[t] = "read_asleep"  -> "read_retry"
                                 [] pc[t] = "write_asleep" -> "write_retry"
                                 [] OTHER -> pc[t]]

AcquireRead(t) ==
    /\ pc[t] \in {"idle", "read_retry"}
    /\ IF MustNotRead
       THEN /\ pc' = [pc EXCEPT ![t] = "read_asleep"]
            /\ UNCHANGED readers
       ELSE /\ pc' = [pc EXCEPT ![t] = "reading"]
            /\ readers' = readers + 1
    /\ UNCHANGED <<writersWaiting, writerActive>>

LastReader_NeverNotifies == FALSE
LastReader == readers = 1

ReleaseRead(t) ==
    /\ pc[t] = "reading"
    /\ readers' = readers - 1
    /\ pc' = [(IF LastReader THEN Notified ELSE pc) EXCEPT ![t] = "idle"]
    /\ UNCHANGED <<writersWaiting, writerActive>>

(* _writers_waiting is counted up on entry and down when the lock is taken. *)
Arrived == writersWaiting + 1

AcquireWrite(t) ==
    /\ pc[t] \in {"idle", "write_retry"}
    /\ LET queued == IF pc[t] = "idle" THEN Arrived ELSE writersWaiting
       IN IF MustNotWrite
          THEN /\ pc' = [pc EXCEPT ![t] = "write_asleep"]
               /\ writersWaiting' = queued
               /\ UNCHANGED writerActive
          ELSE /\ pc' = [pc EXCEPT ![t] = "writing"]
               /\ writersWaiting' = queued - 1
               /\ writerActive' = TRUE
    /\ UNCHANGED readers

ReleaseWrite(t) ==
    /\ pc[t] = "writing"
    /\ writerActive' = FALSE
    /\ pc' = [Notified EXCEPT ![t] = "idle"]
    /\ UNCHANGED <<readers, writersWaiting>>

Next == \E t \in Threads :
    AcquireRead(t) \/ ReleaseRead(t) \/ AcquireWrite(t) \/ ReleaseWrite(t)

Spec == Init /\ [][Next]_vars

Retry(t) == pc[t] # "idle" /\ (AcquireRead(t) \/ AcquireWrite(t))

(* A holder gives the lock back, and a thread that was notified runs.  Which *)
(* of several notified threads runs first is left open.                      *)
Fairness == \A t \in Threads :
    WF_vars(ReleaseRead(t)) /\ WF_vars(ReleaseWrite(t)) /\ WF_vars(Retry(t))
FairSpec == Spec /\ Fairness

-----------------------------------------------------------------------------
(* Every variable holds a value of its type. *)
TypeOK ==
    /\ readers \in Nat /\ writersWaiting \in Nat /\ writerActive \in BOOLEAN
    /\ pc \in [Threads -> Places]

(* The counters say who holds and who waits for the lock: a count left      *)
(* behind would shut readers or writers out for ever.                       *)
CountersMatch ==
    /\ readers = Cardinality(ReadersIn)
    /\ writersWaiting = Cardinality(WritersQueued)
    /\ writerActive <=> WritersIn # {}

(* A writer is alone: no streaming update runs while a forward reads the    *)
(* cache, nor beside another update.                                        *)
Exclusion ==
    \A t \in WritersIn : WritersIn = {t} /\ ReadersIn = {}

(* A thread sleeps only while there is somebody left to wake it.            *)
SleepersHaveAWaker ==
    /\ At({"write_asleep"}) # {} => At({"write_retry"}) \cup ReadersIn \cup WritersIn # {}
    /\ At({"read_asleep"}) # {} => WritersIn \cup WritersQueued # {}

(* "writer-priority": once a writer waits, no reader that is not already in *)
(* gets in before it.                                                       *)
WriterPriority ==
    [][WritersQueued # {} => ReadersIn' \subseteq ReadersIn]_vars

(* Readers that keep coming never shut the writers out: whenever a writer   *)
(* waits, a writer gets the lock.                                           *)
WritersGetIn == WritersQueued # {} ~> WritersIn # {}

=============================================================================
