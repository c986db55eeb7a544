----------------------------- MODULE RWLock_proofs -----------------------------
(***************************************************************************)
(* RWLock's invariants hold for every finite set of threads.  They are     *)
(* proved together: that a counter can be decremented needs CountersMatch, *)
(* CountersMatch needs Exclusion for the flag, and both need the types.    *)
(***************************************************************************)
EXTENDS RWLock, FiniteSetTheorems, TLAPS

IInv == TypeOK /\ CountersMatch /\ Exclusion /\ SleepersHaveAWaker

(* The threads at some places of the code are finitely many. *)
LEMMA AtFinite ==
    ASSUME NEW places
    PROVE  IsFiniteSet(At(places)) /\ Cardinality(At(places)) \in Nat
BY ThreadsAssumption, FS_Subset, FS_CardinalityType, At(places) \in SUBSET Threads DEF At

LEMMA InitIInv == Init => IInv
<1>. SUFFICES ASSUME Init PROVE IInv
  OBVIOUS
<1>1. ReadersIn = {} /\ WritersIn = {} /\ WritersQueued = {}
  BY DEF Init, ReadersIn, WritersIn, WritersQueued, At
<1>2. At({"write_asleep"}) = {} /\ At({"read_asleep"}) = {}
  BY DEF Init, At
<1>3. TypeOK
  BY DEF Init, TypeOK, Places
<1>. QED
  BY <1>1, <1>2, <1>3, FS_EmptySet DEF Init, IInv, CountersMatch, Exclusion, SleepersHaveAWaker

(* A notify_all moves the sleepers to their retries and nobody else. *)
LEMMA NotifiedPlaces ==
    ASSUME TypeOK, NEW t \in Threads
    PROVE  /\ Notified \in [Threads -> Places]
           /\ \A u \in Threads :
                /\ Notified[u] # "write_asleep" /\ Notified[u] # "read_asleep"
                /\ Notified[u] = "reading" <=> pc[u] = "reading"
                /\ Notified[u] = "writing" <=> pc[u] = "writing"
                /\ Notified[u] = "write_retry" <=> pc[u] \in {"write_asleep", "write_retry"}
BY DEF TypeOK, Notified, Places

LEMMA AcquireReadIInv ==
    ASSUME IInv, NEW t \in Threads, AcquireRead(t)
    PROVE  IInv'
<1>. USE DEF IInv, AcquireRead
<1>1. pc[t] \notin {"reading", "writing", "write_asleep", "write_retry"}
  OBVIOUS
<1>2. CASE MustNotRead
  <2>1. pc' = [pc EXCEPT ![t] = "read_asleep"] /\ UNCHANGED <<readers, writersWaiting, writerActive>>
    BY <1>2
  <2>2. TypeOK'
    BY <2>1 DEF TypeOK, Places
  <2>3. /\ ReadersIn' = ReadersIn /\ WritersIn' = WritersIn /\ WritersQueued' = WritersQueued
        /\ At({"write_asleep"})' = At({"write_asleep"}) /\ At({"write_retry"})' = At({"write_retry"})
    BY <1>1, <2>1 DEF TypeOK, ReadersIn, WritersIn, WritersQueued, At
  <2>4. WritersIn \cup WritersQueued # {}
    <3>1. CASE writerActive
      BY <3>1 DEF CountersMatch
    <3>2. CASE writersWaiting > 0
      BY <3>2, FS_EmptySet DEF CountersMatch
    <3>. QED
      BY <1>2, <3>1, <3>2 DEF MustNotRead
  <2>. QED
    BY <2>1, <2>2, <2>3, <2>4 DEF CountersMatch, Exclusion, SleepersHaveAWaker
<1>3. CASE ~MustNotRead
  <2>1. pc' = [pc EXCEPT ![t] = "reading"] /\ readers' = readers + 1
        /\ UNCHANGED <<writersWaiting, writerActive>>
    BY <1>3
  <2>2. TypeOK'
    BY <2>1 DEF TypeOK, Places
  <2>3. /\ ReadersIn' = ReadersIn \cup {t} /\ WritersIn' = WritersIn
        /\ WritersQueued' = WritersQueued
        /\ At({"write_asleep"})' = At({"write_asleep"})
        /\ At({"read_asleep"})' \subseteq At({"read_asleep"})
    BY <1>1, <2>1 DEF TypeOK, ReadersIn, WritersIn, WritersQueued, At
  <2>4. readers' = Cardinality(ReadersIn)'
    <3>1. t \notin ReadersIn
      BY <1>1 DEF ReadersIn, At
    <3>. QED
      BY <2>1, <2>3, <3>1, AtFinite, FS_AddElement DEF CountersMatch, ReadersIn
  <2>5. WritersIn = {}
    BY <1>3 DEF MustNotRead, CountersMatch
  <2>. QED
    BY <2>1, <2>2, <2>3, <2>4, <2>5 DEF CountersMatch, Exclusion, SleepersHaveAWaker
<1>. QED
  BY <1>2, <1>3

LEMMA ReleaseReadIInv ==
    ASSUME IInv, NEW t \in Threads, ReleaseRead(t)
    PROVE  IInv'
<1>. USE DEF IInv
<1>1. /\ t \in ReadersIn
      /\ readers' = readers - 1
      /\ pc' = [(IF LastReader THEN Notified ELSE pc) EXCEPT ![t] = "idle"]
      /\ UNCHANGED <<writersWaiting, writerActive>>
  BY DEF ReleaseRead, ReadersIn, At
<1>2. ReadersIn' = ReadersIn \ {t} /\ WritersIn' = WritersIn /\ WritersQueued' = WritersQueued
  BY <1>1, NotifiedPlaces DEF TypeOK, ReadersIn, WritersIn, WritersQueued, At
<1>3. Cardinality(ReadersIn) = readers /\ readers \in Nat
  BY DEF CountersMatch, TypeOK
<1>4. Cardinality(ReadersIn') = readers - 1
  BY <1>1, <1>2, <1>3, AtFinite, FS_RemoveElement DEF ReadersIn
<1>5. readers' \in Nat /\ readers' = Cardinality(ReadersIn)'
  <2>1. Cardinality(ReadersIn') \in Nat
    BY <1>2, AtFinite, FS_RemoveElement, FS_CardinalityType DEF ReadersIn
  <2>. QED
    BY <1>1, <1>4, <2>1
<1>6. TypeOK'
  BY <1>1, <1>5, NotifiedPlaces DEF TypeOK, Places
<1>7. At({"read_asleep"})' \subseteq At({"read_asleep"})
  BY <1>1, NotifiedPlaces DEF TypeOK, At
<1>8. At({"write_asleep"})' # {} => (At({"write_retry"}) \cup ReadersIn \cup WritersIn)' # {}
  <2>1. CASE LastReader
    BY <1>1, <2>1, NotifiedPlaces DEF TypeOK, At
  <2>2. CASE ~LastReader
    <3>1. ReadersIn' # {}
      BY <1>1, <1>2, <1>4, <2>2, FS_EmptySet, <1>3 DEF LastReader
    <3>. QED
      BY <3>1
  <2>. QED
    BY <2>1, <2>2
<1>. QED
  BY <1>1, <1>2, <1>5, <1>6, <1>7, <1>8 DEF CountersMatch, Exclusion, SleepersHaveAWaker

LEMMA AcquireWriteIInv ==
    ASSUME IInv, NEW t \in Threads, AcquireWrite(t)
    PROVE  IInv'
<1>. USE DEF IInv
<1>. DEFINE queued == IF pc[t] = "idle" THEN Arrived ELSE writersWaiting
<1>1. pc[t] \in {"idle", "write_retry"} /\ readers' = readers
  BY DEF AcquireWrite
<1>2. queued \in Nat /\ queued = Cardinality(WritersQueued \cup {t})
  <2>1. IsFiniteSet(WritersQueued) /\ writersWaiting = Cardinality(WritersQueued)
        /\ writersWaiting \in Nat
    BY AtFinite DEF CountersMatch, TypeOK, WritersQueued
  <2>2. t \in WritersQueued <=> pc[t] # "idle"
    BY <1>1 DEF WritersQueued, At
  <2>3. Cardinality(WritersQueued \cup {t}) =
          IF t \in WritersQueued THEN writersWaiting ELSE writersWaiting + 1
    BY <2>1, FS_AddElement
  <2>. QED
    BY <2>1, <2>2, <2>3 DEF Arrived
<1>3. CASE MustNotWrite
  <2>1. pc' = [pc EXCEPT ![t] = "write_asleep"] /\ writersWaiting' = queued
        /\ UNCHANGED writerActive
    BY <1>3 DEF AcquireWrite
  <2>2. TypeOK'
    BY <1>1, <1>2, <2>1 DEF TypeOK, Places
  <2>3. /\ ReadersIn' = ReadersIn /\ WritersIn' = WritersIn
        /\ WritersQueued' = WritersQueued \cup {t}
    BY <1>1, <2>1 DEF TypeOK, ReadersIn, WritersIn, WritersQueued, At
  <2>4. ReadersIn \cup WritersIn # {}
    <3>1. CASE readers > 0
      BY <3>1, FS_EmptySet DEF CountersMatch
    <3>2. CASE writerActive
      BY <3>2 DEF CountersMatch
    <3>. QED
      BY <1>3, <3>1, <3>2 DEF MustNotWrite
  <2>. QED
    BY <1>1, <1>2, <2>1, <2>2, <2>3, <2>4 DEF CountersMatch, Exclusion, SleepersHaveAWaker
<1>4. CASE ~MustNotWrite
  <2>1. pc' = [pc EXCEPT ![t] = "writing"] /\ writersWaiting' = queued - 1
        /\ writerActive' = TRUE
    BY <1>4 DEF AcquireWrite
  <2>2. ReadersIn = {} /\ WritersIn = {}
    <3>1. readers = 0
      BY <1>4 DEF MustNotWrite, TypeOK
    <3>2. ReadersIn = {}
      BY <3>1, AtFinite, FS_EmptySet DEF CountersMatch, ReadersIn
    <3>. QED
      BY <1>4, <3>2 DEF MustNotWrite, CountersMatch
  <2>3. ReadersIn' = ReadersIn /\ WritersIn' = {t} /\ WritersQueued' = WritersQueued \ {t}
    BY <1>1, <2>1, <2>2 DEF TypeOK, ReadersIn, WritersIn, WritersQueued, At
  <2>4. writersWaiting' = Cardinality(WritersQueued') /\ writersWaiting' \in Nat
    <3>. DEFINE Q == WritersQueued \cup {t}
    <3>1. IsFiniteSet(Q)
      BY AtFinite, FS_AddElement DEF WritersQueued
    <3>2. Q \ {t} = WritersQueued' /\ t \in Q
      BY <2>3
    <3>3. Cardinality(Q \ {t}) = queued - 1 /\ Cardinality(Q \ {t}) \in Nat
      <4>1. Cardinality(Q \ {t}) = Cardinality(Q) - 1
        BY <3>1, <3>2, FS_RemoveElement
      <4>2. IsFiniteSet(Q \ {t})
        BY <3>1, FS_RemoveElement
      <4>3. Cardinality(Q \ {t}) \in Nat
        BY <4>2, FS_CardinalityType
      <4>. QED
        BY <1>2, <4>1, <4>3
    <3>. QED
      BY <2>1, <3>2, <3>3
  <2>5. TypeOK'
    BY <1>1, <2>1, <2>4 DEF TypeOK, Places
  <2>. QED
    BY <1>1, <2>1, <2>2, <2>3, <2>4, <2>5 DEF CountersMatch, Exclusion, SleepersHaveAWaker
<1>. QED
  BY <1>3, <1>4

LEMMA ReleaseWriteIInv ==
    ASSUME IInv, NEW t \in Threads, ReleaseWrite(t)
    PROVE  IInv'
<1>. USE DEF IInv
<1>1. /\ t \in WritersIn
      /\ writerActive' = FALSE /\ UNCHANGED <<readers, writersWaiting>>
      /\ pc' = [Notified EXCEPT ![t] = "idle"]
  BY DEF ReleaseWrite, WritersIn, At
<1>2. WritersIn = {t} /\ ReadersIn = {}
  BY <1>1 DEF Exclusion
<1>3. ReadersIn' = ReadersIn /\ WritersIn' = {} /\ WritersQueued' = WritersQueued
  BY <1>1, <1>2, NotifiedPlaces DEF TypeOK, ReadersIn, WritersIn, WritersQueued, At
<1>4. At({"write_asleep"})' = {} /\ At({"read_asleep"})' = {}
  BY <1>1, NotifiedPlaces DEF TypeOK, At
<1>5. TypeOK'
  BY <1>1, NotifiedPlaces DEF TypeOK, Places
<1>. QED
  BY <1>1, <1>3, <1>4, <1>5 DEF CountersMatch, Exclusion, SleepersHaveAWaker

(* The lock's invariants, for every finite set of threads: the types, what  *)
(* the counters count, exclusion, and that a sleeper is never left alone.   *)
THEOREM Invariance == Spec => []IInv
<1>1. IInv /\ [Next]_vars => IInv'
  <2>. SUFFICES ASSUME IInv, [Next]_vars PROVE IInv'
    OBVIOUS
  <2>1. ASSUME NEW t \in Threads, AcquireRead(t) PROVE IInv'
    BY <2>1, AcquireReadIInv
  <2>2. ASSUME NEW t \in Threads, ReleaseRead(t) PROVE IInv'
    BY <2>2, ReleaseReadIInv
  <2>3. ASSUME NEW t \in Threads, AcquireWrite(t) PROVE IInv'
    BY <2>3, AcquireWriteIInv
  <2>4. ASSUME NEW t \in Threads, ReleaseWrite(t) PROVE IInv'
    BY <2>4, ReleaseWriteIInv
  <2>5. CASE UNCHANGED vars
    BY <2>5 DEF vars, IInv, TypeOK, CountersMatch, Exclusion, SleepersHaveAWaker,
                ReadersIn, WritersIn, WritersQueued, At
  <2>. QED
    BY <2>1, <2>2, <2>3, <2>4, <2>5 DEF Next
<1>. QED
  BY <1>1, InitIInv, PTL DEF Spec

(* A writer is alone in the lock. *)
THEOREM MutualExclusion == Spec => []Exclusion
<1>1. IInv => Exclusion
  BY DEF IInv
<1>. QED
  BY <1>1, Invariance, PTL

(* Whoever sleeps has somebody left to wake it: the lock does not deadlock. *)
THEOREM NoLostSleeper == Spec => []SleepersHaveAWaker
<1>1. IInv => SleepersHaveAWaker
  BY DEF IInv
<1>. QED
  BY <1>1, Invariance, PTL

(* No reader gets in while a writer waits. *)
THEOREM Priority == Spec => WriterPriority
<1>1. IInv /\ [Next]_vars => [WritersQueued # {} => ReadersIn' \subseteq ReadersIn]_vars
  <2>. SUFFICES ASSUME IInv, WritersQueued # {}, NEW t \in Threads,
                       \/ AcquireRead(t) \/ ReleaseRead(t)
                       \/ AcquireWrite(t) \/ ReleaseWrite(t)
                PROVE  ReadersIn' \subseteq ReadersIn
    BY DEF Next
  <2>. USE DEF IInv
  <2>1. MustNotRead
    BY FS_EmptySet, AtFinite DEF MustNotRead, CountersMatch, TypeOK, WritersQueued
  <2>2. CASE AcquireRead(t)
    BY <2>1, <2>2 DEF AcquireRead, TypeOK, ReadersIn, At
  <2>3. CASE ReleaseRead(t)
    BY <2>3, NotifiedPlaces DEF ReleaseRead, TypeOK, ReadersIn, At
  <2>4. CASE AcquireWrite(t)
    BY <2>4 DEF AcquireWrite, TypeOK, ReadersIn, At
  <2>5. CASE ReleaseWrite(t)
    BY <2>5, NotifiedPlaces DEF ReleaseWrite, TypeOK, ReadersIn, At
  <2>. QED
    BY <2>2, <2>3, <2>4, <2>5
<1>. QED
  BY <1>1, Invariance, PTL DEF Spec, WriterPriority

=============================================================================
