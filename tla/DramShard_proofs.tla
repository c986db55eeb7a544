---------------------------- MODULE DramShard_proofs ----------------------------
(***************************************************************************)
(* Proofs about DramShard, for any keys, setters and bounds, whether sets  *)
(* overlap each other and the scan or not: where the histories name no     *)
(* exception, the map and the pool agree, nothing leaks, a get reads a row *)
(* of its own key, rows settle, and fresh rows stay.                       *)
(***************************************************************************)
EXTENDS DramShard, TLAPS

(* The locks: which places go with which store, and who excludes whom; in   *)
(* training no two sets overlap, nor a set and the scan.                    *)
Modes ==
    /\ training => /\ \A t \in Setters : pc[t] \in {"idle", "write"}
                   /\ evictor # "erase"
                   /\ evicting = {} /\ contended = {} /\ stray = {}
    /\ ~training => \A t \in Setters : pc[t] # "write"

Alone ==
    training => /\ \A t, u \in Setters : pc[t] = "write" /\ pc[u] = "write" => t = u
                /\ \A t \in Setters : pc[t] = "write" => evictor # "scan"

Rounds == evictor \in {"idle", "ready"} => evicting = {}

Control == Modes /\ Alone /\ Rounds

(* What a set knows of its keys: those it found stay in the map until it    *)
(* has copied them, those it did not are still missing, unless another set  *)
(* of theirs came.                                                          *)
CallKnows(t) ==
    /\ IF pc[t] = "idle" THEN op[t].keys = {} ELSE op[t].set \in 1..MaxSets
    /\ hits[t] \subseteq op[t].keys /\ misses[t] \subseteq op[t].keys
    /\ \A k \in hits[t] : map[k] # NoBlock
    /\ \A k \in misses[t] : fresh[t][k] = NoBlock /\ (map[k] = NoBlock \/ k \in contended)
    /\ hits[t] # {} => pc[t] \in {"write", "copy"}
    /\ half[t] \subseteq hits[t] /\ (half[t] # {} => pc[t] = "copy")
    /\ \A k, l \in half[t] : k = l
    /\ pc[t] = "insert" => misses[t] = {}
CallsKnow == \A t \in Setters : CallKnows(t)

Overlaps ==
    \A t, u \in Setters : t # u => op[t].keys \cap op[u].keys \subseteq contended

(* A new block is in use, under its key, or was freed under its set; the    *)
(* key is not in the map, unless another set put it there.                  *)
FreshKept(t) ==
    \A k \in Keys : fresh[t][k] # NoBlock =>
        /\ pc[t] \in {"fill", "insert"} /\ k \in op[t].keys
        /\ map[k] = NoBlock \/ k \in contended
        /\ fresh[t][k] \in stray \/ (fresh[t][k] \in used /\ keyOf[fresh[t][k]] = k)
AllFresh == \A t \in Setters : FreshKept(t)

Calling == CallsKnow /\ Overlaps /\ AllFresh

(* Where a key leads, and who leads to a block. *)
Leads   == \A k \in Keys : Found(k) => Owns(k) \/ k \in evicting \/ map[k] \in stray
HitsOwn == \A t \in Setters : \A k \in hits[t] : Owns(k) \/ map[k] \in stray
Led ==
    \A b \in Blocks : keyOf[b] # NoKey =>
        \/ map[keyOf[b]] = b \/ keyOf[b] \in contended
        \/ \E t \in Setters : fresh[t][keyOf[b]] = b
Keyed   == \A b \in used \ stray : keyOf[b] # NoKey

(* A key about to be erased has no block any more, and nobody fills one.    *)
Gone ==
    \A k \in evicting \ contended :
        /\ \A b \in Blocks : keyOf[b] # k
        /\ map[k] # NoBlock \/ \E t \in Setters : fresh[t][k] # NoBlock

Structure == Leads /\ HitsOwn /\ Led /\ Keyed /\ Gone

IInv == TypeOK /\ Control /\ Calling /\ Structure


-----------------------------------------------------------------------------
(* What allocate returns: a free block, inside the pool as it then is.      *)
LEMMA AllocatedBlock ==
    ASSUME TypeOK, HasRoom, NEW b \in Free(SizeToAllocate)
    PROVE  /\ b \in Blocks /\ b # NoBlock /\ (b \notin used \/ b \in stray)
           /\ SizeToAllocate \in 0..MaxBlocks /\ size <= SizeToAllocate
           /\ used \cup {b} \subseteq 1..SizeToAllocate
  BY DramConstants DEF TypeOK, HasRoom, Free, SizeToAllocate, Blocks, NoBlock

LEMMA BlocksOfMap ==
    ASSUME TypeOK
    PROVE  /\ \A k \in Keys : Found(k) => map[k] \in Blocks
           /\ \A t \in Setters, k \in Keys : fresh[t][k] # NoBlock => fresh[t][k] \in Blocks
           /\ used \subseteq Blocks /\ NoBlock \notin used /\ NoBlock \notin Blocks
           /\ NoKey \notin Keys
           /\ \A b \in Blocks : keyOf[b] # NoKey => keyOf[b] \in Keys
  BY DramConstants DEF TypeOK, Found, Blocks, NoBlock

(* The initial state. *)
LEMMA InitIInv == Init => IInv
<1> SUFFICES ASSUME Init PROVE IInv
  OBVIOUS
<1>1. TypeOK
  <2>1. Whole(NoWrite) \in Rows
    BY DEF Whole, Rows
  <2>. QED BY <2>1, DramConstants DEF Init, TypeOK, Calls, NoCall, Blocks, NoBlock, Stamps, Whole,
       SetterPlaces, EvictorPlaces
<1>2. Control
  BY DEF Init, Control, Modes, Alone, Rounds
<1>3. Calling /\ Structure
  BY DEF Init, Calling, CallsKnow, CallKnows, Overlaps, AllFresh, FreshKept, Structure, Leads, HitsOwn,
     Led, Keyed, Gone, Found, NoCall
<1> QED BY <1>1, <1>2, <1>3 DEF IInv

-----------------------------------------------------------------------------
(* Type correctness.                                                        *)

(* A row is written in the name of a set that has begun.                    *)
LEMMA RowType ==
    ASSUME TypeOK, CallsKnow, NEW t \in Setters, NEW k \in Keys, pc[t] # "idle"
    PROVE  Write(t, k) \in Writes /\ Whole(Write(t, k)) \in Rows
<1>1. Write(t, k) \in Writes
  BY DEF TypeOK, CallsKnow, CallKnows, Write, Writes, Calls
<1>. QED BY <1>1 DEF Whole, Rows

(* Every step keeps the types. *)
LEMMA StepType == IInv /\ Next => TypeOK'
<1> SUFFICES ASSUME IInv, Next PROVE TypeOK'
  OBVIOUS
<1> USE DEF IInv, Calling, Structure
<1>1. ASSUME NEW t \in Setters, SetBegin(t) PROVE TypeOK'
  <2>1. PICK keys \in (SUBSET Keys) \ {{}}, timed \in BOOLEAN, time \in Stamps :
          /\ op' = [op EXCEPT ![t] = [set |-> sets + 1, keys |-> keys,
                                      timed |-> timed, stamp |-> time]]
          /\ hits' = [hits EXCEPT ![t] = {k \in keys : Found(k)}]
          /\ misses' = [misses EXCEPT ![t] = {k \in keys : ~Found(k)}]
          /\ contended' = contended \cup {k \in keys : BeingSet(k)}
          /\ stray' = stray \cup {map[k] : k \in {j \in keys : Found(j) /\ ~Owns(j)}}
    BY <1>1 DEF SetBegin
  <2>2. op' \in [Setters -> Calls] /\ sets' \in 0..MaxSets
    BY <1>1, <2>1, DramConstants DEF SetBegin, TypeOK, Calls
  <2>3. contended' \subseteq Keys /\ stray' \subseteq 1..size
    <3>1. \A k \in Keys : Found(k) => map[k] \in 1..size
      BY DEF TypeOK, Found, NoBlock
    <3>. QED BY <2>1, <3>1 DEF TypeOK
  <2>4. /\ hits' \in [Setters -> SUBSET Keys] /\ misses' \in [Setters -> SUBSET Keys]
        /\ pc' \in [Setters -> SetterPlaces]
    BY <1>1, <2>1 DEF SetBegin, TypeOK, SetterPlaces
  <2>. QED BY <1>1, <2>2, <2>3, <2>4 DEF SetBegin, TypeOK, pool, round
<1>2. ASSUME NEW t \in Setters, WriteEnd(t) PROVE TypeOK'
  BY <1>2, DramConstants DEF WriteEnd, NoCall, TypeOK, NoBlock, pool, setters, round, races, EvictorPlaces, Calls, NoCall, Stamps, SetterPlaces
<1>3. ASSUME NEW t \in Setters, CopyDone(t) PROVE TypeOK'
  BY <1>3, DramConstants DEF CopyDone, CopiedAll, TypeOK, NoBlock, pool, setters, round, races, EvictorPlaces, Calls, NoCall, Stamps, SetterPlaces
<1>4. ASSUME NEW t \in Setters, TakePool(t) PROVE TypeOK'
  BY <1>4, DramConstants DEF TakePool, TypeOK, NoBlock, pool, setters, round, races, EvictorPlaces, Calls, NoCall, Stamps, SetterPlaces
<1>5. ASSUME NEW t \in Setters, GivePool(t) PROVE TypeOK'
  BY <1>5, DramConstants DEF GivePool, TypeOK, NoBlock, pool, setters, round, races, EvictorPlaces, Calls, NoCall, Stamps, SetterPlaces
<1>6. ASSUME NEW t \in Setters, Insert(t) PROVE TypeOK'
  BY <1>6, DramConstants DEF Insert, Inserted, NoCall, TypeOK, NoBlock, pool, setters, round, races, EvictorPlaces, Calls, NoCall, Stamps, SetterPlaces
<1>7. ASSUME NEW t \in Setters, NEW k \in Keys, WriteHit(t, k) PROVE TypeOK'
  <2>1. Whole(Write(t, k)) \in Rows /\ op[t].stamp \in Stamps /\ op[t].set \in 0..MaxSets
    BY <1>7, RowType DEF WriteHit, TypeOK, Calls
  <2>2. row' \in [Blocks -> Rows] /\ stamp' \in [Blocks -> Stamps]
    BY <1>7, <2>1 DEF WriteHit, TypeOK
  <2>3. /\ last' \in [Keys -> [set : 0..MaxSets, stamp : Stamps]]
        /\ hits' \in [Setters -> SUBSET Keys]
    BY <1>7, <2>1 DEF WriteHit, TypeOK
  <2>. QED BY <1>7, <2>2, <2>3 DEF WriteHit, TypeOK, round, races
<1>8. ASSUME NEW t \in Setters, NEW k \in Keys, WriteMiss(t, k) PROVE TypeOK'
  <2>1. PICK b \in Free(SizeToAllocate) : /\ AllocateFor(b, k, Write(t, k), op[t].stamp)
                                          /\ map' = [map EXCEPT ![k] = b]
    BY <1>8 DEF WriteMiss
  <2>2. Whole(Write(t, k)) \in Rows
    BY <1>8, RowType DEF WriteMiss
  <2>3. HasRoom
    BY <1>8 DEF WriteMiss
  <2>4. 0..size \subseteq 0..SizeToAllocate /\ 1..size \subseteq 1..SizeToAllocate
        /\ b \in 1..SizeToAllocate
    BY <2>3, AllocatedBlock DEF TypeOK
  <2>. QED BY <1>8, <2>1, <2>2, <2>3, <2>4, AllocatedBlock DEF WriteMiss, AllocateFor, TypeOK, round, races, Calls
<1>9. ASSUME NEW t \in Setters, NEW k \in Keys, CopyBegin(t, k) PROVE TypeOK'
  <2>1. Write(t, k) \in Writes
    BY <1>9, RowType DEF CopyBegin
  <2>2. row' \in [Blocks -> Rows]
    BY <1>9, <2>1 DEF CopyBegin, TypeOK, Rows
  <2>. QED BY <1>9, <2>2 DEF CopyBegin, TypeOK, pool, round, races
<1>10. ASSUME NEW t \in Setters, NEW k \in Keys, CopyEnd(t, k) PROVE TypeOK'
  <2>1. k \in hits[t] /\ pc[t] = "copy" /\ map[k] # NoBlock
    BY <1>10 DEF CopyEnd, CallsKnow, CallKnows
  <2>2. Write(t, k) \in Writes
    BY <2>1, RowType
  <2>3. row' \in [Blocks -> Rows]
    BY <1>10, <2>2 DEF CopyEnd, TypeOK, Rows
  <2>4. stamp' \in [Blocks -> Stamps]
    BY <1>10 DEF CopyEnd, NewStamp, TypeOK, Calls
  <2>5. used' \subseteq 1..size
    <3>1. map[k] \in 1..size
      BY <2>1 DEF TypeOK, NoBlock
    <3>. QED BY <1>10, <3>1 DEF CopyEnd, NewUsed, TypeOK
  <2>6. hits' \in [Setters -> SUBSET Keys] /\ half' \in [Setters -> SUBSET Keys]
    BY <1>10 DEF CopyEnd, TypeOK
  <2>. QED BY <1>10, <2>3, <2>4, <2>5, <2>6 DEF CopyEnd, TypeOK, round, races
<1>11. ASSUME NEW t \in Setters, NEW k \in Keys, Fill(t, k) PROVE TypeOK'
  <2>1. PICK b \in Free(SizeToAllocate) : /\ AllocateFor(b, k, Write(t, k), op[t].stamp)
                                          /\ fresh' = [fresh EXCEPT ![t][k] = b]
    BY <1>11 DEF Fill
  <2>2. Whole(Write(t, k)) \in Rows
    BY <1>11, RowType DEF Fill
  <2>3. HasRoom
    BY <1>11 DEF Fill
  <2>4. 0..size \subseteq 0..SizeToAllocate /\ 1..size \subseteq 1..SizeToAllocate
        /\ b \in 1..SizeToAllocate
    BY <2>3, AllocatedBlock DEF TypeOK
  <2>. QED BY <1>11, <2>1, <2>2, <2>3, <2>4, AllocatedBlock DEF Fill, AllocateFor, TypeOK, round, races, Calls
<1>12. ASSUME Trigger PROVE TypeOK'
  <2>1. /\ threshold' \in Stamps /\ evictor' \in EvictorPlaces
        /\ snapshot' \in 0..size /\ cursor' \in 0..snapshot'
    BY <1>12, DramConstants DEF Trigger, TypeOK, Stamps, EvictorPlaces
  <2>. QED BY <1>12, <2>1 DEF Trigger, TypeOK, pool, setters, races
<1>13. ASSUME ScanBegin PROVE TypeOK'
  BY <1>13, DramConstants DEF ScanBegin, TypeOK, NoBlock, pool, setters, round, races, EvictorPlaces, Calls, NoCall, Stamps, SetterPlaces
<1>14. ASSUME ScanBlock PROVE TypeOK'
  <2>1. cursor' \in 0..snapshot /\ cursor + 1 \in 1..size /\ cursor + 1 \in Blocks
    BY <1>14, DramConstants DEF ScanBlock, TypeOK, Blocks
  <2>2. /\ map' \in [Keys -> 0..size] /\ evicting' \subseteq Keys
        /\ used' \subseteq 1..size /\ keyOf' \in [Blocks -> Keys \cup {NoKey}]
        /\ stray' \subseteq 1..size
    <3>1. CASE EvictFromMap(cursor + 1)
      <4>1. map' \in [Keys -> 0..size]
        <5>1. NoBlock \in 0..size /\ map \in [Keys -> 0..size]
          BY DramConstants DEF TypeOK, NoBlock
        <5>2. map' = [map EXCEPT ![keyOf[cursor + 1]] = NoBlock]
          BY <3>1 DEF EvictFromMap
        <5>3. map' = [k \in Keys |-> IF k = keyOf[cursor + 1] THEN NoBlock ELSE map[k]]
          BY <5>1, <5>2
        <5>. QED BY <5>1, <5>3
      <4>. QED BY <1>14, <2>1, <3>1, <4>1 DEF ScanBlock, EvictFromMap, Deallocate, TypeOK
    <3>2. CASE EvictLater(cursor + 1)
      BY <1>14, <2>1, <3>2 DEF ScanBlock, EvictLater, FreedStray, Deallocate, TypeOK, NoBlock
    <3>3. CASE UNCHANGED <<map, used, keyOf, evicting, stray>>
      BY <1>14, <3>3 DEF ScanBlock, TypeOK
    <3>. QED BY <1>14, <3>1, <3>2, <3>3 DEF ScanBlock, Evict
  <2>. QED BY <1>14, <2>1, <2>2 DEF ScanBlock, TypeOK, setters
<1>15. ASSUME ScanEnd PROVE TypeOK'
  BY <1>15, DramConstants DEF ScanEnd, AfterScan, TypeOK, NoBlock, pool, setters, round, races, EvictorPlaces, Calls, NoCall, Stamps, SetterPlaces
<1>16. ASSUME Erase PROVE TypeOK'
  BY <1>16, DramConstants DEF Erase, AfterScan, TypeOK, NoBlock, pool, setters, round, races, EvictorPlaces, Calls, NoCall, Stamps, SetterPlaces
<1> QED BY <1>1, <1>2, <1>3, <1>4, <1>5, <1>6, <1>7, <1>8, <1>9, <1>10, <1>11, <1>12, <1>13, <1>14, <1>15, <1>16 DEF Next, EvictStep, SetStep

-----------------------------------------------------------------------------
(* The locks and the calls.                                                 *)

(* Every step keeps the locks' exclusions. *)
LEMMA StepControl == IInv /\ Next => Control'
<1> SUFFICES ASSUME IInv, Next PROVE Control'
  OBVIOUS
<1> USE DEF IInv, Calling, Structure
<1>1. ASSUME NEW t \in Setters, SetBegin(t) PROVE Control'
  <2>1. CASE training
    <3>1. \A u \in Setters : pc[u] = "idle"
      BY <1>1, <2>1 DEF SetBegin, WriteLocked, Control, Modes
    <3>2. \A k \in Keys : Found(k) => Owns(k)
      BY <2>1 DEF Leads, Control, Modes
    <3>3. contended' = {} /\ stray' = {}
      BY <1>1, <2>1, <3>1, <3>2 DEF SetBegin, BeingSet, Control, Modes
    <3>. QED BY <1>1, <2>1, <3>1, <3>3 DEF SetBegin, Control, Modes, Alone, Rounds, WriteLocked, TypeOK, round
  <2>2. CASE ~training
    BY <1>1, <2>2 DEF SetBegin, Control, Modes, Alone, Rounds, TypeOK, round
  <2>. QED BY <2>1, <2>2
<1>2. ASSUME NEW t \in Setters, WriteEnd(t) PROVE Control'
  BY <1>2 DEF WriteEnd, NoCall, Control, Modes, Alone, Rounds, WriteLocked, ReadLocked, TypeOK, pool, setters, round, races
<1>3. ASSUME NEW t \in Setters, CopyDone(t) PROVE Control'
  BY <1>3 DEF CopyDone, CopiedAll, Control, Modes, Alone, Rounds, WriteLocked, ReadLocked, TypeOK, pool, setters, round, races
<1>4. ASSUME NEW t \in Setters, TakePool(t) PROVE Control'
  BY <1>4 DEF TakePool, Control, Modes, Alone, Rounds, WriteLocked, ReadLocked, TypeOK, pool, setters, round, races
<1>5. ASSUME NEW t \in Setters, GivePool(t) PROVE Control'
  BY <1>5 DEF GivePool, Control, Modes, Alone, Rounds, WriteLocked, ReadLocked, TypeOK, pool, setters, round, races
<1>6. ASSUME NEW t \in Setters, Insert(t) PROVE Control'
  BY <1>6 DEF Insert, Inserted, NoCall, Control, Modes, Alone, Rounds, WriteLocked, ReadLocked, TypeOK, pool, setters, round, races
<1>7. ASSUME NEW t \in Setters, NEW k \in Keys, WriteHit(t, k) PROVE Control'
  BY <1>7 DEF WriteHit, Control, Modes, Alone, Rounds, WriteLocked, ReadLocked, TypeOK, pool, setters, round, races
<1>8. ASSUME NEW t \in Setters, NEW k \in Keys, WriteMiss(t, k) PROVE Control'
  BY <1>8 DEF WriteMiss, AllocateFor, Control, Modes, Alone, Rounds, WriteLocked, ReadLocked, TypeOK, pool, setters, round, races
<1>9. ASSUME NEW t \in Setters, NEW k \in Keys, CopyBegin(t, k) PROVE Control'
  BY <1>9 DEF CopyBegin, Control, Modes, Alone, Rounds, WriteLocked, ReadLocked, TypeOK, pool, setters, round, races
<1>10. ASSUME NEW t \in Setters, NEW k \in Keys, CopyEnd(t, k) PROVE Control'
  BY <1>10 DEF CopyEnd, NewStamp, NewUsed, Control, Modes, Alone, Rounds, WriteLocked, ReadLocked, TypeOK, pool, setters, round, races
<1>11. ASSUME NEW t \in Setters, NEW k \in Keys, Fill(t, k) PROVE Control'
  BY <1>11 DEF Fill, AllocateFor, Control, Modes, Alone, Rounds, WriteLocked, ReadLocked, TypeOK, pool, setters, round, races
<1>12. ASSUME Trigger PROVE Control'
  BY <1>12 DEF Trigger, Control, Modes, Alone, Rounds, WriteLocked, ReadLocked, TypeOK, pool, setters, round, races
<1>13. ASSUME ScanBegin PROVE Control'
  BY <1>13 DEF ScanBegin, Control, Modes, Alone, Rounds, WriteLocked, ReadLocked, TypeOK, pool, setters, round, races
<1>14. ASSUME ScanBlock PROVE Control'
  BY <1>14 DEF ScanBlock, Evict, EvictFromMap, EvictLater, Deallocate, Control, Modes, Alone, Rounds, WriteLocked, ReadLocked, TypeOK, pool, setters, round, races
<1>15. ASSUME ScanEnd PROVE Control'
  BY <1>15 DEF ScanEnd, AfterScan, Control, Modes, Alone, Rounds, WriteLocked, ReadLocked, TypeOK, pool, setters, round, races
<1>16. ASSUME Erase PROVE Control'
  BY <1>16 DEF Erase, AfterScan, Control, Modes, Alone, Rounds, WriteLocked, ReadLocked, TypeOK, pool, setters, round, races
<1> QED BY <1>1, <1>2, <1>3, <1>4, <1>5, <1>6, <1>7, <1>8, <1>9, <1>10, <1>11, <1>12, <1>13, <1>14, <1>15, <1>16 DEF Next, EvictStep, SetStep

(* A set knows which of its keys are in the map until it is done with them. *)
LEMMA StepCalls == IInv /\ Next => CallsKnow'
<1> SUFFICES ASSUME IInv, Next PROVE CallsKnow'
  OBVIOUS
<1> USE DEF IInv, Calling, Structure
<1>1. ASSUME NEW t \in Setters, SetBegin(t) PROVE CallsKnow'
  <2> SUFFICES ASSUME NEW u \in Setters PROVE CallKnows(u)'
    BY DEF CallsKnow
  <2>1. CASE u = t
    <3>1. PICK keys \in (SUBSET Keys) \ {{}} : /\ op'[t].keys = keys /\ op'[t].set = sets + 1
                                             /\ hits'[t] = {k \in keys : Found(k)}
                                             /\ misses'[t] = {k \in keys : ~Found(k)}
      BY <1>1 DEF SetBegin, TypeOK
    <3>2. pc[t] = "idle" /\ CallKnows(t) /\ \A k \in Keys : fresh[t][k] = NoBlock
      BY <1>1 DEF SetBegin, CallsKnow, AllFresh, FreshKept
    <3>3. half[t] = {}
      BY <3>2 DEF CallKnows
    <3>4. pc'[t] \in {"write", "copy"} /\ sets + 1 \in 1..MaxSets
      BY <1>1, DramConstants DEF SetBegin, TypeOK
    <3>. QED BY <1>1, <2>1, <3>1, <3>2, <3>3, <3>4 DEF SetBegin, CallKnows, Found
  <2>2. CASE u # t
    BY <1>1, <2>2 DEF SetBegin, CallsKnow, CallKnows, TypeOK
  <2>. QED BY <2>1, <2>2
<1>2. ASSUME NEW t \in Setters, WriteEnd(t) PROVE CallsKnow'
  BY <1>2 DEF WriteEnd, NoCall, CallsKnow, CallKnows, Control, Modes, Alone, TypeOK, Calls, pool, setters, races
<1>3. ASSUME NEW t \in Setters, CopyDone(t) PROVE CallsKnow'
  BY <1>3 DEF CopyDone, CopiedAll, CallsKnow, CallKnows, Control, Modes, Alone, TypeOK, Calls, pool, setters, races
<1>4. ASSUME NEW t \in Setters, TakePool(t) PROVE CallsKnow'
  BY <1>4 DEF TakePool, CallsKnow, CallKnows, Control, Modes, Alone, TypeOK, Calls, pool, setters, races
<1>5. ASSUME NEW t \in Setters, GivePool(t) PROVE CallsKnow'
  BY <1>5 DEF GivePool, CallsKnow, CallKnows, Control, Modes, Alone, TypeOK, Calls, pool, setters, races
<1>6. ASSUME NEW t \in Setters, Insert(t) PROVE CallsKnow'
  <2>1. misses[t] = {} /\ hits[t] = {} /\ half[t] = {} /\ ~training
    <3>1. pc[t] = "insert" /\ CallKnows(t)
      BY <1>6 DEF Insert, CallsKnow
    <3>. QED BY <3>1 DEF CallKnows, Control, Modes
  <2>2. \A k \in Keys : map'[k] # map[k] => k \in op[t].keys /\ map[k] = NoBlock
    BY <1>6 DEF Insert, Inserted, Found, AllFresh, FreshKept, TypeOK
  <2>3. ASSUME NEW u \in Setters, u # t PROVE CallKnows(u)'
    <3>1. op[u].keys \subseteq Keys /\ CallKnows(u)
      BY DEF TypeOK, Calls, CallsKnow
    <3>2. op[t].keys \cap op[u].keys \subseteq contended
      BY <2>3 DEF Overlaps
    <3>3. /\ \A k \in hits[u] : map'[k] # NoBlock
          /\ \A k \in misses[u] : map'[k] = NoBlock \/ k \in contended
      BY <2>2, <3>1, <3>2 DEF CallKnows
    <3>4. /\ UNCHANGED <<hits, half, misses, contended>>
          /\ op'[u] = op[u] /\ pc'[u] = pc[u] /\ fresh'[u] = fresh[u]
      BY <1>6, <2>3 DEF Insert, TypeOK, races
    <3>. QED BY <3>1, <3>3, <3>4 DEF CallKnows
  <2>4. CallKnows(t)'
    BY <1>6, <2>1 DEF Insert, CallKnows, NoCall, TypeOK
  <2>. QED BY <2>3, <2>4 DEF CallsKnow
<1>7. ASSUME NEW t \in Setters, NEW k \in Keys, WriteHit(t, k) PROVE CallsKnow'
  BY <1>7 DEF WriteHit, CallsKnow, CallKnows, Control, Modes, Alone, TypeOK, Calls, pool, setters, races
<1>8. ASSUME NEW t \in Setters, NEW k \in Keys, WriteMiss(t, k) PROVE CallsKnow'
  BY <1>8 DEF WriteMiss, AllocateFor, CallsKnow, CallKnows, Control, Modes, Alone, TypeOK, Calls, pool, setters, races
<1>9. ASSUME NEW t \in Setters, NEW k \in Keys, CopyBegin(t, k) PROVE CallsKnow'
  BY <1>9 DEF CopyBegin, CallsKnow, CallKnows, Control, Modes, Alone, TypeOK, Calls, pool, setters, races
<1>10. ASSUME NEW t \in Setters, NEW k \in Keys, CopyEnd(t, k) PROVE CallsKnow'
  BY <1>10 DEF CopyEnd, NewStamp, NewUsed, CallsKnow, CallKnows, Control, Modes, Alone, TypeOK, Calls, pool, setters, races
<1>11. ASSUME NEW t \in Setters, NEW k \in Keys, Fill(t, k) PROVE CallsKnow'
  BY <1>11 DEF Fill, AllocateFor, CallsKnow, CallKnows, Control, Modes, Alone, TypeOK, Calls, pool, setters, races
<1>12. ASSUME Trigger PROVE CallsKnow'
  BY <1>12 DEF Trigger, CallsKnow, CallKnows, Control, Modes, Alone, TypeOK, Calls, pool, setters, races
<1>13. ASSUME ScanBegin PROVE CallsKnow'
  BY <1>13 DEF ScanBegin, CallsKnow, CallKnows, Control, Modes, Alone, TypeOK, Calls, pool, setters, races
<1>14. ASSUME ScanBlock PROVE CallsKnow'
  BY <1>14 DEF ScanBlock, Evict, EvictFromMap, EvictLater, Deallocate, CallsKnow, CallKnows, Control, Modes, Alone, TypeOK, Calls, pool, setters, races
<1>15. ASSUME ScanEnd PROVE CallsKnow'
  BY <1>15 DEF ScanEnd, AfterScan, CallsKnow, CallKnows, Control, Modes, Alone, TypeOK, Calls, pool, setters, races
<1>16. ASSUME Erase PROVE CallsKnow'
  <2>1. \A t \in Setters : hits[t] = {}
    BY <1>16 DEF Erase, WriteLocked, ReadLocked, CallsKnow, CallKnows
  <2>. QED BY <1>16, <2>1 DEF Erase, CallsKnow, CallKnows, TypeOK, Calls, setters, races
<1> QED BY <1>1, <1>2, <1>3, <1>4, <1>5, <1>6, <1>7, <1>8, <1>9, <1>10, <1>11, <1>12, <1>13, <1>14, <1>15, <1>16 DEF Next, EvictStep, SetStep

(* Two sets with a key in common have it in contended. *)
LEMMA StepOverlaps == IInv /\ Next => Overlaps'
<1> SUFFICES ASSUME IInv, Next PROVE Overlaps'
  OBVIOUS
<1> USE DEF IInv, Calling, Structure
<1>1. ASSUME NEW t \in Setters, SetBegin(t) PROVE Overlaps'
  <2>1. PICK keys \in (SUBSET Keys) \ {{}} : /\ op'[t].keys = keys
                                             /\ \A u \in Setters : u # t => op'[u] = op[u]
                                             /\ contended' = contended \cup {k \in keys : BeingSet(k)}
    BY <1>1 DEF SetBegin, TypeOK
  <2>2. \A u \in Setters, k \in Keys : k \in op[u].keys => BeingSet(k)
    BY DEF BeingSet, CallsKnow, CallKnows
  <2>3. \A u \in Setters : op[u].keys \subseteq Keys
    BY DEF TypeOK, Calls
  <2>. QED BY <2>1, <2>2, <2>3 DEF Overlaps
<1>2. ASSUME NEW t \in Setters, WriteEnd(t) PROVE Overlaps'
  BY <1>2 DEF WriteEnd, NoCall, Overlaps, NoCall, BeingSet, CallsKnow, CallKnows, TypeOK, Calls, setters, races, Control, Modes
<1>3. ASSUME NEW t \in Setters, CopyDone(t) PROVE Overlaps'
  BY <1>3 DEF CopyDone, CopiedAll, Overlaps, NoCall, BeingSet, CallsKnow, CallKnows, TypeOK, Calls, setters, races, Control, Modes
<1>4. ASSUME NEW t \in Setters, TakePool(t) PROVE Overlaps'
  BY <1>4 DEF TakePool, Overlaps, NoCall, BeingSet, CallsKnow, CallKnows, TypeOK, Calls, setters, races, Control, Modes
<1>5. ASSUME NEW t \in Setters, GivePool(t) PROVE Overlaps'
  BY <1>5 DEF GivePool, Overlaps, NoCall, BeingSet, CallsKnow, CallKnows, TypeOK, Calls, setters, races, Control, Modes
<1>6. ASSUME NEW t \in Setters, Insert(t) PROVE Overlaps'
  BY <1>6 DEF Insert, Inserted, NoCall, Overlaps, NoCall, BeingSet, CallsKnow, CallKnows, TypeOK, Calls, setters, races, Control, Modes
<1>7. ASSUME NEW t \in Setters, NEW k \in Keys, WriteHit(t, k) PROVE Overlaps'
  BY <1>7 DEF WriteHit, Overlaps, NoCall, BeingSet, CallsKnow, CallKnows, TypeOK, Calls, setters, races, Control, Modes
<1>8. ASSUME NEW t \in Setters, NEW k \in Keys, WriteMiss(t, k) PROVE Overlaps'
  BY <1>8 DEF WriteMiss, AllocateFor, Overlaps, NoCall, BeingSet, CallsKnow, CallKnows, TypeOK, Calls, setters, races, Control, Modes
<1>9. ASSUME NEW t \in Setters, NEW k \in Keys, CopyBegin(t, k) PROVE Overlaps'
  BY <1>9 DEF CopyBegin, Overlaps, NoCall, BeingSet, CallsKnow, CallKnows, TypeOK, Calls, setters, races, Control, Modes
<1>10. ASSUME NEW t \in Setters, NEW k \in Keys, CopyEnd(t, k) PROVE Overlaps'
  BY <1>10 DEF CopyEnd, NewStamp, NewUsed, Overlaps, NoCall, BeingSet, CallsKnow, CallKnows, TypeOK, Calls, setters, races, Control, Modes
<1>11. ASSUME NEW t \in Setters, NEW k \in Keys, Fill(t, k) PROVE Overlaps'
  BY <1>11 DEF Fill, AllocateFor, Overlaps, NoCall, BeingSet, CallsKnow, CallKnows, TypeOK, Calls, setters, races, Control, Modes
<1>12. ASSUME Trigger PROVE Overlaps'
  BY <1>12 DEF Trigger, Overlaps, NoCall, BeingSet, CallsKnow, CallKnows, TypeOK, Calls, setters, races, Control, Modes
<1>13. ASSUME ScanBegin PROVE Overlaps'
  BY <1>13 DEF ScanBegin, Overlaps, NoCall, BeingSet, CallsKnow, CallKnows, TypeOK, Calls, setters, races, Control, Modes
<1>14. ASSUME ScanBlock PROVE Overlaps'
  BY <1>14 DEF ScanBlock, Evict, EvictFromMap, EvictLater, Deallocate, Overlaps, NoCall, BeingSet, CallsKnow, CallKnows, TypeOK, Calls, setters, races, Control, Modes
<1>15. ASSUME ScanEnd PROVE Overlaps'
  BY <1>15 DEF ScanEnd, AfterScan, Overlaps, NoCall, BeingSet, CallsKnow, CallKnows, TypeOK, Calls, setters, races, Control, Modes
<1>16. ASSUME Erase PROVE Overlaps'
  BY <1>16 DEF Erase, AfterScan, Overlaps, NoCall, BeingSet, CallsKnow, CallKnows, TypeOK, Calls, setters, races, Control, Modes
<1> QED BY <1>1, <1>2, <1>3, <1>4, <1>5, <1>6, <1>7, <1>8, <1>9, <1>10, <1>11, <1>12, <1>13, <1>14, <1>15, <1>16 DEF Next, EvictStep, SetStep

(* A new block stays its set's own until it is inserted or the scan frees it. *)
LEMMA StepFresh == IInv /\ Next => AllFresh'
<1> SUFFICES ASSUME IInv, Next PROVE AllFresh'
  OBVIOUS
<1> USE DEF IInv, Calling, Structure
<1>1. ASSUME NEW t \in Setters, SetBegin(t) PROVE AllFresh'
  BY <1>1 DEF SetBegin, AllFresh, FreshKept, CallsKnow, CallKnows, Control, Modes, Alone, TypeOK, pool, setters, races
<1>2. ASSUME NEW t \in Setters, WriteEnd(t) PROVE AllFresh'
  BY <1>2 DEF WriteEnd, NoCall, AllFresh, FreshKept, CallsKnow, CallKnows, Control, Modes, Alone, TypeOK, pool, setters, races
<1>3. ASSUME NEW t \in Setters, CopyDone(t) PROVE AllFresh'
  BY <1>3 DEF CopyDone, CopiedAll, AllFresh, FreshKept, CallsKnow, CallKnows, Control, Modes, Alone, TypeOK, pool, setters, races
<1>4. ASSUME NEW t \in Setters, TakePool(t) PROVE AllFresh'
  BY <1>4 DEF TakePool, AllFresh, FreshKept, CallsKnow, CallKnows, Control, Modes, Alone, TypeOK, pool, setters, races
<1>5. ASSUME NEW t \in Setters, GivePool(t) PROVE AllFresh'
  BY <1>5 DEF GivePool, AllFresh, FreshKept, CallsKnow, CallKnows, Control, Modes, Alone, TypeOK, pool, setters, races
<1>6. ASSUME NEW t \in Setters, Insert(t) PROVE AllFresh'
  <2>1. ASSUME NEW u \in Setters, NEW k \in Keys, u # t, fresh[u][k] # NoBlock
        PROVE  map'[k] = NoBlock \/ k \in contended
    <3>1. k \in op[u].keys /\ (map[k] = NoBlock \/ k \in contended)
      BY <2>1 DEF AllFresh, FreshKept
    <3>2. k \in op[t].keys => k \in contended
      BY <2>1, <3>1 DEF Overlaps
    <3>3. k \notin op[t].keys => fresh[t][k] = NoBlock
      BY DEF AllFresh, FreshKept
    <3>. QED BY <1>6, <3>1, <3>2, <3>3 DEF Insert, Inserted, Found
  <2>. QED BY <1>6, <2>1 DEF Insert, AllFresh, FreshKept, TypeOK, pool, races
<1>7. ASSUME NEW t \in Setters, NEW k \in Keys, WriteHit(t, k) PROVE AllFresh'
  BY <1>7 DEF WriteHit, AllFresh, FreshKept, CallsKnow, CallKnows, Control, Modes, Alone, TypeOK, pool, setters, races
<1>8. ASSUME NEW t \in Setters, NEW k \in Keys, WriteMiss(t, k) PROVE AllFresh'
  <2>1. training /\ \A u \in Setters, l \in Keys : fresh[u][l] = NoBlock
    BY <1>8 DEF WriteMiss, Control, Modes, AllFresh, FreshKept
  <2>. QED BY <1>8, <2>1 DEF WriteMiss, AllFresh, FreshKept
<1>9. ASSUME NEW t \in Setters, NEW k \in Keys, CopyBegin(t, k) PROVE AllFresh'
  BY <1>9 DEF CopyBegin, AllFresh, FreshKept, CallsKnow, CallKnows, Control, Modes, Alone, TypeOK, pool, setters, races
<1>10. ASSUME NEW t \in Setters, NEW k \in Keys, CopyEnd(t, k) PROVE AllFresh'
  <2>1. map[k] \notin stray => used' = used
    BY <1>10 DEF CopyEnd, NewUsed
  <2>2. \A b \in used : b \in used' \/ b \in stray
    BY <1>10 DEF CopyEnd, NewUsed
  <2>. QED BY <1>10, <2>2 DEF CopyEnd, AllFresh, FreshKept, races
<1>11. ASSUME NEW t \in Setters, NEW k \in Keys, Fill(t, k) PROVE AllFresh'
  <2>1. PICK b \in Free(SizeToAllocate) : AllocateFor(b, k, Write(t, k), op[t].stamp)
                                    /\ fresh' = [fresh EXCEPT ![t][k] = b]
    BY <1>11 DEF Fill
  <2>2. b \in Blocks /\ (b \notin used \/ b \in stray)
    BY <1>11, AllocatedBlock DEF Fill
  <2>3. /\ used' = used \cup {b} /\ keyOf'[b] = k
        /\ \A c \in used : c # b => keyOf'[c] = keyOf[c]
    BY <2>1, <2>2 DEF AllocateFor, TypeOK
  <2>4. \A u \in Setters, l \in Keys : fresh'[u][l] = IF u = t /\ l = k THEN b ELSE fresh[u][l]
    BY <2>1 DEF TypeOK
  <2>5. /\ UNCHANGED <<map, contended, stray, pc, op>> /\ pc[t] = "fill" /\ k \in op[t].keys
        /\ map[k] = NoBlock \/ k \in contended
    BY <1>11 DEF Fill, races, CallsKnow, CallKnows
  <2>6. ASSUME NEW u \in Setters, NEW l \in Keys, fresh'[u][l] # NoBlock
        PROVE  /\ pc[u] \in {"fill", "insert"} /\ l \in op[u].keys
               /\ map[l] = NoBlock \/ l \in contended
               /\ fresh'[u][l] \in stray \/ (fresh'[u][l] \in used' /\ keyOf'[fresh'[u][l]] = l)
    <3>1. CASE u = t /\ l = k
      BY <2>3, <2>4, <2>5, <3>1
    <3>2. CASE ~(u = t /\ l = k)
      BY <2>2, <2>3, <2>4, <2>6, <3>2 DEF AllFresh, FreshKept
    <3>. QED BY <3>1, <3>2
  <2>. QED BY <2>5, <2>6 DEF AllFresh, FreshKept
<1>12. ASSUME Trigger PROVE AllFresh'
  BY <1>12 DEF Trigger, AllFresh, FreshKept, CallsKnow, CallKnows, Control, Modes, Alone, TypeOK, pool, setters, races
<1>13. ASSUME ScanBegin PROVE AllFresh'
  BY <1>13 DEF ScanBegin, AllFresh, FreshKept, CallsKnow, CallKnows, Control, Modes, Alone, TypeOK, pool, setters, races
<1>14. ASSUME ScanBlock PROVE AllFresh'
  <2>1. CASE training
    <3>1. \A u \in Setters, l \in Keys : fresh[u][l] = NoBlock
      BY <2>1 DEF Control, Modes, AllFresh, FreshKept
    <3>. QED BY <1>14, <3>1 DEF ScanBlock, AllFresh, FreshKept, setters
  <2>2. CASE ~training /\ EvictLater(cursor + 1)
    <3>1. /\ cursor + 1 \in Blocks => keyOf' = [keyOf EXCEPT ![cursor + 1] = NoKey]
          /\ UNCHANGED <<map, pc, op, fresh, contended>> /\ stray \subseteq stray'
          /\ used' = used \ {cursor + 1} /\ (Awaited(cursor + 1) => cursor + 1 \in stray')
      BY <1>14, <2>2 DEF ScanBlock, EvictLater, Deallocate, FreedStray, setters
    <3>2. \A b \in used : b # cursor + 1 => keyOf'[b] = keyOf[b]
      BY <1>14, <2>2, BlocksOfMap DEF EvictLater, Deallocate, TypeOK
    <3>3. \A u \in Setters, l \in Keys : fresh[u][l] = cursor + 1 => Awaited(cursor + 1)
      BY DEF Awaited
    <3>. QED BY <3>1, <3>2, <3>3 DEF AllFresh, FreshKept
  <2>3. CASE UNCHANGED <<map, used, keyOf, evicting, stray>>
    BY <1>14, <2>3 DEF ScanBlock, AllFresh, FreshKept, setters
  <2>. QED BY <1>14, <2>1, <2>2, <2>3 DEF ScanBlock, Evict
<1>15. ASSUME ScanEnd PROVE AllFresh'
  BY <1>15 DEF ScanEnd, AfterScan, AllFresh, FreshKept, CallsKnow, CallKnows, Control, Modes, Alone, TypeOK, pool, setters, races
<1>16. ASSUME Erase PROVE AllFresh'
  BY <1>16 DEF Erase, AfterScan, AllFresh, FreshKept, CallsKnow, CallKnows, Control, Modes, Alone, TypeOK, pool, setters, races
<1> QED BY <1>1, <1>2, <1>3, <1>4, <1>5, <1>6, <1>7, <1>8, <1>9, <1>10, <1>11, <1>12, <1>13, <1>14, <1>15, <1>16 DEF Next, EvictStep, SetStep

-----------------------------------------------------------------------------
(* The map and the pool.                                                    *)

(* In training a set and the scan find every block in use in the map. *)
LEMMA TrainingMap ==
    ASSUME IInv, training
    PROVE  /\ contended = {} /\ stray = {} /\ evicting = {}
           /\ \A t \in Setters, k \in Keys : fresh[t][k] = NoBlock
           /\ \A b \in Blocks : keyOf[b] # NoKey => map[keyOf[b]] = b
           /\ \A k \in Keys : Found(k) => Owns(k)
<1> USE DEF IInv, Calling, Structure
<1>1. contended = {} /\ stray = {} /\ evicting = {}
  BY DEF Control, Modes
<1>2. \A t \in Setters, k \in Keys : fresh[t][k] = NoBlock
  BY DEF Control, Modes, AllFresh, FreshKept
<1>3. \A b \in Blocks : keyOf[b] # NoKey => map[keyOf[b]] = b
  BY <1>1, <1>2, BlocksOfMap DEF Led
<1>. QED BY <1>1, <1>2, <1>3 DEF Leads

(* A key that sets did not share is on one block at most. *)
LEMMA OneBlock ==
    ASSUME IInv, NEW b \in Blocks, NEW c \in Blocks, keyOf[b] = keyOf[c],
           keyOf[b] \in Keys \ contended
    PROVE  b = c
<1> USE DEF IInv, Calling, Structure
<1> DEFINE k == keyOf[b]
<1>1. \A d \in {b, c} : map[k] = d \/ \E t \in Setters : fresh[t][k] = d
  BY BlocksOfMap DEF Led
<1>2. \A t \in Setters : fresh[t][k] # NoBlock => map[k] = NoBlock /\ k \in op[t].keys
  BY DEF AllFresh, FreshKept
<1>3. \A t, u \in Setters : k \in op[t].keys /\ k \in op[u].keys => t = u
  BY DEF Overlaps
<1>. QED BY <1>1, <1>2, <1>3, BlocksOfMap

(* What a new block leaves alone: the used blocks that carry their key. *)
LEMMA NewBlock ==
    ASSUME IInv, HasRoom, NEW b \in Free(SizeToAllocate), NEW k \in Keys, NEW w, NEW time,
           AllocateFor(b, k, w, time)
    PROVE  /\ b \in Blocks /\ (b \notin used \/ b \in stray)
           /\ used' = used \cup {b} /\ keyOf'[b] = k /\ stamp'[b] = time /\ row'[b] = Whole(w)
           /\ \A c \in Blocks : c # b =>
                keyOf'[c] = keyOf[c] /\ stamp'[c] = stamp[c] /\ row'[c] = row[c]
  BY AllocatedBlock DEF AllocateFor, IInv, TypeOK

(* A key that is found leads to its block, or to one freed. *)
LEMMA StepLeads == IInv /\ Next => Leads'
<1> SUFFICES ASSUME IInv, Next PROVE Leads'
  OBVIOUS
<1> USE DEF IInv, Calling, Structure
<1>1. ASSUME NEW t \in Setters, SetBegin(t) PROVE Leads'
  <2>1. stray \subseteq stray' /\ UNCHANGED <<map, used, keyOf, evicting>>
    BY <1>1 DEF SetBegin, pool
  <2>. QED BY <2>1 DEF Leads, Found, Owns
<1>2. ASSUME NEW t \in Setters, WriteEnd(t) PROVE Leads'
  BY <1>2 DEF WriteEnd, NoCall, Leads, Found, Owns, TypeOK, pool, setters, races
<1>3. ASSUME NEW t \in Setters, CopyDone(t) PROVE Leads'
  BY <1>3 DEF CopyDone, CopiedAll, Leads, Found, Owns, TypeOK, pool, setters, races
<1>4. ASSUME NEW t \in Setters, TakePool(t) PROVE Leads'
  BY <1>4 DEF TakePool, Leads, Found, Owns, TypeOK, pool, setters, races
<1>5. ASSUME NEW t \in Setters, GivePool(t) PROVE Leads'
  BY <1>5 DEF GivePool, Leads, Found, Owns, TypeOK, pool, setters, races
<1>6. ASSUME NEW t \in Setters, Insert(t) PROVE Leads'
  <2>1. \A k \in Keys : map'[k] = IF Found(k) THEN map[k] ELSE fresh[t][k]
    BY <1>6 DEF Insert, Inserted
  <2>2. \A k \in Keys : fresh[t][k] # NoBlock =>
          fresh[t][k] \in stray \/ (fresh[t][k] \in used /\ keyOf[fresh[t][k]] = k)
    BY DEF AllFresh, FreshKept
  <2>3. UNCHANGED <<used, keyOf, evicting, stray>>
    BY <1>6 DEF Insert, pool, races
  <2>. QED BY <2>1, <2>2, <2>3 DEF Leads, Found, Owns
<1>7. ASSUME NEW t \in Setters, NEW k \in Keys, WriteHit(t, k) PROVE Leads'
  BY <1>7 DEF WriteHit, Leads, Found, Owns, TypeOK, pool, setters, races
<1>8. ASSUME NEW t \in Setters, NEW k \in Keys, WriteMiss(t, k) PROVE Leads'
  <2>1. PICK b \in Free(SizeToAllocate) : AllocateFor(b, k, Write(t, k), op[t].stamp)
                                    /\ map' = [map EXCEPT ![k] = b]
    BY <1>8 DEF WriteMiss
  <2>2. HasRoom
    BY <1>8 DEF WriteMiss
  <2>3. /\ b \in Blocks /\ (b \notin used \/ b \in stray)
        /\ used' = used \cup {b} /\ keyOf'[b] = k /\ stamp'[b] = op[t].stamp
        /\ row'[b] = Whole(Write(t, k))
        /\ \A c \in Blocks : c # b =>
             keyOf'[c] = keyOf[c] /\ stamp'[c] = stamp[c] /\ row'[c] = row[c]
    BY <2>1, <2>2, NewBlock

  <2>4. \A j \in Keys : j # k => map'[j] = map[j]
    BY <2>1 DEF TypeOK
  <2>5. map'[k] = b /\ UNCHANGED <<evicting, stray>> /\ training
    BY <1>8, <2>1 DEF WriteMiss, TypeOK, races, Control, Modes
  <2>6. \A j \in Keys : map[j] # NoBlock => map[j] \in used /\ keyOf[map[j]] = j /\ map[j] \in Blocks
    BY <2>5, TrainingMap, BlocksOfMap DEF Found, Owns
  <2>7. \A j \in Keys : j # k /\ map'[j] # NoBlock => map[j] # b
    BY <2>3, <2>4, <2>5, <2>6, TrainingMap
  <2>. QED BY <2>3, <2>4, <2>5, <2>6, <2>7 DEF Leads, Found, Owns
<1>9. ASSUME NEW t \in Setters, NEW k \in Keys, CopyBegin(t, k) PROVE Leads'
  BY <1>9 DEF CopyBegin, Leads, Found, Owns, TypeOK, pool, setters, races
<1>10. ASSUME NEW t \in Setters, NEW k \in Keys, CopyEnd(t, k) PROVE Leads'
  <2>1. UNCHANGED <<map, keyOf, evicting, stray>>
    BY <1>10 DEF CopyEnd, races
  <2>2. \A c : c \notin stray /\ c \in used => c \in used'
    BY <1>10 DEF CopyEnd, NewUsed
  <2>. QED BY <2>1, <2>2 DEF Leads, Found, Owns
<1>11. ASSUME NEW t \in Setters, NEW k \in Keys, Fill(t, k) PROVE Leads'
  <2>1. PICK b \in Free(SizeToAllocate) : AllocateFor(b, k, Write(t, k), op[t].stamp)
                                    /\ fresh' = [fresh EXCEPT ![t][k] = b]
    BY <1>11 DEF Fill
  <2>2. HasRoom
    BY <1>11 DEF Fill
  <2>3. /\ b \in Blocks /\ (b \notin used \/ b \in stray)
        /\ used' = used \cup {b} /\ keyOf'[b] = k /\ stamp'[b] = op[t].stamp
        /\ row'[b] = Whole(Write(t, k))
        /\ \A c \in Blocks : c # b =>
             keyOf'[c] = keyOf[c] /\ stamp'[c] = stamp[c] /\ row'[c] = row[c]
    BY <2>1, <2>2, NewBlock

  <2>4. UNCHANGED <<map, evicting, stray>>
    BY <1>11 DEF Fill, races
  <2>. QED BY <2>3, <2>4, BlocksOfMap DEF Leads, Found, Owns
<1>12. ASSUME Trigger PROVE Leads'
  BY <1>12 DEF Trigger, Leads, Found, Owns, TypeOK, pool, setters, races
<1>13. ASSUME ScanBegin PROVE Leads'
  BY <1>13 DEF ScanBegin, Leads, Found, Owns, TypeOK, pool, setters, races
<1>14. ASSUME ScanBlock PROVE Leads'
  <2> DEFINE b == cursor + 1
  <2>1. CASE b \in used /\ training /\ IsMapped(b) /\ EvictFromMap(b)
    <3>1. /\ b \in Blocks /\ used' = used \ {b} /\ keyOf[b] \in Keys /\ map[keyOf[b]] = b
          /\ \A c \in Blocks : c # b => keyOf'[c] = keyOf[c]
          /\ keyOf'[b] = NoKey /\ map'[keyOf[b]] = NoBlock
          /\ \A j \in Keys : j # keyOf[b] => map'[j] = map[j]
      BY <2>1, TrainingMap, BlocksOfMap DEF EvictFromMap, Deallocate, TypeOK, Keyed
    <3>2. UNCHANGED <<stamp, row, fresh, hits, op, last, evicting, contended, stray>>
      BY <1>14, <2>1 DEF ScanBlock, EvictFromMap, setters

    <3>3. \A j \in Keys : Found(j)' => j # keyOf[b] /\ map'[j] = map[j] /\ Owns(j) /\ map[j] # b /\ map[j] \in Blocks
      BY <2>1, <3>1, TrainingMap, BlocksOfMap DEF Found, Owns
    <3>. QED BY <3>1, <3>3 DEF Leads, Found, Owns
  <2>2. CASE b \in used /\ ~training /\ Stale(b) /\ EvictLater(b)
    <3>1. /\ b \in Blocks /\ used' = used \ {b} /\ keyOf'[b] = NoKey
          /\ \A c \in Blocks : c # b => keyOf'[c] = keyOf[c]
          /\ evicting' = evicting \cup ({keyOf[b]} \cap Keys)
          /\ stray \subseteq stray' /\ stray' \subseteq stray \cup {b}
          /\ (Awaited(b) => b \in stray')
      BY <2>2, BlocksOfMap DEF EvictLater, Deallocate, FreedStray, TypeOK
    <3>2. UNCHANGED <<map, stamp, row, fresh, hits, op, last, threshold, contended>>
      BY <1>14, <2>2 DEF ScanBlock, EvictLater, setters

    <3>. QED BY <3>1, <3>2, BlocksOfMap DEF Leads, Found, Owns
  <2>3. CASE UNCHANGED <<map, used, keyOf, evicting, stray>>
    BY <1>14, <2>3 DEF ScanBlock, Leads, Found, Owns, TypeOK, pool, setters, races
  <2>. QED BY <1>14, <2>1, <2>2, <2>3 DEF ScanBlock, Evict
<1>15. ASSUME ScanEnd PROVE Leads'
  BY <1>15 DEF ScanEnd, AfterScan, Leads, Found, Owns, TypeOK, pool, setters, races
<1>16. ASSUME Erase PROVE Leads'
  <2>1. \A k \in Keys : map'[k] = IF k \in evicting THEN NoBlock ELSE map[k]
    BY <1>16 DEF Erase
  <2>2. UNCHANGED <<used, keyOf, stray>>
    BY <1>16 DEF Erase, pool, races
  <2>. QED BY <2>1, <2>2 DEF Leads, Found, Owns
<1> QED BY <1>1, <1>2, <1>3, <1>4, <1>5, <1>6, <1>7, <1>8, <1>9, <1>10, <1>11, <1>12, <1>13, <1>14, <1>15, <1>16 DEF Next, EvictStep, SetStep

(* A key a set is to copy into leads to its block, or to one freed. *)
LEMMA StepHits == IInv /\ Next => HitsOwn'
<1> SUFFICES ASSUME IInv, Next PROVE HitsOwn'
  OBVIOUS
<1> USE DEF IInv, Calling, Structure
<1>1. ASSUME NEW t \in Setters, SetBegin(t) PROVE HitsOwn'
  <2>1. PICK keys \in (SUBSET Keys) \ {{}} :
          /\ hits'[t] = {k \in keys : Found(k)} /\ \A u \in Setters : u # t => hits'[u] = hits[u]
          /\ stray' = stray \cup {map[k] : k \in {j \in keys : Found(j) /\ ~Owns(j)}}
    BY <1>1 DEF SetBegin, TypeOK
  <2>2. UNCHANGED <<map, used, keyOf>>
    BY <1>1 DEF SetBegin, pool
  <2>3. \A k \in hits'[t] : Owns(k) \/ map[k] \in stray'
    BY <2>1
  <2>. QED BY <2>1, <2>2, <2>3 DEF HitsOwn, Owns
<1>2. ASSUME NEW t \in Setters, WriteEnd(t) PROVE HitsOwn'
  BY <1>2 DEF WriteEnd, NoCall, HitsOwn, Leads, Found, Owns, CallsKnow, CallKnows, TypeOK, Calls, pool, setters, races
<1>3. ASSUME NEW t \in Setters, CopyDone(t) PROVE HitsOwn'
  BY <1>3 DEF CopyDone, CopiedAll, HitsOwn, Leads, Found, Owns, CallsKnow, CallKnows, TypeOK, Calls, pool, setters, races
<1>4. ASSUME NEW t \in Setters, TakePool(t) PROVE HitsOwn'
  BY <1>4 DEF TakePool, HitsOwn, Leads, Found, Owns, CallsKnow, CallKnows, TypeOK, Calls, pool, setters, races
<1>5. ASSUME NEW t \in Setters, GivePool(t) PROVE HitsOwn'
  BY <1>5 DEF GivePool, HitsOwn, Leads, Found, Owns, CallsKnow, CallKnows, TypeOK, Calls, pool, setters, races
<1>6. ASSUME NEW t \in Setters, Insert(t) PROVE HitsOwn'
  <2>1. \A k \in Keys : Found(k) => map'[k] = map[k]
    BY <1>6 DEF Insert, Inserted
  <2>2. \A u \in Setters : \A k \in hits[u] : k \in Keys /\ Found(k)
    BY DEF CallsKnow, CallKnows, Found, TypeOK
  <2>3. UNCHANGED <<hits, used, keyOf, stray>>
    BY <1>6 DEF Insert, pool, races
  <2>. QED BY <2>1, <2>2, <2>3 DEF HitsOwn, Owns
<1>7. ASSUME NEW t \in Setters, NEW k \in Keys, WriteHit(t, k) PROVE HitsOwn'
  BY <1>7 DEF WriteHit, HitsOwn, Leads, Found, Owns, CallsKnow, CallKnows, TypeOK, Calls, pool, setters, races
<1>8. ASSUME NEW t \in Setters, NEW k \in Keys, WriteMiss(t, k) PROVE HitsOwn'
  <2>1. PICK b \in Free(SizeToAllocate) : AllocateFor(b, k, Write(t, k), op[t].stamp)
                                    /\ map' = [map EXCEPT ![k] = b]
    BY <1>8 DEF WriteMiss
  <2>2. HasRoom
    BY <1>8 DEF WriteMiss
  <2>3. /\ b \in Blocks /\ (b \notin used \/ b \in stray)
        /\ used' = used \cup {b} /\ keyOf'[b] = k /\ stamp'[b] = op[t].stamp
        /\ row'[b] = Whole(Write(t, k))
        /\ \A c \in Blocks : c # b =>
             keyOf'[c] = keyOf[c] /\ stamp'[c] = stamp[c] /\ row'[c] = row[c]
    BY <2>1, <2>2, NewBlock

  <2>4. \A j \in Keys : j # k => map'[j] = map[j]
    BY <2>1 DEF TypeOK
  <2>5. UNCHANGED <<hits, stray>> /\ training /\ map[k] = NoBlock
    BY <1>8, TrainingMap DEF WriteMiss, races, Control, Modes, CallsKnow, CallKnows
  <2>6. \A u \in Setters : \A j \in hits[u] : j \in Keys /\ j # k /\ Owns(j) /\ map[j] \in Blocks
    BY <2>5, TrainingMap, BlocksOfMap DEF CallsKnow, CallKnows, Found, Owns, TypeOK
  <2>7. \A u \in Setters : \A j \in hits[u] : map[j] # b
    BY <2>3, <2>5, <2>6, TrainingMap DEF Owns
  <2>. QED BY <2>3, <2>4, <2>5, <2>6, <2>7 DEF HitsOwn, Owns
<1>9. ASSUME NEW t \in Setters, NEW k \in Keys, CopyBegin(t, k) PROVE HitsOwn'
  BY <1>9 DEF CopyBegin, HitsOwn, Leads, Found, Owns, CallsKnow, CallKnows, TypeOK, Calls, pool, setters, races
<1>10. ASSUME NEW t \in Setters, NEW k \in Keys, CopyEnd(t, k) PROVE HitsOwn'
  <2>1. UNCHANGED <<map, keyOf, stray>> /\ \A u \in Setters : hits'[u] \subseteq hits[u]
    BY <1>10 DEF CopyEnd, races, TypeOK
  <2>2. \A c : c \notin stray /\ c \in used => c \in used'
    BY <1>10 DEF CopyEnd, NewUsed
  <2>. QED BY <2>1, <2>2 DEF HitsOwn, Owns
<1>11. ASSUME NEW t \in Setters, NEW k \in Keys, Fill(t, k) PROVE HitsOwn'
  <2>1. PICK b \in Free(SizeToAllocate) : AllocateFor(b, k, Write(t, k), op[t].stamp)
                                    /\ fresh' = [fresh EXCEPT ![t][k] = b]
    BY <1>11 DEF Fill
  <2>2. HasRoom
    BY <1>11 DEF Fill
  <2>3. /\ b \in Blocks /\ (b \notin used \/ b \in stray)
        /\ used' = used \cup {b} /\ keyOf'[b] = k /\ stamp'[b] = op[t].stamp
        /\ row'[b] = Whole(Write(t, k))
        /\ \A c \in Blocks : c # b =>
             keyOf'[c] = keyOf[c] /\ stamp'[c] = stamp[c] /\ row'[c] = row[c]
    BY <2>1, <2>2, NewBlock

  <2>4. UNCHANGED <<map, hits, stray>>
    BY <1>11 DEF Fill, races
  <2>. QED BY <2>3, <2>4, BlocksOfMap DEF HitsOwn, Owns
<1>12. ASSUME Trigger PROVE HitsOwn'
  BY <1>12 DEF Trigger, HitsOwn, Leads, Found, Owns, CallsKnow, CallKnows, TypeOK, Calls, pool, setters, races
<1>13. ASSUME ScanBegin PROVE HitsOwn'
  BY <1>13 DEF ScanBegin, HitsOwn, Leads, Found, Owns, CallsKnow, CallKnows, TypeOK, Calls, pool, setters, races
<1>14. ASSUME ScanBlock PROVE HitsOwn'
  <2> DEFINE b == cursor + 1
  <2>1. CASE b \in used /\ training /\ IsMapped(b) /\ EvictFromMap(b)
    <3>1. \A u \in Setters : hits[u] = {}
      BY <1>14, <2>1 DEF ScanBlock, Control, Modes, Alone, CallsKnow, CallKnows
    <3>. QED BY <1>14, <3>1 DEF ScanBlock, HitsOwn, setters
  <2>2. CASE b \in used /\ ~training /\ Stale(b) /\ EvictLater(b)
    <3>1. /\ b \in Blocks /\ used' = used \ {b} /\ keyOf'[b] = NoKey
          /\ \A c \in Blocks : c # b => keyOf'[c] = keyOf[c]
          /\ evicting' = evicting \cup ({keyOf[b]} \cap Keys)
          /\ stray \subseteq stray' /\ stray' \subseteq stray \cup {b}
          /\ (Awaited(b) => b \in stray')
      BY <2>2, BlocksOfMap DEF EvictLater, Deallocate, FreedStray, TypeOK
    <3>2. UNCHANGED <<map, stamp, row, fresh, hits, op, last, threshold, contended>>
      BY <1>14, <2>2 DEF ScanBlock, EvictLater, setters

    <3>3. \A u \in Setters : \A k \in hits[u] : k \in Keys /\ (map[k] = b => Awaited(b))
      BY DEF Awaited, TypeOK
    <3>. QED BY <3>1, <3>2, <3>3, BlocksOfMap DEF HitsOwn, Owns
  <2>3. CASE UNCHANGED <<map, used, keyOf, evicting, stray>>
    BY <1>14, <2>3 DEF ScanBlock, HitsOwn, Leads, Found, Owns, CallsKnow, CallKnows, TypeOK, Calls, pool, setters, races
  <2>. QED BY <1>14, <2>1, <2>2, <2>3 DEF ScanBlock, Evict
<1>15. ASSUME ScanEnd PROVE HitsOwn'
  BY <1>15 DEF ScanEnd, AfterScan, HitsOwn, Leads, Found, Owns, CallsKnow, CallKnows, TypeOK, Calls, pool, setters, races
<1>16. ASSUME Erase PROVE HitsOwn'
  <2>1. \A u \in Setters : hits'[u] = {}
    BY <1>16 DEF Erase, ReadLocked, WriteLocked, CallsKnow, CallKnows, setters
  <2>. QED BY <2>1 DEF HitsOwn
<1> QED BY <1>1, <1>2, <1>3, <1>4, <1>5, <1>6, <1>7, <1>8, <1>9, <1>10, <1>11, <1>12, <1>13, <1>14, <1>15, <1>16 DEF Next, EvictStep, SetStep

(* A block is found by the key it carries, or is about to be inserted. *)
LEMMA StepLed == IInv /\ Next => Led'
<1> SUFFICES ASSUME IInv, Next PROVE Led'
  OBVIOUS
<1> USE DEF IInv, Calling, Structure
<1>1. ASSUME NEW t \in Setters, SetBegin(t) PROVE Led'
  <2>1. contended \subseteq contended' /\ UNCHANGED <<map, keyOf, fresh>>
    BY <1>1 DEF SetBegin, pool
  <2>. QED BY <2>1 DEF Led
<1>2. ASSUME NEW t \in Setters, WriteEnd(t) PROVE Led'
  BY <1>2 DEF WriteEnd, NoCall, Led, TypeOK, pool, setters, races
<1>3. ASSUME NEW t \in Setters, CopyDone(t) PROVE Led'
  BY <1>3 DEF CopyDone, CopiedAll, Led, TypeOK, pool, setters, races
<1>4. ASSUME NEW t \in Setters, TakePool(t) PROVE Led'
  BY <1>4 DEF TakePool, Led, TypeOK, pool, setters, races
<1>5. ASSUME NEW t \in Setters, GivePool(t) PROVE Led'
  BY <1>5 DEF GivePool, Led, TypeOK, pool, setters, races
<1>6. ASSUME NEW t \in Setters, Insert(t) PROVE Led'
  <2>1. \A k \in Keys : map'[k] = IF Found(k) THEN map[k] ELSE fresh[t][k]
    BY <1>6 DEF Insert, Inserted
  <2>2. \A u \in Setters : u # t => fresh'[u] = fresh[u]
    BY <1>6 DEF Insert, TypeOK
  <2>3. UNCHANGED <<keyOf, contended>>
    BY <1>6 DEF Insert, pool, races
  <2>4. \A k \in Keys : fresh[t][k] # NoBlock /\ k \notin contended => ~Found(k)
    BY DEF AllFresh, FreshKept, Found
  <2>. QED BY <2>1, <2>2, <2>3, <2>4, BlocksOfMap DEF Led, Found
<1>7. ASSUME NEW t \in Setters, NEW k \in Keys, WriteHit(t, k) PROVE Led'
  BY <1>7 DEF WriteHit, Led, TypeOK, pool, setters, races
<1>8. ASSUME NEW t \in Setters, NEW k \in Keys, WriteMiss(t, k) PROVE Led'
  <2>1. PICK b \in Free(SizeToAllocate) : AllocateFor(b, k, Write(t, k), op[t].stamp)
                                    /\ map' = [map EXCEPT ![k] = b]
    BY <1>8 DEF WriteMiss
  <2>2. HasRoom
    BY <1>8 DEF WriteMiss
  <2>3. /\ b \in Blocks /\ (b \notin used \/ b \in stray)
        /\ used' = used \cup {b} /\ keyOf'[b] = k /\ stamp'[b] = op[t].stamp
        /\ row'[b] = Whole(Write(t, k))
        /\ \A c \in Blocks : c # b =>
             keyOf'[c] = keyOf[c] /\ stamp'[c] = stamp[c] /\ row'[c] = row[c]
    BY <2>1, <2>2, NewBlock

  <2>4. \A j \in Keys : j # k => map'[j] = map[j]
    BY <2>1 DEF TypeOK
  <2>5. UNCHANGED <<fresh, contended>> /\ map'[k] = b /\ training /\ map[k] = NoBlock
    BY <1>8, <2>1, TrainingMap DEF WriteMiss, races, Control, Modes, CallsKnow, CallKnows, TypeOK
  <2>6. \A c \in Blocks : keyOf[c] # NoKey => map[keyOf[c]] = c /\ keyOf[c] # k
    BY <2>5, TrainingMap, BlocksOfMap
  <2>. QED BY <2>3, <2>4, <2>5, <2>6, BlocksOfMap DEF Led
<1>9. ASSUME NEW t \in Setters, NEW k \in Keys, CopyBegin(t, k) PROVE Led'
  BY <1>9 DEF CopyBegin, Led, TypeOK, pool, setters, races
<1>10. ASSUME NEW t \in Setters, NEW k \in Keys, CopyEnd(t, k) PROVE Led'
  BY <1>10 DEF CopyEnd, NewStamp, NewUsed, Led, TypeOK, pool, setters, races
<1>11. ASSUME NEW t \in Setters, NEW k \in Keys, Fill(t, k) PROVE Led'
  <2>1. PICK b \in Free(SizeToAllocate) : AllocateFor(b, k, Write(t, k), op[t].stamp)
                                    /\ fresh' = [fresh EXCEPT ![t][k] = b]
    BY <1>11 DEF Fill
  <2>2. HasRoom
    BY <1>11 DEF Fill
  <2>3. /\ b \in Blocks /\ (b \notin used \/ b \in stray)
        /\ used' = used \cup {b} /\ keyOf'[b] = k /\ stamp'[b] = op[t].stamp
        /\ row'[b] = Whole(Write(t, k))
        /\ \A c \in Blocks : c # b =>
             keyOf'[c] = keyOf[c] /\ stamp'[c] = stamp[c] /\ row'[c] = row[c]
    BY <2>1, <2>2, NewBlock

  <2>4. UNCHANGED <<map, contended>> /\ fresh'[t][k] = b /\ fresh[t][k] = NoBlock
    BY <1>11, <2>1 DEF Fill, races, TypeOK, CallsKnow, CallKnows
  <2>5. \A u \in Setters, l \in Keys : fresh[u][l] # NoBlock => fresh'[u][l] = fresh[u][l]
    BY <2>1, <2>4 DEF TypeOK
  <2>. QED BY <2>3, <2>4, <2>5, BlocksOfMap DEF Led
<1>12. ASSUME Trigger PROVE Led'
  BY <1>12 DEF Trigger, Led, TypeOK, pool, setters, races
<1>13. ASSUME ScanBegin PROVE Led'
  BY <1>13 DEF ScanBegin, Led, TypeOK, pool, setters, races
<1>14. ASSUME ScanBlock PROVE Led'
  <2> DEFINE b == cursor + 1
  <2>1. CASE b \in used /\ training /\ IsMapped(b) /\ EvictFromMap(b)
    <3>1. /\ b \in Blocks /\ used' = used \ {b} /\ keyOf[b] \in Keys /\ map[keyOf[b]] = b
          /\ \A c \in Blocks : c # b => keyOf'[c] = keyOf[c]
          /\ keyOf'[b] = NoKey /\ map'[keyOf[b]] = NoBlock
          /\ \A j \in Keys : j # keyOf[b] => map'[j] = map[j]
      BY <2>1, TrainingMap, BlocksOfMap DEF EvictFromMap, Deallocate, TypeOK, Keyed
    <3>2. UNCHANGED <<stamp, row, fresh, hits, op, last, evicting, contended, stray>>
      BY <1>14, <2>1 DEF ScanBlock, EvictFromMap, setters

    <3>3. \A c \in Blocks : c # b /\ keyOf[c] # NoKey => map[keyOf[c]] = c /\ keyOf[c] # keyOf[b]
      BY <2>1, <3>1, TrainingMap
    <3>. QED BY <3>1, <3>3, BlocksOfMap DEF Led
  <2>2. CASE b \in used /\ ~training /\ Stale(b) /\ EvictLater(b)
    <3>1. /\ b \in Blocks /\ used' = used \ {b} /\ keyOf'[b] = NoKey
          /\ \A c \in Blocks : c # b => keyOf'[c] = keyOf[c]
          /\ evicting' = evicting \cup ({keyOf[b]} \cap Keys)
          /\ stray \subseteq stray' /\ stray' \subseteq stray \cup {b}
          /\ (Awaited(b) => b \in stray')
      BY <2>2, BlocksOfMap DEF EvictLater, Deallocate, FreedStray, TypeOK
    <3>2. UNCHANGED <<map, stamp, row, fresh, hits, op, last, threshold, contended>>
      BY <1>14, <2>2 DEF ScanBlock, EvictLater, setters

    <3>. QED BY <3>1, <3>2 DEF Led
  <2>3. CASE UNCHANGED <<map, used, keyOf, evicting, stray>>
    BY <1>14, <2>3 DEF ScanBlock, Led, TypeOK, pool, setters, races
  <2>. QED BY <1>14, <2>1, <2>2, <2>3 DEF ScanBlock, Evict
<1>15. ASSUME ScanEnd PROVE Led'
  BY <1>15 DEF ScanEnd, AfterScan, Led, TypeOK, pool, setters, races
<1>16. ASSUME Erase PROVE Led'
  <2>1. \A k \in Keys : map'[k] = IF k \in evicting THEN NoBlock ELSE map[k]
    BY <1>16 DEF Erase
  <2>2. UNCHANGED <<keyOf, fresh, contended>>
    BY <1>16 DEF Erase, pool, races, setters
  <2>3. \A c \in Blocks : keyOf[c] \in evicting => keyOf[c] \in contended
    BY DEF Gone
  <2>. QED BY <2>1, <2>2, <2>3, BlocksOfMap DEF Led
<1> QED BY <1>1, <1>2, <1>3, <1>4, <1>5, <1>6, <1>7, <1>8, <1>9, <1>10, <1>11, <1>12, <1>13, <1>14, <1>15, <1>16 DEF Next, EvictStep, SetStep

(* A used block carries a key, unless the scan freed it under a set. *)
LEMMA StepKeyed == IInv /\ Next => Keyed'
<1> SUFFICES ASSUME IInv, Next PROVE Keyed'
  OBVIOUS
<1> USE DEF IInv, Calling, Structure
<1>1. ASSUME NEW t \in Setters, SetBegin(t) PROVE Keyed'
  <2>1. stray \subseteq stray' /\ UNCHANGED <<used, keyOf>>
    BY <1>1 DEF SetBegin, pool
  <2>. QED BY <2>1 DEF Keyed
<1>2. ASSUME NEW t \in Setters, WriteEnd(t) PROVE Keyed'
  BY <1>2 DEF WriteEnd, NoCall, Keyed, TypeOK, pool, setters, races
<1>3. ASSUME NEW t \in Setters, CopyDone(t) PROVE Keyed'
  BY <1>3 DEF CopyDone, CopiedAll, Keyed, TypeOK, pool, setters, races
<1>4. ASSUME NEW t \in Setters, TakePool(t) PROVE Keyed'
  BY <1>4 DEF TakePool, Keyed, TypeOK, pool, setters, races
<1>5. ASSUME NEW t \in Setters, GivePool(t) PROVE Keyed'
  BY <1>5 DEF GivePool, Keyed, TypeOK, pool, setters, races
<1>6. ASSUME NEW t \in Setters, Insert(t) PROVE Keyed'
  BY <1>6 DEF Insert, Inserted, NoCall, Keyed, TypeOK, pool, setters, races
<1>7. ASSUME NEW t \in Setters, NEW k \in Keys, WriteHit(t, k) PROVE Keyed'
  BY <1>7 DEF WriteHit, Keyed, TypeOK, pool, setters, races
<1>8. ASSUME NEW t \in Setters, NEW k \in Keys, WriteMiss(t, k) PROVE Keyed'
  <2>1. PICK b \in Free(SizeToAllocate) : AllocateFor(b, k, Write(t, k), op[t].stamp)
                                    /\ map' = [map EXCEPT ![k] = b]
    BY <1>8 DEF WriteMiss
  <2>2. HasRoom
    BY <1>8 DEF WriteMiss
  <2>3. /\ b \in Blocks /\ (b \notin used \/ b \in stray)
        /\ used' = used \cup {b} /\ keyOf'[b] = k /\ stamp'[b] = op[t].stamp
        /\ row'[b] = Whole(Write(t, k))
        /\ \A c \in Blocks : c # b =>
             keyOf'[c] = keyOf[c] /\ stamp'[c] = stamp[c] /\ row'[c] = row[c]
    BY <2>1, <2>2, NewBlock
  <2>4. UNCHANGED stray
    BY <1>8 DEF WriteMiss, races
  <2>. QED BY <2>3, <2>4, BlocksOfMap DEF Keyed
<1>9. ASSUME NEW t \in Setters, NEW k \in Keys, CopyBegin(t, k) PROVE Keyed'
  BY <1>9 DEF CopyBegin, Keyed, TypeOK, pool, setters, races
<1>10. ASSUME NEW t \in Setters, NEW k \in Keys, CopyEnd(t, k) PROVE Keyed'
  <2>1. UNCHANGED <<keyOf, stray>> /\ used' \ stray \subseteq used
    BY <1>10 DEF CopyEnd, NewUsed, races
  <2>. QED BY <2>1 DEF Keyed
<1>11. ASSUME NEW t \in Setters, NEW k \in Keys, Fill(t, k) PROVE Keyed'
  <2>1. PICK b \in Free(SizeToAllocate) : AllocateFor(b, k, Write(t, k), op[t].stamp)
                                    /\ fresh' = [fresh EXCEPT ![t][k] = b]
    BY <1>11 DEF Fill
  <2>2. HasRoom
    BY <1>11 DEF Fill
  <2>3. /\ b \in Blocks /\ (b \notin used \/ b \in stray)
        /\ used' = used \cup {b} /\ keyOf'[b] = k /\ stamp'[b] = op[t].stamp
        /\ row'[b] = Whole(Write(t, k))
        /\ \A c \in Blocks : c # b =>
             keyOf'[c] = keyOf[c] /\ stamp'[c] = stamp[c] /\ row'[c] = row[c]
    BY <2>1, <2>2, NewBlock
  <2>4. UNCHANGED stray
    BY <1>11 DEF Fill, races
  <2>. QED BY <2>3, <2>4, BlocksOfMap DEF Keyed
<1>12. ASSUME Trigger PROVE Keyed'
  BY <1>12 DEF Trigger, Keyed, TypeOK, pool, setters, races
<1>13. ASSUME ScanBegin PROVE Keyed'
  BY <1>13 DEF ScanBegin, Keyed, TypeOK, pool, setters, races
<1>14. ASSUME ScanBlock PROVE Keyed'
  <2> DEFINE b == cursor + 1
  <2>1. CASE b \in used /\ training /\ IsMapped(b) /\ EvictFromMap(b)
    <3>1. /\ b \in Blocks /\ used' = used \ {b} /\ keyOf[b] \in Keys /\ map[keyOf[b]] = b
          /\ \A c \in Blocks : c # b => keyOf'[c] = keyOf[c]
          /\ keyOf'[b] = NoKey /\ map'[keyOf[b]] = NoBlock
          /\ \A j \in Keys : j # keyOf[b] => map'[j] = map[j]
      BY <2>1, TrainingMap, BlocksOfMap DEF EvictFromMap, Deallocate, TypeOK, Keyed
    <3>2. UNCHANGED <<stamp, row, fresh, hits, op, last, evicting, contended, stray>>
      BY <1>14, <2>1 DEF ScanBlock, EvictFromMap, setters

    <3>. QED BY <3>1, <3>2, BlocksOfMap DEF Keyed
  <2>2. CASE b \in used /\ ~training /\ Stale(b) /\ EvictLater(b)
    <3>1. /\ b \in Blocks /\ used' = used \ {b} /\ keyOf'[b] = NoKey
          /\ \A c \in Blocks : c # b => keyOf'[c] = keyOf[c]
          /\ evicting' = evicting \cup ({keyOf[b]} \cap Keys)
          /\ stray \subseteq stray' /\ stray' \subseteq stray \cup {b}
          /\ (Awaited(b) => b \in stray')
      BY <2>2, BlocksOfMap DEF EvictLater, Deallocate, FreedStray, TypeOK
    <3>2. UNCHANGED <<map, stamp, row, fresh, hits, op, last, threshold, contended>>
      BY <1>14, <2>2 DEF ScanBlock, EvictLater, setters

    <3>. QED BY <3>1, BlocksOfMap DEF Keyed
  <2>3. CASE UNCHANGED <<map, used, keyOf, evicting, stray>>
    BY <1>14, <2>3 DEF ScanBlock, Keyed
  <2>. QED BY <1>14, <2>1, <2>2, <2>3 DEF ScanBlock, Evict
<1>15. ASSUME ScanEnd PROVE Keyed'
  BY <1>15 DEF ScanEnd, AfterScan, Keyed, TypeOK, pool, setters, races
<1>16. ASSUME Erase PROVE Keyed'
  BY <1>16 DEF Erase, AfterScan, Keyed, TypeOK, pool, setters, races
<1> QED BY <1>1, <1>2, <1>3, <1>4, <1>5, <1>6, <1>7, <1>8, <1>9, <1>10, <1>11, <1>12, <1>13, <1>14, <1>15, <1>16 DEF Next, EvictStep, SetStep

(* A key about to be erased has no block, and gets none before it is erased. *)
LEMMA StepGone == IInv /\ Next => Gone'
<1> SUFFICES ASSUME IInv, Next PROVE Gone'
  OBVIOUS
<1> USE DEF IInv, Calling, Structure
<1>1. ASSUME NEW t \in Setters, SetBegin(t) PROVE Gone'
  <2>1. contended \subseteq contended' /\ UNCHANGED <<map, keyOf, fresh, evicting>>
    BY <1>1 DEF SetBegin, pool
  <2>. QED BY <2>1 DEF Gone
<1>2. ASSUME NEW t \in Setters, WriteEnd(t) PROVE Gone'
  BY <1>2 DEF WriteEnd, NoCall, Gone, TypeOK, pool, setters, races
<1>3. ASSUME NEW t \in Setters, CopyDone(t) PROVE Gone'
  BY <1>3 DEF CopyDone, CopiedAll, Gone, TypeOK, pool, setters, races
<1>4. ASSUME NEW t \in Setters, TakePool(t) PROVE Gone'
  BY <1>4 DEF TakePool, Gone, TypeOK, pool, setters, races
<1>5. ASSUME NEW t \in Setters, GivePool(t) PROVE Gone'
  BY <1>5 DEF GivePool, Gone, TypeOK, pool, setters, races
<1>6. ASSUME NEW t \in Setters, Insert(t) PROVE Gone'
  <2>1. \A k \in Keys : map'[k] = IF Found(k) THEN map[k] ELSE fresh[t][k]
    BY <1>6 DEF Insert, Inserted
  <2>2. \A u \in Setters : u # t => fresh'[u] = fresh[u]
    BY <1>6 DEF Insert, TypeOK
  <2>3. UNCHANGED <<keyOf, contended, evicting>>
    BY <1>6 DEF Insert, pool, races
  <2>4. evicting \subseteq Keys
    BY DEF TypeOK
  <2>. QED BY <2>1, <2>2, <2>3, <2>4 DEF Gone, Found
<1>7. ASSUME NEW t \in Setters, NEW k \in Keys, WriteHit(t, k) PROVE Gone'
  BY <1>7 DEF WriteHit, Gone, TypeOK, pool, setters, races
<1>8. ASSUME NEW t \in Setters, NEW k \in Keys, WriteMiss(t, k) PROVE Gone'
  <2>1. training /\ evicting' = evicting
    BY <1>8 DEF WriteMiss, Control, Modes
  <2>. QED BY <2>1, TrainingMap DEF Gone
<1>9. ASSUME NEW t \in Setters, NEW k \in Keys, CopyBegin(t, k) PROVE Gone'
  BY <1>9 DEF CopyBegin, Gone, TypeOK, pool, setters, races
<1>10. ASSUME NEW t \in Setters, NEW k \in Keys, CopyEnd(t, k) PROVE Gone'
  BY <1>10 DEF CopyEnd, NewStamp, NewUsed, Gone, TypeOK, pool, setters, races
<1>11. ASSUME NEW t \in Setters, NEW k \in Keys, Fill(t, k) PROVE Gone'
  <2>1. PICK b \in Free(SizeToAllocate) : AllocateFor(b, k, Write(t, k), op[t].stamp)
                                    /\ fresh' = [fresh EXCEPT ![t][k] = b]
    BY <1>11 DEF Fill
  <2>2. HasRoom
    BY <1>11 DEF Fill
  <2>3. /\ b \in Blocks /\ (b \notin used \/ b \in stray)
        /\ used' = used \cup {b} /\ keyOf'[b] = k /\ stamp'[b] = op[t].stamp
        /\ row'[b] = Whole(Write(t, k))
        /\ \A c \in Blocks : c # b =>
             keyOf'[c] = keyOf[c] /\ stamp'[c] = stamp[c] /\ row'[c] = row[c]
    BY <2>1, <2>2, NewBlock

  <2>4. UNCHANGED <<map, contended, evicting>>
    BY <1>11 DEF Fill, races
  <2>5. \A u \in Setters, l \in Keys : fresh[u][l] # NoBlock => fresh'[u][l] = fresh[u][l]
    BY <1>11, <2>1 DEF Fill, TypeOK, CallsKnow, CallKnows
  <2>6. k \notin evicting \ contended
    <3>1. fresh[t][k] = NoBlock /\ (map[k] = NoBlock \/ k \in contended) /\ k \in op[t].keys
      BY <1>11 DEF Fill, CallsKnow, CallKnows
    <3>2. \A u \in Setters : u # t /\ fresh[u][k] # NoBlock => k \in contended
      BY <3>1 DEF AllFresh, FreshKept, Overlaps
    <3>. QED BY <3>1, <3>2 DEF Gone
  <2>7. evicting \subseteq Keys
    BY DEF TypeOK
  <2>. QED BY <2>3, <2>4, <2>5, <2>6, <2>7 DEF Gone
<1>12. ASSUME Trigger PROVE Gone'
  BY <1>12 DEF Trigger, Gone, TypeOK, pool, setters, races
<1>13. ASSUME ScanBegin PROVE Gone'
  BY <1>13 DEF ScanBegin, Gone, TypeOK, pool, setters, races
<1>14. ASSUME ScanBlock PROVE Gone'
  <2> DEFINE b == cursor + 1
  <2>1. CASE b \in used /\ training /\ IsMapped(b) /\ EvictFromMap(b)
    <3>1. evicting' = {}
      BY <2>1, TrainingMap DEF EvictFromMap
    <3>. QED BY <3>1 DEF Gone
  <2>2. CASE b \in used /\ ~training /\ Stale(b) /\ EvictLater(b)
    <3>1. /\ b \in Blocks /\ used' = used \ {b} /\ keyOf'[b] = NoKey
          /\ \A c \in Blocks : c # b => keyOf'[c] = keyOf[c]
          /\ evicting' = evicting \cup ({keyOf[b]} \cap Keys)
          /\ stray \subseteq stray' /\ stray' \subseteq stray \cup {b}
          /\ (Awaited(b) => b \in stray')
      BY <2>2, BlocksOfMap DEF EvictLater, Deallocate, FreedStray, TypeOK
    <3>2. UNCHANGED <<map, stamp, row, fresh, hits, op, last, threshold, contended>>
      BY <1>14, <2>2 DEF ScanBlock, EvictLater, setters

    <3>3. ASSUME NEW k \in evicting' \ contended
          PROVE  /\ \A c \in Blocks : keyOf'[c] # k
                 /\ map[k] # NoBlock \/ \E u \in Setters : fresh[u][k] # NoBlock
      <4>1. CASE k \in evicting
        BY <3>1, <3>3, <4>1, BlocksOfMap DEF Gone, TypeOK
      <4>2. CASE k = keyOf[b] /\ k \in Keys
        <5>1. \A c \in Blocks : c # b => keyOf[c] # k
          BY <3>1, <3>3, <4>2, OneBlock
        <5>2. map[k] = b \/ \E u \in Setters : fresh[u][k] = b
          BY <3>1, <3>3, <4>2, BlocksOfMap DEF Led
        <5>. QED BY <3>1, <4>2, <5>1, <5>2, BlocksOfMap
      <4>. QED BY <3>1, <3>3, <4>1, <4>2
    <3>. QED BY <3>2, <3>3 DEF Gone
  <2>3. CASE UNCHANGED <<map, used, keyOf, evicting, stray>>
    BY <1>14, <2>3 DEF ScanBlock, Gone, TypeOK, pool, setters, races
  <2>. QED BY <1>14, <2>1, <2>2, <2>3 DEF ScanBlock, Evict
<1>15. ASSUME ScanEnd PROVE Gone'
  BY <1>15 DEF ScanEnd, AfterScan, Gone, TypeOK, pool, setters, races
<1>16. ASSUME Erase PROVE Gone'
  BY <1>16 DEF Erase, AfterScan, Gone, TypeOK, pool, setters, races
<1> QED BY <1>1, <1>2, <1>3, <1>4, <1>5, <1>6, <1>7, <1>8, <1>9, <1>10, <1>11, <1>12, <1>13, <1>14, <1>15, <1>16 DEF Next, EvictStep, SetStep


(* The invariant is inductive. *)
LEMMA StepIInv == IInv /\ [Next]_vars => IInv'
<1> SUFFICES ASSUME IInv, [Next]_vars PROVE IInv'
  OBVIOUS
<1>1. CASE Next
  BY <1>1, StepType, StepControl, StepCalls, StepOverlaps, StepFresh, StepLeads, StepHits, StepLed,
     StepKeyed, StepGone DEF IInv, Calling, Structure
<1>2. CASE UNCHANGED vars
  BY <1>2 DEF vars, pool, setters, round, races, IInv, TypeOK, Control, Modes, Alone, Rounds, Calling,
     CallsKnow, CallKnows, Overlaps, AllFresh, FreshKept, Structure, Leads, HitsOwn, Led, Keyed, Gone,
     Found, Owns
<1>. QED BY <1>1, <1>2

-----------------------------------------------------------------------------
(* The shard's types, locks, calls, map and pool are consistent in every    *)
(* reachable state, overlapping sets and scans included.                    *)
THEOREM Invariance == Spec => []IInv
  BY InitIInv, StepIInv, PTL DEF Spec

(* A key leads to a block in use that carries that key, unless the scan has *)
(* freed it: it is about to erase the key, or has freed it under a set.     *)
THEOREM MapIsSound == Spec => []MapSound
<1>1. IInv => MapSound
  BY DEF IInv, Control, Modes, Structure, Leads, MapSound, Leaving, Stray, Found, TypeOK
<1>. QED BY <1>1, Invariance, PTL

(* Every block in use is found by its key or about to be inserted, but a    *)
(* second one that overlapping sets filled for a key, or one freed under a  *)
(* set.                                                                     *)
THEOREM PoolNeverLeaks == Spec => []NothingLeaks
<1>1. IInv => NothingLeaks
  <2> SUFFICES ASSUME IInv, NEW b \in used
               PROVE  \/ Stray(b) /\ keyOf[b] = NoKey
                      \/ /\ keyOf[b] \in Keys
                         /\ \/ map[keyOf[b]] = b \/ Contended(keyOf[b])
                            \/ \E t \in Setters : fresh[t][keyOf[b]] = b
    BY DEF NothingLeaks
  <2>1. b \in Blocks
    BY BlocksOfMap DEF IInv
  <2>2. training => contended = {} /\ stray = {}
    BY DEF IInv, Control, Modes
  <2>3. CASE keyOf[b] = NoKey
    BY <2>1, <2>2, <2>3 DEF IInv, Structure, Keyed, Stray, TypeOK
  <2>4. CASE keyOf[b] # NoKey
    BY <2>1, <2>2, <2>4, BlocksOfMap DEF IInv, Structure, Led, Contended, TypeOK
  <2>. QED BY <2>3, <2>4
<1>. QED BY <1>1, Invariance, PTL

-----------------------------------------------------------------------------
(* What the rows hold.                                                      *)

(* A key that sets did not share, and whose block was not freed. *)
Plain(k)  == Found(k) /\ k \notin contended /\ k \notin evicting /\ map[k] \notin stray
Latest(k) == [key |-> k, set |-> last[k].set]

(* In training a set has returned, as it were, for the keys it has written. *)
Written ==
    training => \A t \in Setters : \A k \in op[t].keys :
        /\ op[t].timed
        /\ k \notin hits[t] /\ k \notin misses[t]
             => last[k] = [set |-> op[t].set, stamp |-> op[t].stamp]

(* Rows are of the key of their block.  A plain key's row is the last that  *)
(* returned, the one of the set in progress, or one half of each.           *)
OfItsKey == \A b \in used \ stray : \A n \in 1..2 : row[b][n].key = keyOf[b]

RowOf(k) ==
    /\ (\A t \in Setters : k \notin op[t].keys) => row[map[k]] = Whole(Latest(k))
    /\ \A t \in Setters : k \in op[t].keys =>
         /\ k \in hits[t] /\ k \notin half[t] => row[map[k]] = Whole(Latest(k))
         /\ k \in half[t] => row[map[k]][1] = Write(t, k) /\ row[map[k]][2] = Latest(k)
         /\ k \notin hits[t] => row[map[k]] = Whole(Write(t, k))
RowsOf == \A k \in Keys : Plain(k) => RowOf(k)

FreshRows ==
    \A t \in Setters, k \in Keys :
        fresh[t][k] # NoBlock /\ fresh[t][k] \notin stray /\ k \notin contended
            => row[fresh[t][k]] = Whole(Write(t, k))

RowsInv == Written /\ OfItsKey /\ RowsOf /\ FreshRows

(* A plain key owns its block, and one set at most is at it. *)
LEMMA PlainKey ==
    ASSUME IInv, NEW k \in Keys, Plain(k)
    PROVE  /\ map[k] # NoBlock /\ map[k] \in Blocks /\ map[k] \in used \ stray /\ keyOf[map[k]] = k
           /\ \A t \in Setters : fresh[t][k] = NoBlock /\ k \notin misses[t]
           /\ \A t, u \in Setters : k \in op[t].keys /\ k \in op[u].keys => t = u
<1> USE DEF IInv, Calling, Structure
<1>1. map[k] # NoBlock /\ Owns(k) /\ map[k] \notin stray /\ k \notin contended
  BY DEF Plain, Leads, Found
<1>2. \A t \in Setters : fresh[t][k] = NoBlock /\ k \notin misses[t]
  BY <1>1 DEF AllFresh, FreshKept, CallsKnow, CallKnows
<1>3. \A t, u \in Setters : k \in op[t].keys /\ k \in op[u].keys => t = u
  BY <1>1 DEF Overlaps
<1>. QED BY <1>1, <1>2, <1>3, BlocksOfMap DEF Owns, Found

(* A new block that counts is in use, under its key. *)
LEMMA FreshBlock ==
    ASSUME IInv, NEW t \in Setters, NEW k \in Keys, fresh[t][k] # NoBlock,
           fresh[t][k] \notin stray, k \notin contended
    PROVE  /\ fresh[t][k] \in Blocks /\ fresh[t][k] \in used /\ keyOf[fresh[t][k]] = k
           /\ map[k] = NoBlock /\ k \in op[t].keys
  BY BlocksOfMap DEF IInv, Calling, AllFresh, FreshKept

(* The block a set copies into is nobody else's. *)
LEMMA OthersBlocks ==
    ASSUME IInv, NEW t \in Setters, NEW k \in hits[t]
    PROVE  /\ k \in Keys /\ k \in op[t].keys /\ Found(k) /\ map[k] \in Blocks
           /\ map[k] \in used \ stray => keyOf[map[k]] = k
           /\ \A j \in Keys : Plain(j) /\ j # k => map[j] # map[k]
           /\ \A u \in Setters, j \in Keys :
                fresh[u][j] # NoBlock /\ fresh[u][j] \notin stray /\ j \notin contended
                  => fresh[u][j] # map[k]
<1> USE DEF IInv, Calling, Structure
<1>1. k \in Keys /\ k \in op[t].keys /\ Found(k)
  BY DEF CallsKnow, CallKnows, TypeOK, Found
<1>2. map[k] \in stray \/ (map[k] \in used /\ keyOf[map[k]] = k)
  BY DEF HitsOwn, Owns
<1>3. \A j \in Keys : Plain(j) /\ j # k => map[j] # map[k]
  BY <1>2, PlainKey
<1>4. \A u \in Setters, j \in Keys :
        fresh[u][j] # NoBlock /\ fresh[u][j] \notin stray /\ j \notin contended
          => fresh[u][j] # map[k]
  BY <1>1, <1>2, FreshBlock DEF Found
<1>. QED BY <1>1, <1>2, <1>3, <1>4, BlocksOfMap

(* Every step keeps the keys that training has written. *)
LEMMA StepWritten == IInv /\ RowsInv /\ Next => Written'
<1> SUFFICES ASSUME IInv, RowsInv, Next PROVE Written'
  OBVIOUS
<1> USE DEF IInv, Calling, Structure, RowsInv
<1>1. ASSUME NEW t \in Setters, SetBegin(t) PROVE Written'
  <2>1. PICK keys \in (SUBSET Keys) \ {{}}, timed \in BOOLEAN :
          /\ op'[t].keys = keys /\ op'[t].timed = timed /\ (training => timed)
          /\ hits'[t] = {k \in keys : Found(k)} /\ misses'[t] = {k \in keys : ~Found(k)}
          /\ \A u \in Setters : u # t => op'[u] = op[u] /\ hits'[u] = hits[u] /\ misses'[u] = misses[u]
    BY <1>1 DEF SetBegin, TypeOK
  <2>2. UNCHANGED <<training, last>>
    BY <1>1 DEF SetBegin
  <2>3. ASSUME training, NEW u \in Setters, NEW k \in op'[u].keys
        PROVE  /\ op'[u].timed
               /\ k \notin hits'[u] /\ k \notin misses'[u]
                    => last[k] = [set |-> op'[u].set, stamp |-> op'[u].stamp]
    <3>1. CASE u = t
      BY <2>1, <2>3, <3>1
    <3>2. CASE u # t
      <4>1. op'[u] = op[u] /\ hits'[u] = hits[u] /\ misses'[u] = misses[u]
        BY <2>1, <3>2
      <4>. QED BY <2>3, <4>1 DEF Written
    <3>. QED BY <3>1, <3>2
  <2>. QED BY <2>2, <2>3 DEF Written
<1>2. ASSUME NEW t \in Setters, WriteEnd(t) PROVE Written'
  BY <1>2 DEF WriteEnd, NoCall, Written, Control, Modes, Alone, CallsKnow, CallKnows, TypeOK, Calls, pool, setters, races
<1>3. ASSUME NEW t \in Setters, CopyDone(t) PROVE Written'
  BY <1>3 DEF CopyDone, CopiedAll, Written, Control, Modes, Alone, CallsKnow, CallKnows, TypeOK, Calls, pool, setters, races
<1>4. ASSUME NEW t \in Setters, TakePool(t) PROVE Written'
  BY <1>4 DEF TakePool, Written, Control, Modes, Alone, CallsKnow, CallKnows, TypeOK, Calls, pool, setters, races
<1>5. ASSUME NEW t \in Setters, GivePool(t) PROVE Written'
  BY <1>5 DEF GivePool, Written, Control, Modes, Alone, CallsKnow, CallKnows, TypeOK, Calls, pool, setters, races
<1>6. ASSUME NEW t \in Setters, Insert(t) PROVE Written'
  <2>1. ~training /\ training' = training
    BY <1>6 DEF Insert, Control, Modes
  <2>. QED BY <2>1 DEF Written
<1>7. ASSUME NEW t \in Setters, NEW k \in Keys, WriteHit(t, k) PROVE Written'
  <2>1. training /\ UNCHANGED <<training, op, misses>> /\ contended = {}
    BY <1>7, TrainingMap DEF WriteHit, Control, Modes
  <2>2. /\ last'[k] = [set |-> op[t].set, stamp |-> op[t].stamp]
        /\ \A j \in Keys : j # k => last'[j] = last[j]
        /\ hits'[t] = hits[t] \ {k} /\ \A u \in Setters : u # t => hits'[u] = hits[u]
    BY <1>7 DEF WriteHit, TypeOK
  <2>3. k \in op[t].keys /\ \A u \in Setters : u # t => k \notin op[u].keys
    BY <1>7, <2>1 DEF WriteHit, CallsKnow, CallKnows, Overlaps
  <2>4. \A u \in Setters : op[u].keys \subseteq Keys
    BY DEF TypeOK, Calls
  <2>. QED BY <2>1, <2>2, <2>3, <2>4 DEF Written
<1>8. ASSUME NEW t \in Setters, NEW k \in Keys, WriteMiss(t, k) PROVE Written'
  <2>1. training /\ UNCHANGED <<training, op, hits>> /\ contended = {}
    BY <1>8, TrainingMap DEF WriteMiss, Control, Modes
  <2>2. /\ last'[k] = [set |-> op[t].set, stamp |-> op[t].stamp]
        /\ \A j \in Keys : j # k => last'[j] = last[j]
        /\ misses'[t] = misses[t] \ {k} /\ \A u \in Setters : u # t => misses'[u] = misses[u]
    BY <1>8 DEF WriteMiss, TypeOK
  <2>3. k \in op[t].keys /\ \A u \in Setters : u # t => k \notin op[u].keys
    BY <1>8, <2>1 DEF WriteMiss, CallsKnow, CallKnows, Overlaps
  <2>4. \A u \in Setters : op[u].keys \subseteq Keys
    BY DEF TypeOK, Calls
  <2>. QED BY <2>1, <2>2, <2>3, <2>4 DEF Written
<1>9. ASSUME NEW t \in Setters, NEW k \in Keys, CopyBegin(t, k) PROVE Written'
  BY <1>9 DEF CopyBegin, Written
<1>10. ASSUME NEW t \in Setters, NEW k \in Keys, CopyEnd(t, k) PROVE Written'
  <2>1. ~training /\ training' = training
    BY <1>10 DEF CopyEnd, Control, Modes, CallsKnow, CallKnows
  <2>. QED BY <2>1 DEF Written
<1>11. ASSUME NEW t \in Setters, NEW k \in Keys, Fill(t, k) PROVE Written'
  <2>1. ~training /\ training' = training
    BY <1>11 DEF Fill, Control, Modes
  <2>. QED BY <2>1 DEF Written
<1>12. ASSUME Trigger PROVE Written'
  BY <1>12 DEF Trigger, Written, Control, Modes, Alone, CallsKnow, CallKnows, TypeOK, Calls, pool, setters, races
<1>13. ASSUME ScanBegin PROVE Written'
  BY <1>13 DEF ScanBegin, Written, Control, Modes, Alone, CallsKnow, CallKnows, TypeOK, Calls, pool, setters, races
<1>14. ASSUME ScanBlock PROVE Written'
  BY <1>14 DEF ScanBlock, Evict, EvictFromMap, EvictLater, Deallocate, Written, Control, Modes, Alone, CallsKnow, CallKnows, TypeOK, Calls, pool, setters, races
<1>15. ASSUME ScanEnd PROVE Written'
  BY <1>15 DEF ScanEnd, AfterScan, Written, Control, Modes, Alone, CallsKnow, CallKnows, TypeOK, Calls, pool, setters, races
<1>16. ASSUME Erase PROVE Written'
  BY <1>16 DEF Erase, AfterScan, Written, Control, Modes, Alone, CallsKnow, CallKnows, TypeOK, Calls, pool, setters, races
<1> QED BY <1>1, <1>2, <1>3, <1>4, <1>5, <1>6, <1>7, <1>8, <1>9, <1>10, <1>11, <1>12, <1>13, <1>14, <1>15, <1>16 DEF Next, EvictStep, SetStep

(* Every step writes rows of the block's key only. *)
LEMMA StepOfItsKey == IInv /\ RowsInv /\ Next => OfItsKey'
<1> SUFFICES ASSUME IInv, RowsInv, Next PROVE OfItsKey'
  OBVIOUS
<1> USE DEF IInv, Calling, Structure, RowsInv
<1>1. ASSUME NEW t \in Setters, SetBegin(t) PROVE OfItsKey'
  <2>1. stray \subseteq stray' /\ UNCHANGED <<used, keyOf, row>>
    BY <1>1 DEF SetBegin, pool
  <2>. QED BY <2>1 DEF OfItsKey
<1>2. ASSUME NEW t \in Setters, WriteEnd(t) PROVE OfItsKey'
  BY <1>2 DEF WriteEnd, NoCall, OfItsKey, pool, setters, races
<1>3. ASSUME NEW t \in Setters, CopyDone(t) PROVE OfItsKey'
  BY <1>3 DEF CopyDone, CopiedAll, OfItsKey, pool, setters, races
<1>4. ASSUME NEW t \in Setters, TakePool(t) PROVE OfItsKey'
  BY <1>4 DEF TakePool, OfItsKey, pool, setters, races
<1>5. ASSUME NEW t \in Setters, GivePool(t) PROVE OfItsKey'
  BY <1>5 DEF GivePool, OfItsKey, pool, setters, races
<1>6. ASSUME NEW t \in Setters, Insert(t) PROVE OfItsKey'
  BY <1>6 DEF Insert, Inserted, NoCall, OfItsKey, pool, setters, races
<1>7. ASSUME NEW t \in Setters, NEW k \in Keys, WriteHit(t, k) PROVE OfItsKey'
  <2>1. k \in hits[t] /\ UNCHANGED <<used, keyOf, stray>>
    BY <1>7 DEF WriteHit, races
  <2>2. row'[map[k]] = Whole(Write(t, k)) /\ \A c \in Blocks : c # map[k] => row'[c] = row[c]
    BY <1>7, <2>1, OthersBlocks DEF WriteHit, TypeOK
  <2>. QED BY <2>1, <2>2, OthersBlocks, BlocksOfMap DEF OfItsKey, Whole, Write
<1>8. ASSUME NEW t \in Setters, NEW k \in Keys, WriteMiss(t, k) PROVE OfItsKey'
  <2>1. PICK b \in Free(SizeToAllocate) : AllocateFor(b, k, Write(t, k), op[t].stamp)
                                    /\ map' = [map EXCEPT ![k] = b]
    BY <1>8 DEF WriteMiss
  <2>2. HasRoom
    BY <1>8 DEF WriteMiss
  <2>3. /\ b \in Blocks /\ (b \notin used \/ b \in stray)
        /\ used' = used \cup {b} /\ keyOf'[b] = k /\ stamp'[b] = op[t].stamp
        /\ row'[b] = Whole(Write(t, k))
        /\ \A c \in Blocks : c # b =>
             keyOf'[c] = keyOf[c] /\ stamp'[c] = stamp[c] /\ row'[c] = row[c]
    BY <2>1, <2>2, NewBlock

  <2>4. UNCHANGED stray
    BY <1>8 DEF WriteMiss, races
  <2>. QED BY <2>3, <2>4, BlocksOfMap DEF OfItsKey, Whole, Write
<1>9. ASSUME NEW t \in Setters, NEW k \in Keys, CopyBegin(t, k) PROVE OfItsKey'
  <2>1. k \in hits[t] /\ UNCHANGED <<used, keyOf, stray>>
    BY <1>9 DEF CopyBegin, pool, races
  <2>2. /\ row'[map[k]][1] = Write(t, k) /\ row'[map[k]][2] = row[map[k]][2]
        /\ \A c \in Blocks : c # map[k] => row'[c] = row[c]
    BY <1>9, <2>1, OthersBlocks DEF CopyBegin, TypeOK, Rows
  <2>3. Write(t, k).key = k
    BY DEF Write
  <2>. QED BY <2>1, <2>2, <2>3, OthersBlocks, BlocksOfMap DEF OfItsKey
<1>10. ASSUME NEW t \in Setters, NEW k \in Keys, CopyEnd(t, k) PROVE OfItsKey'
  <2>1. k \in hits[t] /\ UNCHANGED <<keyOf, stray>> /\ used' \ stray \subseteq used
    BY <1>10 DEF CopyEnd, NewUsed, races, CallsKnow, CallKnows
  <2>2. /\ row'[map[k]][2] = Write(t, k) /\ row'[map[k]][1] = row[map[k]][1]
        /\ \A c \in Blocks : c # map[k] => row'[c] = row[c]
    BY <1>10, <2>1, OthersBlocks DEF CopyEnd, TypeOK, Rows
  <2>3. Write(t, k).key = k
    BY DEF Write
  <2>. QED BY <2>1, <2>2, <2>3, OthersBlocks, BlocksOfMap DEF OfItsKey
<1>11. ASSUME NEW t \in Setters, NEW k \in Keys, Fill(t, k) PROVE OfItsKey'
  <2>1. PICK b \in Free(SizeToAllocate) : AllocateFor(b, k, Write(t, k), op[t].stamp)
                                    /\ fresh' = [fresh EXCEPT ![t][k] = b]
    BY <1>11 DEF Fill
  <2>2. HasRoom
    BY <1>11 DEF Fill
  <2>3. /\ b \in Blocks /\ (b \notin used \/ b \in stray)
        /\ used' = used \cup {b} /\ keyOf'[b] = k /\ stamp'[b] = op[t].stamp
        /\ row'[b] = Whole(Write(t, k))
        /\ \A c \in Blocks : c # b =>
             keyOf'[c] = keyOf[c] /\ stamp'[c] = stamp[c] /\ row'[c] = row[c]
    BY <2>1, <2>2, NewBlock

  <2>4. UNCHANGED stray
    BY <1>11 DEF Fill, races
  <2>. QED BY <2>3, <2>4, BlocksOfMap DEF OfItsKey, Whole, Write
<1>12. ASSUME Trigger PROVE OfItsKey'
  BY <1>12 DEF Trigger, OfItsKey, pool, setters, races
<1>13. ASSUME ScanBegin PROVE OfItsKey'
  BY <1>13 DEF ScanBegin, OfItsKey, pool, setters, races
<1>14. ASSUME ScanBlock PROVE OfItsKey'
  <2> DEFINE b == cursor + 1
  <2>1. CASE b \in used /\ training /\ IsMapped(b) /\ EvictFromMap(b)
    <3>1. used' \subseteq used /\ row' = row /\ stray' = stray /\ \A c \in used' : keyOf'[c] = keyOf[c]
      BY <1>14, <2>1, BlocksOfMap DEF ScanBlock, EvictFromMap, Deallocate, TypeOK
    <3>. QED BY <3>1 DEF OfItsKey
  <2>2. CASE b \in used /\ ~training /\ Stale(b) /\ EvictLater(b)
    <3>1. /\ b \in Blocks /\ used' = used \ {b} /\ keyOf'[b] = NoKey
          /\ \A c \in Blocks : c # b => keyOf'[c] = keyOf[c]
          /\ evicting' = evicting \cup ({keyOf[b]} \cap Keys)
          /\ stray \subseteq stray' /\ stray' \subseteq stray \cup {b}
          /\ (Awaited(b) => b \in stray')
      BY <2>2, BlocksOfMap DEF EvictLater, Deallocate, FreedStray, TypeOK
    <3>2. UNCHANGED <<map, stamp, row, fresh, hits, op, last, threshold, contended>>
      BY <1>14, <2>2 DEF ScanBlock, EvictLater, setters

    <3>. QED BY <3>1, <3>2, BlocksOfMap DEF OfItsKey
  <2>3. CASE UNCHANGED <<map, used, keyOf, evicting, stray>>
    BY <1>14, <2>3 DEF ScanBlock, OfItsKey
  <2>. QED BY <1>14, <2>1, <2>2, <2>3 DEF ScanBlock, Evict
<1>15. ASSUME ScanEnd PROVE OfItsKey'
  BY <1>15 DEF ScanEnd, AfterScan, OfItsKey, pool, setters, races
<1>16. ASSUME Erase PROVE OfItsKey'
  BY <1>16 DEF Erase, AfterScan, OfItsKey, pool, setters, races
<1> QED BY <1>1, <1>2, <1>3, <1>4, <1>5, <1>6, <1>7, <1>8, <1>9, <1>10, <1>11, <1>12, <1>13, <1>14, <1>15, <1>16 DEF Next, EvictStep, SetStep

(* Every step keeps the rows of plain keys what their sets make them. *)
LEMMA StepRowsOf == IInv /\ RowsInv /\ Next => RowsOf'
<1> SUFFICES ASSUME IInv, RowsInv, Next PROVE RowsOf'
  OBVIOUS
<1> USE DEF IInv, Calling, Structure, RowsInv
<1>1. ASSUME NEW t \in Setters, SetBegin(t) PROVE RowsOf'
  <2>1. PICK keys \in (SUBSET Keys) \ {{}} :
          /\ op'[t].keys = keys /\ hits'[t] = {k \in keys : Found(k)}
          /\ \A u \in Setters : u # t => op'[u] = op[u] /\ hits'[u] = hits[u]
          /\ contended' = contended \cup {k \in keys : BeingSet(k)}
          /\ stray \subseteq stray'
    BY <1>1 DEF SetBegin, TypeOK
  <2>2. pc[t] = "idle" /\ op[t].keys = {} /\ half[t] = {}
    BY <1>1 DEF SetBegin, CallsKnow, CallKnows
  <2>3. UNCHANGED <<map, row, last, half, evicting>>
    BY <1>1 DEF SetBegin
  <2>4. ASSUME NEW k \in Keys, Plain(k)' PROVE RowOf(k)'
    <3>1. Plain(k) /\ RowOf(k) /\ k \notin contended'
      BY <2>1, <2>3, <2>4 DEF Plain, Found, RowsOf
    <3>2. CASE k \in keys
      <4>1. \A u \in Setters : k \notin op[u].keys
        BY <2>1, <3>1, <3>2 DEF BeingSet, CallsKnow, CallKnows
      <4>2. row[map[k]] = Whole(Latest(k)) /\ k \in hits'[t]
        BY <2>1, <3>1, <3>2, <4>1 DEF RowOf, Plain
      <4>. QED BY <2>1, <2>2, <2>3, <3>2, <4>1, <4>2 DEF RowOf, Latest
    <3>3. CASE k \notin keys
      BY <2>1, <2>2, <2>3, <3>1, <3>3 DEF RowOf, Latest, Write
    <3>. QED BY <3>2, <3>3
  <2>. QED BY <2>4 DEF RowsOf
<1>2. ASSUME NEW t \in Setters, WriteEnd(t) PROVE RowsOf'
  <2>1. /\ training /\ hits[t] = {} /\ misses[t] = {} /\ op'[t].keys = {}
        /\ \A u \in Setters : u # t => op'[u] = op[u]
    BY <1>2 DEF WriteEnd, Control, Modes, NoCall, TypeOK
  <2>2. UNCHANGED <<map, row, last, half, hits, evicting, contended, stray>>
    BY <1>2 DEF WriteEnd, races
  <2>3. ASSUME NEW k \in Keys, Plain(k)' PROVE RowOf(k)'
    <3>1. Plain(k) /\ RowOf(k)
      BY <2>2, <2>3 DEF Plain, Found, RowsOf
    <3>2. CASE k \in op[t].keys
      <4>1. Write(t, k) = Latest(k)
        <5>1. last[k] = [set |-> op[t].set, stamp |-> op[t].stamp]
          BY <2>1, <3>2 DEF Written
        <5>2. last[k].set = op[t].set
          BY <5>1
        <5>. QED BY <5>2 DEF Write, Latest
      <4>2. row[map[k]] = Whole(Latest(k)) /\ \A u \in Setters : u # t => k \notin op[u].keys
        BY <2>1, <3>1, <3>2, <4>1, PlainKey DEF RowOf
      <4>. QED BY <2>1, <2>2, <4>2 DEF RowOf, Latest
    <3>3. CASE k \notin op[t].keys
      BY <2>1, <2>2, <3>1, <3>3 DEF RowOf, Latest, Write
    <3>. QED BY <3>2, <3>3
  <2>. QED BY <2>3 DEF RowsOf
<1>3. ASSUME NEW t \in Setters, CopyDone(t) PROVE RowsOf'
  <2>1. /\ UNCHANGED <<row, last, op, hits, half, fresh>> /\ stray \subseteq stray' /\ contended' = contended
        /\ \A j \in Keys : Plain(j)' => Plain(j) /\ map'[j] = map[j]
    BY <1>3 DEF CopyDone, Plain, Found, pool, setters, races
  <2>. QED BY <2>1 DEF RowsOf, RowOf, Latest, Write
<1>4. ASSUME NEW t \in Setters, TakePool(t) PROVE RowsOf'
  <2>1. /\ UNCHANGED <<row, last, op, hits, half, fresh>> /\ stray \subseteq stray' /\ contended' = contended
        /\ \A j \in Keys : Plain(j)' => Plain(j) /\ map'[j] = map[j]
    BY <1>4 DEF TakePool, Plain, Found, pool, setters, races
  <2>. QED BY <2>1 DEF RowsOf, RowOf, Latest, Write
<1>5. ASSUME NEW t \in Setters, GivePool(t) PROVE RowsOf'
  <2>1. /\ UNCHANGED <<row, last, op, hits, half, fresh>> /\ stray \subseteq stray' /\ contended' = contended
        /\ \A j \in Keys : Plain(j)' => Plain(j) /\ map'[j] = map[j]
    BY <1>5 DEF GivePool, Plain, Found, pool, setters, races
  <2>. QED BY <2>1 DEF RowsOf, RowOf, Latest, Write
<1>6. ASSUME NEW t \in Setters, Insert(t) PROVE RowsOf'
  <2>1. /\ UNCHANGED <<row, half, hits, evicting, contended, stray>> /\ op'[t].keys = {}
        /\ \A u \in Setters : u # t => op'[u] = op[u]
    BY <1>6 DEF Insert, NoCall, races, TypeOK
  <2>2. /\ \A k \in Keys : map'[k] = IF Found(k) THEN map[k] ELSE fresh[t][k]
        /\ \A k \in Keys : last'[k].set = IF k \in op[t].keys THEN op[t].set ELSE last[k].set
    BY <1>6 DEF Insert, Inserted
  <2>3. hits[t] = {} /\ half[t] = {}
    BY <1>6 DEF Insert, CallsKnow, CallKnows
  <2>4. ASSUME NEW k \in Keys, Plain(k)' PROVE RowOf(k)'
    <3>1. \A u, v \in Setters : k \in op[u].keys /\ k \in op[v].keys => u = v
      BY <2>1, <2>4 DEF Plain, Overlaps
    <3>2. CASE k \in op[t].keys
      <4>1. Latest(k)' = Write(t, k)
        BY <2>2, <3>2 DEF Latest, Write
      <4>2. row'[map'[k]] = Whole(Write(t, k))
        <5>1. CASE Found(k)
          BY <2>1, <2>2, <2>3, <2>4, <3>2, <5>1 DEF Plain, Found, RowsOf, RowOf
        <5>2. CASE ~Found(k)
          BY <2>1, <2>2, <2>4, <5>2 DEF Plain, Found, FreshRows
        <5>. QED BY <5>1, <5>2
      <4>. QED BY <2>1, <3>1, <3>2, <4>1, <4>2 DEF RowOf
    <3>3. CASE k \notin op[t].keys
      <4>1. fresh[t][k] = NoBlock
        BY <3>3 DEF AllFresh, FreshKept
      <4>2. Plain(k) /\ map'[k] = map[k] /\ last'[k].set = last[k].set
        BY <2>1, <2>2, <2>4, <3>3, <4>1 DEF Plain, Found
      <4>. QED BY <2>1, <3>3, <4>2 DEF RowsOf, RowOf, Latest, Write
    <3>. QED BY <3>2, <3>3
  <2>. QED BY <2>4 DEF RowsOf
<1>7. ASSUME NEW t \in Setters, NEW k \in Keys, WriteHit(t, k) PROVE RowsOf'
  <2>1. training /\ k \in hits[t] /\ UNCHANGED <<map, op, half, evicting, contended, stray>>
    BY <1>7 DEF WriteHit, races, Control, Modes
  <2>2. /\ row'[map[k]] = Whole(Write(t, k)) /\ \A c \in Blocks : c # map[k] => row'[c] = row[c]
        /\ last'[k].set = op[t].set /\ \A j \in Keys : j # k => last'[j] = last[j]
        /\ hits'[t] = hits[t] \ {k} /\ \A u \in Setters : u # t => hits'[u] = hits[u]
    BY <1>7, <2>1, OthersBlocks DEF WriteHit, TypeOK
  <2>3. half[t] = {} /\ k \in op[t].keys
    BY <1>7 DEF WriteHit, CallsKnow, CallKnows
  <2>4. ASSUME NEW j \in Keys, Plain(j)' PROVE RowOf(j)'
    <3>1. Plain(j) /\ RowOf(j) /\ map[j] \in Blocks
      BY <2>1, <2>4, PlainKey DEF Plain, Found, RowsOf
    <3>2. CASE j = k
      BY <2>1, <2>2, <2>3, <3>1, <3>2, PlainKey DEF RowOf, Write
    <3>3. CASE j # k
      <4>1. row'[map[j]] = row[map[j]]
        BY <2>1, <2>2, <3>1, <3>3, OthersBlocks
      <4>. QED BY <2>1, <2>2, <3>1, <3>3, <4>1 DEF RowOf, Latest, Write
    <3>. QED BY <3>2, <3>3
  <2>. QED BY <2>4 DEF RowsOf
<1>8. ASSUME NEW t \in Setters, NEW k \in Keys, WriteMiss(t, k) PROVE RowsOf'
  <2>1. PICK b \in Free(SizeToAllocate) : AllocateFor(b, k, Write(t, k), op[t].stamp)
                                    /\ map' = [map EXCEPT ![k] = b]
    BY <1>8 DEF WriteMiss
  <2>2. HasRoom
    BY <1>8 DEF WriteMiss
  <2>3. /\ b \in Blocks /\ (b \notin used \/ b \in stray)
        /\ used' = used \cup {b} /\ keyOf'[b] = k /\ stamp'[b] = op[t].stamp
        /\ row'[b] = Whole(Write(t, k))
        /\ \A c \in Blocks : c # b =>
             keyOf'[c] = keyOf[c] /\ stamp'[c] = stamp[c] /\ row'[c] = row[c]
    BY <2>1, <2>2, NewBlock

  <2>4. /\ UNCHANGED <<op, half, hits, evicting, contended, stray>> /\ training
        /\ map'[k] = b /\ (\A j \in Keys : j # k => map'[j] = map[j])
        /\ \A j \in Keys : j # k => last'[j] = last[j]
    BY <1>8, <2>1 DEF WriteMiss, races, TypeOK, Control, Modes
  <2>5. k \in op[t].keys /\ map[k] = NoBlock /\ k \notin hits[t] /\ half[t] = {}
    BY <1>8, TrainingMap, <2>4 DEF WriteMiss, CallsKnow, CallKnows
  <2>6. ASSUME NEW j \in Keys, Plain(j)' PROVE RowOf(j)'
    <3>1. CASE j = k
      <4>1. \A u \in Setters : k \in op[u].keys => u = t
        BY <2>4, <2>5, TrainingMap DEF Overlaps
      <4>. QED BY <2>3, <2>4, <2>5, <3>1, <4>1 DEF RowOf, Write
    <3>2. CASE j # k
      <4>1. Plain(j) /\ RowOf(j) /\ map[j] \in Blocks /\ map[j] \in used \ stray
        BY <2>4, <2>6, <3>2, PlainKey DEF Plain, Found, RowsOf
      <4>2. row'[map[j]] = row[map[j]]
        BY <2>3, <4>1
      <4>. QED BY <2>4, <3>2, <4>1, <4>2 DEF RowOf, Latest, Write
    <3>. QED BY <3>1, <3>2
  <2>. QED BY <2>6 DEF RowsOf
<1>9. ASSUME NEW t \in Setters, NEW k \in Keys, CopyBegin(t, k) PROVE RowsOf'
  <2>1. k \in hits[t] /\ half[t] = {} /\ UNCHANGED <<map, op, last, hits, evicting, contended, stray>>
    BY <1>9 DEF CopyBegin, races
  <2>2. /\ row'[map[k]] = [row[map[k]] EXCEPT ![1] = Write(t, k)]
        /\ \A c \in Blocks : c # map[k] => row'[c] = row[c]
        /\ half'[t] = {k} /\ \A u \in Setters : u # t => half'[u] = half[u]
    BY <1>9, <2>1, OthersBlocks DEF CopyBegin, TypeOK
  <2>3. ASSUME NEW j \in Keys, Plain(j)' PROVE RowOf(j)'
    <3>1. Plain(j) /\ RowOf(j) /\ map[j] \in Blocks
      BY <2>1, <2>3, PlainKey DEF Plain, Found, RowsOf
    <3>2. CASE j = k
      <4>1. k \in op[t].keys /\ \A u \in Setters : k \in op[u].keys => u = t
        BY <2>1, <3>1, <3>2, PlainKey, OthersBlocks
      <4>2. row[map[k]] = Whole(Latest(k))
        BY <2>1, <3>1, <3>2, <4>1 DEF RowOf
      <4>3. row'[map[k]][1] = Write(t, k) /\ row'[map[k]][2] = Latest(k)
        BY <2>2, <4>2 DEF Whole
      <4>. QED BY <2>1, <2>2, <3>2, <4>1, <4>3 DEF RowOf, Latest, Write
    <3>3. CASE j # k
      <4>1. row'[map[j]] = row[map[j]]
        BY <2>1, <2>2, <3>1, <3>3, OthersBlocks
      <4>. QED BY <2>1, <2>2, <3>1, <3>3, <4>1 DEF RowOf, Latest, Write
    <3>. QED BY <3>2, <3>3
  <2>. QED BY <2>3 DEF RowsOf
<1>10. ASSUME NEW t \in Setters, NEW k \in Keys, CopyEnd(t, k) PROVE RowsOf'
  <2>1. k \in half[t] /\ k \in hits[t] /\ UNCHANGED <<map, op, last, evicting, contended, stray>>
    BY <1>10 DEF CopyEnd, races, CallsKnow, CallKnows
  <2>2. /\ row'[map[k]] = [row[map[k]] EXCEPT ![2] = Write(t, k)]
        /\ \A c \in Blocks : c # map[k] => row'[c] = row[c]
        /\ half'[t] = {} /\ (\A u \in Setters : u # t => half'[u] = half[u])
        /\ hits'[t] = hits[t] \ {k} /\ \A u \in Setters : u # t => hits'[u] = hits[u]
    BY <1>10, <2>1, OthersBlocks DEF CopyEnd, TypeOK
  <2>3. half[t] = {k}
    BY <2>1 DEF CallsKnow, CallKnows
  <2>4. ASSUME NEW j \in Keys, Plain(j)' PROVE RowOf(j)'
    <3>1. Plain(j) /\ RowOf(j) /\ map[j] \in Blocks
      BY <2>1, <2>4, PlainKey DEF Plain, Found, RowsOf
    <3>2. CASE j = k
      <4>1. k \in op[t].keys /\ \A u \in Setters : k \in op[u].keys => u = t
        BY <2>1, <3>1, <3>2, PlainKey, OthersBlocks
      <4>2. row[map[k]][1] = Write(t, k) /\ row[map[k]] \in Rows
        BY <2>1, <3>1, <3>2, <4>1 DEF RowOf, TypeOK
      <4>3. row'[map[k]] = Whole(Write(t, k))
        BY <2>2, <4>2 DEF Whole, Rows
      <4>. QED BY <2>1, <2>2, <3>2, <4>1, <4>3 DEF RowOf, Latest, Write
    <3>3. CASE j # k
      <4>1. row'[map[j]] = row[map[j]]
        BY <2>1, <2>2, <3>1, <3>3, OthersBlocks
      <4>. QED BY <2>1, <2>2, <2>3, <3>1, <3>3, <4>1 DEF RowOf, Latest, Write
    <3>. QED BY <3>2, <3>3
  <2>. QED BY <2>4 DEF RowsOf
<1>11. ASSUME NEW t \in Setters, NEW k \in Keys, Fill(t, k) PROVE RowsOf'
  <2>1. PICK b \in Free(SizeToAllocate) : AllocateFor(b, k, Write(t, k), op[t].stamp)
                                    /\ fresh' = [fresh EXCEPT ![t][k] = b]
    BY <1>11 DEF Fill
  <2>2. HasRoom
    BY <1>11 DEF Fill
  <2>3. /\ b \in Blocks /\ (b \notin used \/ b \in stray)
        /\ used' = used \cup {b} /\ keyOf'[b] = k /\ stamp'[b] = op[t].stamp
        /\ row'[b] = Whole(Write(t, k))
        /\ \A c \in Blocks : c # b =>
             keyOf'[c] = keyOf[c] /\ stamp'[c] = stamp[c] /\ row'[c] = row[c]
    BY <2>1, <2>2, NewBlock

  <2>4. UNCHANGED <<map, op, hits, half, last, evicting, contended, stray>>
    BY <1>11 DEF Fill, races
  <2>5. ASSUME NEW j \in Keys, Plain(j)' PROVE RowOf(j)'
    <3>1. Plain(j) /\ RowOf(j) /\ map[j] \in Blocks /\ map[j] \in used \ stray
      BY <2>4, <2>5, PlainKey DEF Plain, Found, RowsOf
    <3>2. row'[map[j]] = row[map[j]]
      BY <2>3, <3>1
    <3>. QED BY <2>4, <3>1, <3>2 DEF RowOf, Latest, Write
  <2>. QED BY <2>5 DEF RowsOf
<1>12. ASSUME Trigger PROVE RowsOf'
  <2>1. /\ UNCHANGED <<row, last, op, hits, half, fresh>> /\ stray \subseteq stray' /\ contended' = contended
        /\ \A j \in Keys : Plain(j)' => Plain(j) /\ map'[j] = map[j]
    BY <1>12 DEF Trigger, Plain, Found, pool, setters, races
  <2>. QED BY <2>1 DEF RowsOf, RowOf, Latest, Write
<1>13. ASSUME ScanBegin PROVE RowsOf'
  <2>1. /\ UNCHANGED <<row, last, op, hits, half, fresh>> /\ stray \subseteq stray' /\ contended' = contended
        /\ \A j \in Keys : Plain(j)' => Plain(j) /\ map'[j] = map[j]
    BY <1>13 DEF ScanBegin, Plain, Found, pool, setters, races
  <2>. QED BY <2>1 DEF RowsOf, RowOf, Latest, Write
<1>14. ASSUME ScanBlock PROVE RowsOf'
  <2>1. /\ UNCHANGED <<row, last, op, hits, half, fresh>> /\ stray \subseteq stray' /\ contended' = contended
        /\ \A j \in Keys : Plain(j)' => Plain(j) /\ map'[j] = map[j]
    <3>1. /\ UNCHANGED <<row, last, op, hits, half, fresh>> /\ stray \subseteq stray' /\ contended' = contended
          /\ stamp' = stamp
      BY <1>14 DEF ScanBlock, Evict, EvictFromMap, EvictLater, FreedStray, setters
    <3>2. /\ \A k \in Keys : map'[k] \in {map[k], NoBlock}
          /\ evicting \subseteq evicting'
      BY <1>14 DEF ScanBlock, Evict, EvictFromMap, EvictLater, TypeOK
    <3>. QED BY <3>1, <3>2 DEF Plain, Found
  <2>. QED BY <2>1 DEF RowsOf, RowOf, Latest, Write
<1>15. ASSUME ScanEnd PROVE RowsOf'
  <2>1. /\ UNCHANGED <<row, last, op, hits, half, fresh>> /\ stray \subseteq stray' /\ contended' = contended
        /\ \A j \in Keys : Plain(j)' => Plain(j) /\ map'[j] = map[j]
    BY <1>15 DEF ScanEnd, Plain, Found, pool, setters, races
  <2>. QED BY <2>1 DEF RowsOf, RowOf, Latest, Write
<1>16. ASSUME Erase PROVE RowsOf'
  <2>1. /\ UNCHANGED <<row, last, op, hits, half, fresh>> /\ stray \subseteq stray' /\ contended' = contended
        /\ \A j \in Keys : Plain(j)' => Plain(j) /\ map'[j] = map[j]
    <3>1. \A k \in Keys : map'[k] = IF k \in evicting THEN NoBlock ELSE map[k]
      BY <1>16 DEF Erase
    <3>2. UNCHANGED <<row, last, op, hits, half, fresh, contended, stray, stamp>>
      BY <1>16 DEF Erase, pool, setters, races
    <3>. QED BY <3>1, <3>2 DEF Plain, Found
  <2>. QED BY <2>1 DEF RowsOf, RowOf, Latest, Write
<1> QED BY <1>1, <1>2, <1>3, <1>4, <1>5, <1>6, <1>7, <1>8, <1>9, <1>10, <1>11, <1>12, <1>13, <1>14, <1>15, <1>16 DEF Next, EvictStep, SetStep

(* Every step keeps the rows of new blocks. *)
LEMMA StepFreshRows == IInv /\ RowsInv /\ Next => FreshRows'
<1> SUFFICES ASSUME IInv, RowsInv, Next PROVE FreshRows'
  OBVIOUS
<1> USE DEF IInv, Calling, Structure, RowsInv
<1>1. ASSUME NEW t \in Setters, SetBegin(t) PROVE FreshRows'
  <2>1. \A k \in Keys : fresh[t][k] = NoBlock
    BY <1>1 DEF SetBegin, AllFresh, FreshKept
  <2>2. /\ UNCHANGED <<row, stamp, fresh>> /\ stray \subseteq stray' /\ contended \subseteq contended'
        /\ \A u \in Setters : u # t => op'[u] = op[u]
    BY <1>1 DEF SetBegin, pool, TypeOK
  <2>. QED BY <2>1, <2>2 DEF FreshRows, Write
<1>2. ASSUME NEW t \in Setters, WriteEnd(t) PROVE FreshRows'
  <2>1. \A u \in Setters, l \in Keys : fresh[u][l] = NoBlock
    BY <1>2, TrainingMap DEF WriteEnd, Control, Modes
  <2>. QED BY <1>2, <2>1 DEF WriteEnd, FreshRows
<1>3. ASSUME NEW t \in Setters, CopyDone(t) PROVE FreshRows'
  <2>1. /\ UNCHANGED <<row, last, op, hits, half, fresh>> /\ stray \subseteq stray' /\ contended' = contended
        /\ \A j \in Keys : Plain(j)' => Plain(j) /\ map'[j] = map[j]
    BY <1>3 DEF CopyDone, Plain, Found, pool, setters, races
  <2>. QED BY <2>1 DEF FreshRows, Write
<1>4. ASSUME NEW t \in Setters, TakePool(t) PROVE FreshRows'
  <2>1. /\ UNCHANGED <<row, last, op, hits, half, fresh>> /\ stray \subseteq stray' /\ contended' = contended
        /\ \A j \in Keys : Plain(j)' => Plain(j) /\ map'[j] = map[j]
    BY <1>4 DEF TakePool, Plain, Found, pool, setters, races
  <2>. QED BY <2>1 DEF FreshRows, Write
<1>5. ASSUME NEW t \in Setters, GivePool(t) PROVE FreshRows'
  <2>1. /\ UNCHANGED <<row, last, op, hits, half, fresh>> /\ stray \subseteq stray' /\ contended' = contended
        /\ \A j \in Keys : Plain(j)' => Plain(j) /\ map'[j] = map[j]
    BY <1>5 DEF GivePool, Plain, Found, pool, setters, races
  <2>. QED BY <2>1 DEF FreshRows, Write
<1>6. ASSUME NEW t \in Setters, Insert(t) PROVE FreshRows'
  <2>1. /\ UNCHANGED <<row, stamp, stray, contended>> /\ \A k \in Keys : fresh'[t][k] = NoBlock
        /\ \A u \in Setters : u # t => op'[u] = op[u] /\ fresh'[u] = fresh[u]
    BY <1>6 DEF Insert, pool, races, TypeOK
  <2>. QED BY <2>1 DEF FreshRows, Write
<1>7. ASSUME NEW t \in Setters, NEW k \in Keys, WriteHit(t, k) PROVE FreshRows'
  <2>1. \A u \in Setters, l \in Keys : fresh[u][l] = NoBlock
    BY <1>7, TrainingMap DEF WriteHit, Control, Modes
  <2>. QED BY <1>7, <2>1 DEF WriteHit, FreshRows
<1>8. ASSUME NEW t \in Setters, NEW k \in Keys, WriteMiss(t, k) PROVE FreshRows'
  <2>1. \A u \in Setters, l \in Keys : fresh[u][l] = NoBlock
    BY <1>8, TrainingMap DEF WriteMiss, Control, Modes
  <2>. QED BY <1>8, <2>1 DEF WriteMiss, FreshRows
<1>9. ASSUME NEW t \in Setters, NEW k \in Keys, CopyBegin(t, k) PROVE FreshRows'
  <2>1. k \in hits[t] /\ UNCHANGED <<op, fresh, stamp, stray, contended>>
    BY <1>9 DEF CopyBegin, pool, races
  <2>2. \A c \in Blocks : c # map[k] => row'[c] = row[c]
    BY <1>9, <2>1, OthersBlocks DEF CopyBegin, TypeOK
  <2>. QED BY <2>1, <2>2, OthersBlocks, FreshBlock DEF FreshRows, Write
<1>10. ASSUME NEW t \in Setters, NEW k \in Keys, CopyEnd(t, k) PROVE FreshRows'
  <2>1. k \in hits[t] /\ UNCHANGED <<op, fresh, stray, contended>>
    BY <1>10 DEF CopyEnd, races, CallsKnow, CallKnows
  <2>2. \A c \in Blocks : c # map[k] => row'[c] = row[c] /\ stamp'[c] = stamp[c]
    BY <1>10, <2>1, OthersBlocks DEF CopyEnd, NewStamp, TypeOK
  <2>. QED BY <2>1, <2>2, OthersBlocks, FreshBlock DEF FreshRows, Write
<1>11. ASSUME NEW t \in Setters, NEW k \in Keys, Fill(t, k) PROVE FreshRows'
  <2>1. PICK b \in Free(SizeToAllocate) : AllocateFor(b, k, Write(t, k), op[t].stamp)
                                    /\ fresh' = [fresh EXCEPT ![t][k] = b]
    BY <1>11 DEF Fill
  <2>2. HasRoom
    BY <1>11 DEF Fill
  <2>3. /\ b \in Blocks /\ (b \notin used \/ b \in stray)
        /\ used' = used \cup {b} /\ keyOf'[b] = k /\ stamp'[b] = op[t].stamp
        /\ row'[b] = Whole(Write(t, k))
        /\ \A c \in Blocks : c # b =>
             keyOf'[c] = keyOf[c] /\ stamp'[c] = stamp[c] /\ row'[c] = row[c]
    BY <2>1, <2>2, NewBlock

  <2>4. UNCHANGED <<op, contended, stray>>
    BY <1>11 DEF Fill, races
  <2>5. \A u \in Setters, l \in Keys : fresh'[u][l] = IF u = t /\ l = k THEN b ELSE fresh[u][l]
    BY <2>1 DEF TypeOK
  <2>6. \A u \in Setters, l \in Keys :
          fresh[u][l] # NoBlock /\ fresh[u][l] \notin stray /\ l \notin contended
            => fresh[u][l] \in Blocks /\ fresh[u][l] # b
    BY <2>3, FreshBlock
  <2>. QED BY <2>3, <2>4, <2>5, <2>6 DEF FreshRows, Write
<1>12. ASSUME Trigger PROVE FreshRows'
  <2>1. /\ UNCHANGED <<row, last, op, hits, half, fresh>> /\ stray \subseteq stray' /\ contended' = contended
        /\ \A j \in Keys : Plain(j)' => Plain(j) /\ map'[j] = map[j]
    BY <1>12 DEF Trigger, Plain, Found, pool, setters, races
  <2>. QED BY <2>1 DEF FreshRows, Write
<1>13. ASSUME ScanBegin PROVE FreshRows'
  <2>1. /\ UNCHANGED <<row, last, op, hits, half, fresh>> /\ stray \subseteq stray' /\ contended' = contended
        /\ \A j \in Keys : Plain(j)' => Plain(j) /\ map'[j] = map[j]
    BY <1>13 DEF ScanBegin, Plain, Found, pool, setters, races
  <2>. QED BY <2>1 DEF FreshRows, Write
<1>14. ASSUME ScanBlock PROVE FreshRows'
  <2>1. /\ UNCHANGED <<row, last, op, hits, half, fresh>> /\ stray \subseteq stray' /\ contended' = contended
        /\ \A j \in Keys : Plain(j)' => Plain(j) /\ map'[j] = map[j]
    <3>1. /\ UNCHANGED <<row, last, op, hits, half, fresh>> /\ stray \subseteq stray' /\ contended' = contended
          /\ stamp' = stamp
      BY <1>14 DEF ScanBlock, Evict, EvictFromMap, EvictLater, FreedStray, setters
    <3>2. /\ \A k \in Keys : map'[k] \in {map[k], NoBlock}
          /\ evicting \subseteq evicting'
      BY <1>14 DEF ScanBlock, Evict, EvictFromMap, EvictLater, TypeOK
    <3>. QED BY <3>1, <3>2 DEF Plain, Found
  <2>. QED BY <2>1 DEF FreshRows, Write
<1>15. ASSUME ScanEnd PROVE FreshRows'
  <2>1. /\ UNCHANGED <<row, last, op, hits, half, fresh>> /\ stray \subseteq stray' /\ contended' = contended
        /\ \A j \in Keys : Plain(j)' => Plain(j) /\ map'[j] = map[j]
    BY <1>15 DEF ScanEnd, Plain, Found, pool, setters, races
  <2>. QED BY <2>1 DEF FreshRows, Write
<1>16. ASSUME Erase PROVE FreshRows'
  <2>1. /\ UNCHANGED <<row, last, op, hits, half, fresh>> /\ stray \subseteq stray' /\ contended' = contended
        /\ \A j \in Keys : Plain(j)' => Plain(j) /\ map'[j] = map[j]
    <3>1. \A k \in Keys : map'[k] = IF k \in evicting THEN NoBlock ELSE map[k]
      BY <1>16 DEF Erase
    <3>2. UNCHANGED <<row, last, op, hits, half, fresh, contended, stray, stamp>>
      BY <1>16 DEF Erase, pool, setters, races
    <3>. QED BY <3>1, <3>2 DEF Plain, Found
  <2>. QED BY <2>1 DEF FreshRows, Write
<1> QED BY <1>1, <1>2, <1>3, <1>4, <1>5, <1>6, <1>7, <1>8, <1>9, <1>10, <1>11, <1>12, <1>13, <1>14, <1>15, <1>16 DEF Next, EvictStep, SetStep


LEMMA StepRows == IInv /\ RowsInv /\ [Next]_vars => RowsInv'
<1> SUFFICES ASSUME IInv, RowsInv, [Next]_vars PROVE RowsInv'
  OBVIOUS
<1>1. CASE Next
  BY <1>1, StepWritten, StepOfItsKey, StepRowsOf, StepFreshRows DEF RowsInv
<1>2. CASE UNCHANGED vars
  BY <1>2 DEF vars, pool, setters, round, races, RowsInv, Written, OfItsKey, RowsOf, RowOf, FreshRows,
     Plain, Latest, Found, Write
<1>. QED BY <1>1, <1>2

LEMMA RowsHold == Spec => [](IInv /\ RowsInv)
<1>1. Init => RowsInv
  BY DEF Init, RowsInv, Written, OfItsKey, RowsOf, FreshRows, Plain, Found, NoCall
<1>. QED BY <1>1, InitIInv, StepIInv, StepRows, PTL DEF Spec

(* What a get copies out for a key it finds was set for that key, by the    *)
(* last set of it that returned or by one in progress, unless sets of the   *)
(* key overlapped or the scan freed its block.                              *)
THEOREM GetsReadTheirRow == Spec => []GetReadsItsRow
<1>1. IInv /\ RowsInv => GetReadsItsRow
  <2> SUFFICES ASSUME IInv, RowsInv, NEW k \in Keys, Readable(k), ~Leaving(k), ~Stray(map[k]),
                      NEW w \in ReadRow(k)
               PROVE  /\ w.key = k
                      /\ \/ w.set = last[k].set
                         \/ \E t \in Setters : k \in op[t].keys /\ w.set = op[t].set
                         \/ Contended(k)
    BY DEF GetReadsItsRow
  <2>1. /\ Found(k) /\ k \notin evicting /\ map[k] \notin stray /\ (k \in contended => Contended(k))
    BY DEF Readable, Leaving, Stray, Contended, IInv, Control, Modes
  <2>2. map[k] \in used \ stray /\ keyOf[map[k]] = k
    BY <2>1 DEF IInv, Structure, Leads, Owns
  <2>3. PICK n \in 1..2 : w = row[map[k]][n]
    BY DEF ReadRow
  <2>4. w.key = k
    BY <2>2, <2>3 DEF RowsInv, OfItsKey
  <2>5. CASE k \notin contended
    <3>1. RowOf(k)
      BY <2>1, <2>5 DEF RowsInv, RowsOf, Plain
    <3>2. CASE \A t \in Setters : k \notin op[t].keys
      BY <2>3, <3>1, <3>2 DEF RowOf, Whole, Latest
    <3>3. ASSUME NEW t \in Setters, k \in op[t].keys PROVE w.set \in {last[k].set, op[t].set}
      <4>1. half[t] \subseteq hits[t]
        BY DEF IInv, Calling, CallsKnow, CallKnows
      <4>2. Write(t, k).set = op[t].set /\ Latest(k).set = last[k].set
        BY DEF Write, Latest
      <4>3. row[map[k]][n] \in {Write(t, k), Latest(k)}
        <5>1. CASE k \in half[t]
          BY <3>1, <3>3, <5>1 DEF RowOf
        <5>2. CASE k \notin half[t]
          BY <3>1, <3>3, <5>2 DEF RowOf, Whole
        <5>. QED BY <5>1, <5>2
      <4>. QED BY <2>3, <4>2, <4>3
    <3>. QED BY <2>4, <3>2, <3>3
  <2>. QED BY <2>1, <2>4, <2>5
<1>. QED BY <1>1, RowsHold, PTL

(* A row nobody is setting is the whole row of the last set of its key,     *)
(* unless sets of the key overlapped or the scan freed its block.           *)
THEOREM RowsOfLastSets == Spec => []RowsSettle
<1>1. IInv /\ RowsInv => RowsSettle
  <2> SUFFICES ASSUME IInv, RowsInv, NEW k \in Keys, Found(k), ~BeingSet(k), ~Contended(k),
                      ~Leaving(k), ~Stray(map[k])
               PROVE  row[map[k]] = Whole([key |-> k, set |-> last[k].set])
    BY DEF RowsSettle
  <2>1. Plain(k)
    BY DEF Plain, Contended, Leaving, Stray, IInv, Control, Modes
  <2>2. \A t \in Setters : k \notin op[t].keys
    BY DEF BeingSet, IInv, Calling, CallsKnow, CallKnows
  <2>. QED BY <2>1, <2>2 DEF RowsInv, RowsOf, RowOf, Latest
<1>. QED BY <1>1, RowsHold, PTL

-----------------------------------------------------------------------------
(* What the timestamps are.                                                 *)

Copied(t, k) == k \in op[t].keys /\ k \notin hits[t] /\ op[t].timed

(* A plain key's timestamp is that of the last set that gave one and        *)
(* returned, or of the one in progress once it has copied the row.          *)
StampOf(k) ==
    /\ (\A t \in Setters : ~Copied(t, k)) => stamp[map[k]] = last[k].stamp
    /\ \A t \in Setters : Copied(t, k) => stamp[map[k]] = op[t].stamp
StampsOf == \A k \in Keys : Plain(k) => StampOf(k)

FreshStamps ==
    \A t \in Setters, k \in Keys :
        fresh[t][k] # NoBlock /\ fresh[t][k] \notin stray /\ k \notin contended
            => stamp[fresh[t][k]] = op[t].stamp

(* A key about to be erased was old, and stays so. *)
Doomed(k) ==
    /\ \A t \in Setters : k \notin hits[t]
    /\ \/ \E t \in Setters : Copied(t, k) /\ op[t].stamp < threshold
       \/ last[k].stamp < threshold /\ \A t \in Setters : ~Copied(t, k)
AllDoomed == \A k \in evicting \ contended : Found(k) /\ map[k] \notin stray => Doomed(k)

TimesInv == StampsOf /\ FreshStamps /\ AllDoomed

(* Every step keeps the timestamps of plain keys what their sets make them. *)
LEMMA StepStampsOf == IInv /\ RowsInv /\ TimesInv /\ Next => StampsOf'
<1> SUFFICES ASSUME IInv, RowsInv, TimesInv, Next PROVE StampsOf'
  OBVIOUS
<1> USE DEF IInv, Calling, Structure, RowsInv, TimesInv
<1>1. ASSUME NEW t \in Setters, SetBegin(t) PROVE StampsOf'
  <2>1. PICK keys \in (SUBSET Keys) \ {{}} :
          /\ op'[t].keys = keys /\ hits'[t] = {k \in keys : Found(k)}
          /\ \A u \in Setters : u # t => op'[u] = op[u] /\ hits'[u] = hits[u]
          /\ contended' = contended \cup {k \in keys : BeingSet(k)}
          /\ stray \subseteq stray'
    BY <1>1 DEF SetBegin, TypeOK
  <2>2. op[t].keys = {} /\ UNCHANGED <<map, stamp, last, evicting>>
    BY <1>1 DEF SetBegin, pool, CallsKnow, CallKnows
  <2>3. ASSUME NEW k \in Keys, Plain(k)' PROVE StampOf(k)'
    <3>1. Plain(k) /\ StampOf(k)
      BY <2>1, <2>2, <2>3 DEF Plain, Found, StampsOf
    <3>2. ~Copied(t, k) /\ ~Copied(t, k)'
      BY <2>1, <2>2, <3>1 DEF Copied, Plain
    <3>3. \A u \in Setters : u # t => (Copied(u, k)' <=> Copied(u, k))
      BY <2>1 DEF Copied
    <3>. QED BY <2>1, <2>2, <3>1, <3>2, <3>3 DEF StampOf
  <2>. QED BY <2>3 DEF StampsOf
<1>2. ASSUME NEW t \in Setters, WriteEnd(t) PROVE StampsOf'
  <2>1. /\ training /\ hits[t] = {} /\ misses[t] = {} /\ op'[t].keys = {}
        /\ \A u \in Setters : u # t => op'[u] = op[u]
    BY <1>2 DEF WriteEnd, Control, Modes, NoCall, TypeOK
  <2>2. UNCHANGED <<map, stamp, last, hits, evicting, contended, stray>>
    BY <1>2 DEF WriteEnd, races, pool
  <2>3. ASSUME NEW k \in Keys, Plain(k)' PROVE StampOf(k)'
    <3>1. Plain(k) /\ StampOf(k)
      BY <2>2, <2>3 DEF Plain, Found, StampsOf
    <3>2. \A u \in Setters : u # t => (Copied(u, k)' <=> Copied(u, k))
      BY <2>1, <2>2 DEF Copied
    <3>3. CASE k \in op[t].keys
      <4>1. last[k] = [set |-> op[t].set, stamp |-> op[t].stamp] /\ Copied(t, k)
        BY <2>1, <3>3 DEF Written, Copied
      <4>2. last[k].stamp = op[t].stamp
        BY <4>1
      <4>3. stamp[map[k]] = last[k].stamp
        BY <3>1, <4>1, <4>2 DEF StampOf
      <4>4. \A u \in Setters : ~Copied(u, k)'
        BY <2>1, <3>1, <3>2, <3>3, PlainKey DEF Copied
      <4>. QED BY <2>2, <4>3, <4>4 DEF StampOf
    <3>4. CASE k \notin op[t].keys
      <4>1. ~Copied(t, k) /\ ~Copied(t, k)'
        BY <2>1, <3>4 DEF Copied
      <4>. QED BY <2>1, <2>2, <3>1, <3>2, <4>1 DEF StampOf
    <3>. QED BY <3>3, <3>4
  <2>. QED BY <2>3 DEF StampsOf
<1>3. ASSUME NEW t \in Setters, CopyDone(t) PROVE StampsOf'
  <2>1. /\ UNCHANGED <<stamp, last, op, hits, fresh>> /\ stray \subseteq stray' /\ contended' = contended
        /\ \A j \in Keys : Plain(j)' => Plain(j) /\ map'[j] = map[j]
    BY <1>3 DEF CopyDone, Plain, Found, pool, setters, races
  <2>. QED BY <2>1 DEF StampsOf, StampOf, Copied
<1>4. ASSUME NEW t \in Setters, TakePool(t) PROVE StampsOf'
  <2>1. /\ UNCHANGED <<stamp, last, op, hits, fresh>> /\ stray \subseteq stray' /\ contended' = contended
        /\ \A j \in Keys : Plain(j)' => Plain(j) /\ map'[j] = map[j]
    BY <1>4 DEF TakePool, Plain, Found, pool, setters, races
  <2>. QED BY <2>1 DEF StampsOf, StampOf, Copied
<1>5. ASSUME NEW t \in Setters, GivePool(t) PROVE StampsOf'
  <2>1. /\ UNCHANGED <<stamp, last, op, hits, fresh>> /\ stray \subseteq stray' /\ contended' = contended
        /\ \A j \in Keys : Plain(j)' => Plain(j) /\ map'[j] = map[j]
    BY <1>5 DEF GivePool, Plain, Found, pool, setters, races
  <2>. QED BY <2>1 DEF StampsOf, StampOf, Copied
<1>6. ASSUME NEW t \in Setters, Insert(t) PROVE StampsOf'
  <2>1. /\ UNCHANGED <<stamp, hits, evicting, contended, stray>> /\ op'[t].keys = {}
        /\ \A u \in Setters : u # t => op'[u] = op[u]
    BY <1>6 DEF Insert, NoCall, races, pool, TypeOK
  <2>2. /\ \A k \in Keys : map'[k] = IF Found(k) THEN map[k] ELSE fresh[t][k]
        /\ \A k \in Keys : k \notin op[t].keys => last'[k] = last[k]
        /\ \A k \in Keys : k \in op[t].keys =>
             last'[k].stamp = IF op[t].timed \/ fresh[t][k] # NoBlock THEN op[t].stamp ELSE last[k].stamp
    BY <1>6 DEF Insert, Inserted
  <2>3. hits[t] = {} /\ \A k \in Keys : ~Copied(t, k)'
    BY <1>6, <2>1 DEF Insert, CallsKnow, CallKnows, Copied
  <2>4. \A u \in Setters, k \in Keys : u # t => (Copied(u, k)' <=> Copied(u, k))
    BY <2>1 DEF Copied
  <2>5. ASSUME NEW k \in Keys, Plain(k)' PROVE StampOf(k)'
    <3>1. \A u, v \in Setters : k \in op[u].keys /\ k \in op[v].keys => u = v
      BY <2>1, <2>5 DEF Plain, Overlaps
    <3>2. CASE k \in op[t].keys
      <4>1. \A u \in Setters : ~Copied(u, k)' /\ (Copied(u, k) => u = t)
        BY <2>3, <2>4, <3>1, <3>2 DEF Copied
      <4>2. stamp[map'[k]] = last'[k].stamp
        <5>1. CASE Found(k)
          <6>1. Plain(k) /\ StampOf(k) /\ map'[k] = map[k] /\ fresh[t][k] = NoBlock
            BY <2>1, <2>2, <2>5, <5>1, PlainKey DEF Plain, Found, StampsOf
          <6>2. Copied(t, k) <=> op[t].timed
            BY <2>3, <3>2 DEF Copied
          <6>. QED BY <2>2, <3>2, <4>1, <6>1, <6>2 DEF StampOf
        <5>2. CASE ~Found(k)
          BY <2>1, <2>2, <2>5, <3>2, <5>2 DEF Plain, Found, FreshStamps
        <5>. QED BY <5>1, <5>2
      <4>. QED BY <2>1, <4>1, <4>2 DEF StampOf
    <3>3. CASE k \notin op[t].keys
      <4>1. fresh[t][k] = NoBlock /\ ~Copied(t, k)
        BY <3>3 DEF AllFresh, FreshKept, Copied
      <4>2. Plain(k) /\ map'[k] = map[k] /\ last'[k] = last[k]
        BY <2>1, <2>2, <2>5, <3>3, <4>1 DEF Plain, Found
      <4>. QED BY <2>1, <2>3, <2>4, <4>1, <4>2 DEF StampsOf, StampOf
    <3>. QED BY <3>2, <3>3
  <2>. QED BY <2>5 DEF StampsOf
<1>7. ASSUME NEW t \in Setters, NEW k \in Keys, WriteHit(t, k) PROVE StampsOf'
  <2>1. training /\ k \in hits[t] /\ UNCHANGED <<map, op, evicting, contended, stray>>
    BY <1>7 DEF WriteHit, races, Control, Modes
  <2>2. /\ stamp'[map[k]] = op[t].stamp /\ \A c \in Blocks : c # map[k] => stamp'[c] = stamp[c]
        /\ \A j \in Keys : j # k => last'[j] = last[j]
        /\ hits'[t] = hits[t] \ {k} /\ \A u \in Setters : u # t => hits'[u] = hits[u]
    BY <1>7, <2>1, OthersBlocks DEF WriteHit, TypeOK
  <2>3. k \in op[t].keys /\ op[t].timed
    BY <1>7, <2>1 DEF WriteHit, CallsKnow, CallKnows, Written
  <2>4. ASSUME NEW j \in Keys, Plain(j)' PROVE StampOf(j)'
    <3>1. Plain(j) /\ StampOf(j) /\ map[j] \in Blocks
      BY <2>1, <2>4, PlainKey DEF Plain, Found, StampsOf
    <3>2. CASE j = k
      <4>1. Copied(t, k)' /\ \A u \in Setters : Copied(u, k)' => u = t
        BY <2>1, <2>2, <2>3, <3>1, <3>2, PlainKey DEF Copied
      <4>. QED BY <2>1, <2>2, <3>2, <4>1 DEF StampOf
    <3>3. CASE j # k
      <4>1. stamp'[map[j]] = stamp[map[j]]
        BY <2>1, <2>2, <3>1, <3>3, OthersBlocks
      <4>. QED BY <2>1, <2>2, <3>1, <3>3, <4>1 DEF StampOf, Copied
    <3>. QED BY <3>2, <3>3
  <2>. QED BY <2>4 DEF StampsOf
<1>8. ASSUME NEW t \in Setters, NEW k \in Keys, WriteMiss(t, k) PROVE StampsOf'
  <2>1. PICK b \in Free(SizeToAllocate) : AllocateFor(b, k, Write(t, k), op[t].stamp)
                                    /\ map' = [map EXCEPT ![k] = b]
    BY <1>8 DEF WriteMiss
  <2>2. HasRoom
    BY <1>8 DEF WriteMiss
  <2>3. /\ b \in Blocks /\ (b \notin used \/ b \in stray)
        /\ used' = used \cup {b} /\ keyOf'[b] = k /\ stamp'[b] = op[t].stamp
        /\ row'[b] = Whole(Write(t, k))
        /\ \A c \in Blocks : c # b =>
             keyOf'[c] = keyOf[c] /\ stamp'[c] = stamp[c] /\ row'[c] = row[c]
    BY <2>1, <2>2, NewBlock

  <2>4. /\ UNCHANGED <<op, hits, evicting, contended, stray>> /\ training
        /\ map'[k] = b /\ (\A j \in Keys : j # k => map'[j] = map[j])
        /\ \A j \in Keys : j # k => last'[j] = last[j]
    BY <1>8, <2>1 DEF WriteMiss, races, TypeOK, Control, Modes
  <2>5. k \in op[t].keys /\ map[k] = NoBlock /\ k \notin hits[t] /\ op[t].timed
    <3>1. k \in op[t].keys /\ map[k] = NoBlock /\ k \notin hits[t]
      BY <1>8, TrainingMap, <2>4 DEF WriteMiss, CallsKnow, CallKnows
    <3>. QED BY <2>4, <3>1 DEF Written
  <2>6. ASSUME NEW j \in Keys, Plain(j)' PROVE StampOf(j)'
    <3>1. CASE j = k
      <4>1. Copied(t, k)' /\ \A u \in Setters : Copied(u, k)' => u = t
        BY <2>4, <2>5, TrainingMap DEF Overlaps, Copied
      <4>. QED BY <2>3, <2>4, <3>1, <4>1 DEF StampOf
    <3>2. CASE j # k
      <4>1. Plain(j) /\ StampOf(j) /\ map[j] \in Blocks /\ map[j] \in used \ stray
        BY <2>4, <2>6, <3>2, PlainKey DEF Plain, Found, StampsOf
      <4>2. stamp'[map[j]] = stamp[map[j]]
        BY <2>3, <4>1
      <4>. QED BY <2>4, <3>2, <4>1, <4>2 DEF StampOf, Copied
    <3>. QED BY <3>1, <3>2
  <2>. QED BY <2>6 DEF StampsOf
<1>9. ASSUME NEW t \in Setters, NEW k \in Keys, CopyBegin(t, k) PROVE StampsOf'
  <2>1. /\ UNCHANGED <<stamp, last, op, hits, fresh>> /\ stray \subseteq stray' /\ contended' = contended
        /\ \A j \in Keys : Plain(j)' => Plain(j) /\ map'[j] = map[j]
    BY <1>9 DEF CopyBegin, Plain, Found, pool, setters, races
  <2>. QED BY <2>1 DEF StampsOf, StampOf, Copied
<1>10. ASSUME NEW t \in Setters, NEW k \in Keys, CopyEnd(t, k) PROVE StampsOf'
  <2>1. k \in hits[t] /\ UNCHANGED <<map, op, last, evicting, contended, stray>>
    BY <1>10 DEF CopyEnd, races, CallsKnow, CallKnows
  <2>2. /\ stamp'[map[k]] = IF op[t].timed THEN op[t].stamp ELSE stamp[map[k]]
        /\ \A c \in Blocks : c # map[k] => stamp'[c] = stamp[c]
        /\ hits'[t] = hits[t] \ {k} /\ \A u \in Setters : u # t => hits'[u] = hits[u]
    BY <1>10, <2>1, OthersBlocks DEF CopyEnd, NewStamp, TypeOK
  <2>3. ASSUME NEW j \in Keys, Plain(j)' PROVE StampOf(j)'
    <3>1. Plain(j) /\ StampOf(j) /\ map[j] \in Blocks
      BY <2>1, <2>3, PlainKey DEF Plain, Found, StampsOf
    <3>2. CASE j = k
      <4>1. k \in op[t].keys /\ \A u \in Setters : k \in op[u].keys => u = t
        BY <2>1, <3>1, <3>2, PlainKey, OthersBlocks
      <4>2. /\ \A u \in Setters : ~Copied(u, k) /\ (Copied(u, k)' => u = t)
            /\ Copied(t, k)' <=> op[t].timed
        BY <2>1, <2>2, <4>1 DEF Copied
      <4>. QED BY <2>1, <2>2, <3>1, <3>2, <4>2 DEF StampOf
    <3>3. CASE j # k
      <4>1. stamp'[map[j]] = stamp[map[j]]
        BY <2>1, <2>2, <3>1, <3>3, OthersBlocks
      <4>. QED BY <2>1, <2>2, <3>1, <3>3, <4>1 DEF StampOf, Copied
    <3>. QED BY <3>2, <3>3
  <2>. QED BY <2>3 DEF StampsOf
<1>11. ASSUME NEW t \in Setters, NEW k \in Keys, Fill(t, k) PROVE StampsOf'
  <2>1. PICK b \in Free(SizeToAllocate) : AllocateFor(b, k, Write(t, k), op[t].stamp)
                                    /\ fresh' = [fresh EXCEPT ![t][k] = b]
    BY <1>11 DEF Fill
  <2>2. HasRoom
    BY <1>11 DEF Fill
  <2>3. /\ b \in Blocks /\ (b \notin used \/ b \in stray)
        /\ used' = used \cup {b} /\ keyOf'[b] = k /\ stamp'[b] = op[t].stamp
        /\ row'[b] = Whole(Write(t, k))
        /\ \A c \in Blocks : c # b =>
             keyOf'[c] = keyOf[c] /\ stamp'[c] = stamp[c] /\ row'[c] = row[c]
    BY <2>1, <2>2, NewBlock

  <2>4. UNCHANGED <<map, op, hits, last, evicting, contended, stray>>
    BY <1>11 DEF Fill, races
  <2>5. ASSUME NEW j \in Keys, Plain(j)' PROVE StampOf(j)'
    <3>1. Plain(j) /\ StampOf(j) /\ map[j] \in Blocks /\ map[j] \in used \ stray
      BY <2>4, <2>5, PlainKey DEF Plain, Found, StampsOf
    <3>2. stamp'[map[j]] = stamp[map[j]]
      BY <2>3, <3>1
    <3>. QED BY <2>4, <3>1, <3>2 DEF StampOf, Copied
  <2>. QED BY <2>5 DEF StampsOf
<1>12. ASSUME Trigger PROVE StampsOf'
  <2>1. /\ UNCHANGED <<stamp, last, op, hits, fresh>> /\ stray \subseteq stray' /\ contended' = contended
        /\ \A j \in Keys : Plain(j)' => Plain(j) /\ map'[j] = map[j]
    BY <1>12 DEF Trigger, Plain, Found, pool, setters, races
  <2>. QED BY <2>1 DEF StampsOf, StampOf, Copied
<1>13. ASSUME ScanBegin PROVE StampsOf'
  <2>1. /\ UNCHANGED <<stamp, last, op, hits, fresh>> /\ stray \subseteq stray' /\ contended' = contended
        /\ \A j \in Keys : Plain(j)' => Plain(j) /\ map'[j] = map[j]
    BY <1>13 DEF ScanBegin, Plain, Found, pool, setters, races
  <2>. QED BY <2>1 DEF StampsOf, StampOf, Copied
<1>14. ASSUME ScanBlock PROVE StampsOf'
  <2>1. /\ UNCHANGED <<stamp, last, op, hits, fresh>> /\ stray \subseteq stray' /\ contended' = contended
        /\ \A j \in Keys : Plain(j)' => Plain(j) /\ map'[j] = map[j]
    <3>1. /\ UNCHANGED <<row, last, op, hits, half, fresh>> /\ stray \subseteq stray' /\ contended' = contended
          /\ stamp' = stamp
      BY <1>14 DEF ScanBlock, Evict, EvictFromMap, EvictLater, FreedStray, setters
    <3>2. /\ \A k \in Keys : map'[k] \in {map[k], NoBlock}
          /\ evicting \subseteq evicting'
      BY <1>14 DEF ScanBlock, Evict, EvictFromMap, EvictLater, TypeOK
    <3>. QED BY <3>1, <3>2 DEF Plain, Found
  <2>. QED BY <2>1 DEF StampsOf, StampOf, Copied
<1>15. ASSUME ScanEnd PROVE StampsOf'
  <2>1. /\ UNCHANGED <<stamp, last, op, hits, fresh>> /\ stray \subseteq stray' /\ contended' = contended
        /\ \A j \in Keys : Plain(j)' => Plain(j) /\ map'[j] = map[j]
    BY <1>15 DEF ScanEnd, Plain, Found, pool, setters, races
  <2>. QED BY <2>1 DEF StampsOf, StampOf, Copied
<1>16. ASSUME Erase PROVE StampsOf'
  <2>1. /\ UNCHANGED <<stamp, last, op, hits, fresh>> /\ stray \subseteq stray' /\ contended' = contended
        /\ \A j \in Keys : Plain(j)' => Plain(j) /\ map'[j] = map[j]
    <3>1. \A k \in Keys : map'[k] = IF k \in evicting THEN NoBlock ELSE map[k]
      BY <1>16 DEF Erase
    <3>2. UNCHANGED <<row, last, op, hits, half, fresh, contended, stray, stamp>>
      BY <1>16 DEF Erase, pool, setters, races
    <3>. QED BY <3>1, <3>2 DEF Plain, Found
  <2>. QED BY <2>1 DEF StampsOf, StampOf, Copied
<1> QED BY <1>1, <1>2, <1>3, <1>4, <1>5, <1>6, <1>7, <1>8, <1>9, <1>10, <1>11, <1>12, <1>13, <1>14, <1>15, <1>16 DEF Next, EvictStep, SetStep

(* Every step keeps the timestamps of new blocks. *)
LEMMA StepFreshStamps == IInv /\ RowsInv /\ TimesInv /\ Next => FreshStamps'
<1> SUFFICES ASSUME IInv, RowsInv, TimesInv, Next PROVE FreshStamps'
  OBVIOUS
<1> USE DEF IInv, Calling, Structure, RowsInv, TimesInv
<1>1. ASSUME NEW t \in Setters, SetBegin(t) PROVE FreshStamps'
  <2>1. \A k \in Keys : fresh[t][k] = NoBlock
    BY <1>1 DEF SetBegin, AllFresh, FreshKept
  <2>2. /\ UNCHANGED <<row, stamp, fresh>> /\ stray \subseteq stray' /\ contended \subseteq contended'
        /\ \A u \in Setters : u # t => op'[u] = op[u]
    BY <1>1 DEF SetBegin, pool, TypeOK
  <2>. QED BY <2>1, <2>2 DEF FreshStamps
<1>2. ASSUME NEW t \in Setters, WriteEnd(t) PROVE FreshStamps'
  <2>1. \A u \in Setters, l \in Keys : fresh[u][l] = NoBlock
    BY <1>2, TrainingMap DEF WriteEnd, Control, Modes
  <2>. QED BY <1>2, <2>1 DEF WriteEnd, FreshStamps
<1>3. ASSUME NEW t \in Setters, CopyDone(t) PROVE FreshStamps'
  <2>1. /\ UNCHANGED <<stamp, last, op, hits, fresh>> /\ stray \subseteq stray' /\ contended' = contended
        /\ \A j \in Keys : Plain(j)' => Plain(j) /\ map'[j] = map[j]
    BY <1>3 DEF CopyDone, Plain, Found, pool, setters, races
  <2>. QED BY <2>1 DEF FreshStamps
<1>4. ASSUME NEW t \in Setters, TakePool(t) PROVE FreshStamps'
  <2>1. /\ UNCHANGED <<stamp, last, op, hits, fresh>> /\ stray \subseteq stray' /\ contended' = contended
        /\ \A j \in Keys : Plain(j)' => Plain(j) /\ map'[j] = map[j]
    BY <1>4 DEF TakePool, Plain, Found, pool, setters, races
  <2>. QED BY <2>1 DEF FreshStamps
<1>5. ASSUME NEW t \in Setters, GivePool(t) PROVE FreshStamps'
  <2>1. /\ UNCHANGED <<stamp, last, op, hits, fresh>> /\ stray \subseteq stray' /\ contended' = contended
        /\ \A j \in Keys : Plain(j)' => Plain(j) /\ map'[j] = map[j]
    BY <1>5 DEF GivePool, Plain, Found, pool, setters, races
  <2>. QED BY <2>1 DEF FreshStamps
<1>6. ASSUME NEW t \in Setters, Insert(t) PROVE FreshStamps'
  <2>1. /\ UNCHANGED <<row, stamp, stray, contended>> /\ \A k \in Keys : fresh'[t][k] = NoBlock
        /\ \A u \in Setters : u # t => op'[u] = op[u] /\ fresh'[u] = fresh[u]
    BY <1>6 DEF Insert, pool, races, TypeOK
  <2>. QED BY <2>1 DEF FreshStamps
<1>7. ASSUME NEW t \in Setters, NEW k \in Keys, WriteHit(t, k) PROVE FreshStamps'
  <2>1. \A u \in Setters, l \in Keys : fresh[u][l] = NoBlock
    BY <1>7, TrainingMap DEF WriteHit, Control, Modes
  <2>. QED BY <1>7, <2>1 DEF WriteHit, FreshStamps
<1>8. ASSUME NEW t \in Setters, NEW k \in Keys, WriteMiss(t, k) PROVE FreshStamps'
  <2>1. \A u \in Setters, l \in Keys : fresh[u][l] = NoBlock
    BY <1>8, TrainingMap DEF WriteMiss, Control, Modes
  <2>. QED BY <1>8, <2>1 DEF WriteMiss, FreshStamps
<1>9. ASSUME NEW t \in Setters, NEW k \in Keys, CopyBegin(t, k) PROVE FreshStamps'
  <2>1. /\ UNCHANGED <<stamp, last, op, hits, fresh>> /\ stray \subseteq stray' /\ contended' = contended
        /\ \A j \in Keys : Plain(j)' => Plain(j) /\ map'[j] = map[j]
    BY <1>9 DEF CopyBegin, Plain, Found, pool, setters, races
  <2>. QED BY <2>1 DEF FreshStamps
<1>10. ASSUME NEW t \in Setters, NEW k \in Keys, CopyEnd(t, k) PROVE FreshStamps'
  <2>1. k \in hits[t] /\ UNCHANGED <<op, fresh, stray, contended>>
    BY <1>10 DEF CopyEnd, races, CallsKnow, CallKnows
  <2>2. \A c \in Blocks : c # map[k] => row'[c] = row[c] /\ stamp'[c] = stamp[c]
    BY <1>10, <2>1, OthersBlocks DEF CopyEnd, NewStamp, TypeOK
  <2>. QED BY <2>1, <2>2, OthersBlocks, FreshBlock DEF FreshStamps
<1>11. ASSUME NEW t \in Setters, NEW k \in Keys, Fill(t, k) PROVE FreshStamps'
  <2>1. PICK b \in Free(SizeToAllocate) : AllocateFor(b, k, Write(t, k), op[t].stamp)
                                    /\ fresh' = [fresh EXCEPT ![t][k] = b]
    BY <1>11 DEF Fill
  <2>2. HasRoom
    BY <1>11 DEF Fill
  <2>3. /\ b \in Blocks /\ (b \notin used \/ b \in stray)
        /\ used' = used \cup {b} /\ keyOf'[b] = k /\ stamp'[b] = op[t].stamp
        /\ row'[b] = Whole(Write(t, k))
        /\ \A c \in Blocks : c # b =>
             keyOf'[c] = keyOf[c] /\ stamp'[c] = stamp[c] /\ row'[c] = row[c]
    BY <2>1, <2>2, NewBlock

  <2>4. UNCHANGED <<op, contended, stray>>
    BY <1>11 DEF Fill, races
  <2>5. \A u \in Setters, l \in Keys : fresh'[u][l] = IF u = t /\ l = k THEN b ELSE fresh[u][l]
    BY <2>1 DEF TypeOK
  <2>6. \A u \in Setters, l \in Keys :
          fresh[u][l] # NoBlock /\ fresh[u][l] \notin stray /\ l \notin contended
            => fresh[u][l] \in Blocks /\ fresh[u][l] # b
    BY <2>3, FreshBlock
  <2>. QED BY <2>3, <2>4, <2>5, <2>6 DEF FreshStamps
<1>12. ASSUME Trigger PROVE FreshStamps'
  <2>1. /\ UNCHANGED <<stamp, last, op, hits, fresh>> /\ stray \subseteq stray' /\ contended' = contended
        /\ \A j \in Keys : Plain(j)' => Plain(j) /\ map'[j] = map[j]
    BY <1>12 DEF Trigger, Plain, Found, pool, setters, races
  <2>. QED BY <2>1 DEF FreshStamps
<1>13. ASSUME ScanBegin PROVE FreshStamps'
  <2>1. /\ UNCHANGED <<stamp, last, op, hits, fresh>> /\ stray \subseteq stray' /\ contended' = contended
        /\ \A j \in Keys : Plain(j)' => Plain(j) /\ map'[j] = map[j]
    BY <1>13 DEF ScanBegin, Plain, Found, pool, setters, races
  <2>. QED BY <2>1 DEF FreshStamps
<1>14. ASSUME ScanBlock PROVE FreshStamps'
  <2>1. /\ UNCHANGED <<stamp, last, op, hits, fresh>> /\ stray \subseteq stray' /\ contended' = contended
        /\ \A j \in Keys : Plain(j)' => Plain(j) /\ map'[j] = map[j]
    <3>1. /\ UNCHANGED <<row, last, op, hits, half, fresh>> /\ stray \subseteq stray' /\ contended' = contended
          /\ stamp' = stamp
      BY <1>14 DEF ScanBlock, Evict, EvictFromMap, EvictLater, FreedStray, setters
    <3>2. /\ \A k \in Keys : map'[k] \in {map[k], NoBlock}
          /\ evicting \subseteq evicting'
      BY <1>14 DEF ScanBlock, Evict, EvictFromMap, EvictLater, TypeOK
    <3>. QED BY <3>1, <3>2 DEF Plain, Found
  <2>. QED BY <2>1 DEF FreshStamps
<1>15. ASSUME ScanEnd PROVE FreshStamps'
  <2>1. /\ UNCHANGED <<stamp, last, op, hits, fresh>> /\ stray \subseteq stray' /\ contended' = contended
        /\ \A j \in Keys : Plain(j)' => Plain(j) /\ map'[j] = map[j]
    BY <1>15 DEF ScanEnd, Plain, Found, pool, setters, races
  <2>. QED BY <2>1 DEF FreshStamps
<1>16. ASSUME Erase PROVE FreshStamps'
  <2>1. /\ UNCHANGED <<stamp, last, op, hits, fresh>> /\ stray \subseteq stray' /\ contended' = contended
        /\ \A j \in Keys : Plain(j)' => Plain(j) /\ map'[j] = map[j]
    <3>1. \A k \in Keys : map'[k] = IF k \in evicting THEN NoBlock ELSE map[k]
      BY <1>16 DEF Erase
    <3>2. UNCHANGED <<row, last, op, hits, half, fresh, contended, stray, stamp>>
      BY <1>16 DEF Erase, pool, setters, races
    <3>. QED BY <3>1, <3>2 DEF Plain, Found
  <2>. QED BY <2>1 DEF FreshStamps
<1> QED BY <1>1, <1>2, <1>3, <1>4, <1>5, <1>6, <1>7, <1>8, <1>9, <1>10, <1>11, <1>12, <1>13, <1>14, <1>15, <1>16 DEF Next, EvictStep, SetStep

(* A key about to be erased stays old. *)
LEMMA StepDoomed == IInv /\ RowsInv /\ TimesInv /\ Next => AllDoomed'
<1> SUFFICES ASSUME IInv, RowsInv, TimesInv, Next PROVE AllDoomed'
  OBVIOUS
<1> USE DEF IInv, Calling, Structure, RowsInv, TimesInv
<1>1. ASSUME NEW t \in Setters, SetBegin(t) PROVE AllDoomed'
  <2>1. PICK keys \in (SUBSET Keys) \ {{}} :
          /\ op'[t].keys = keys /\ hits'[t] = {k \in keys : Found(k)}
          /\ \A u \in Setters : u # t => op'[u] = op[u] /\ hits'[u] = hits[u]
          /\ contended' = contended \cup {k \in keys : BeingSet(k)}
          /\ stray' = stray \cup {map[k] : k \in {j \in keys : Found(j) /\ ~Owns(j)}}
    BY <1>1 DEF SetBegin, TypeOK
  <2>2. op[t].keys = {} /\ UNCHANGED <<map, last, threshold, evicting>>
    BY <1>1 DEF SetBegin, round, CallsKnow, CallKnows
  <2>3. ASSUME NEW k \in evicting' \ contended', Found(k)', map'[k] \notin stray' PROVE Doomed(k)'
    <3>1. k \in Keys /\ Found(k) /\ map[k] \notin stray /\ Doomed(k)
      BY <2>1, <2>2, <2>3 DEF AllDoomed, Found, TypeOK
    <3>2. ~Owns(k)
      BY <2>1, <2>2, <2>3, <3>1, BlocksOfMap DEF Gone, Owns
    <3>3. k \notin keys
      BY <2>1, <2>2, <2>3, <3>1, <3>2
    <3>. QED BY <2>1, <2>2, <3>1, <3>3 DEF Doomed, Copied
  <2>. QED BY <2>3 DEF AllDoomed
<1>2. ASSUME NEW t \in Setters, WriteEnd(t) PROVE AllDoomed'
  <2>1. evicting' = {}
    BY <1>2, TrainingMap DEF WriteEnd, Control, Modes
  <2>. QED BY <2>1 DEF AllDoomed
<1>3. ASSUME NEW t \in Setters, CopyDone(t) PROVE AllDoomed'
  <2>1. UNCHANGED <<map, last, op, hits, threshold, evicting, contended, stray>>
    BY <1>3 DEF CopyDone, setters, round, races
  <2>. QED BY <2>1 DEF AllDoomed, Doomed, Copied, Found
<1>4. ASSUME NEW t \in Setters, TakePool(t) PROVE AllDoomed'
  <2>1. UNCHANGED <<map, last, op, hits, threshold, evicting, contended, stray>>
    BY <1>4 DEF TakePool, setters, round, races
  <2>. QED BY <2>1 DEF AllDoomed, Doomed, Copied, Found
<1>5. ASSUME NEW t \in Setters, GivePool(t) PROVE AllDoomed'
  <2>1. UNCHANGED <<map, last, op, hits, threshold, evicting, contended, stray>>
    BY <1>5 DEF GivePool, setters, round, races
  <2>. QED BY <2>1 DEF AllDoomed, Doomed, Copied, Found
<1>6. ASSUME NEW t \in Setters, Insert(t) PROVE AllDoomed'
  <2>1. /\ UNCHANGED <<hits, threshold, evicting, contended, stray>> /\ op'[t].keys = {}
        /\ \A u \in Setters : u # t => op'[u] = op[u]
    BY <1>6 DEF Insert, NoCall, races, round, TypeOK
  <2>2. /\ \A k \in Keys : map'[k] = IF Found(k) THEN map[k] ELSE fresh[t][k]
        /\ \A k \in Keys : k \notin op[t].keys => last'[k] = last[k]
        /\ \A k \in Keys : k \in op[t].keys =>
             last'[k].stamp = IF op[t].timed \/ fresh[t][k] # NoBlock THEN op[t].stamp ELSE last[k].stamp
    BY <1>6 DEF Insert, Inserted
  <2>3. ASSUME NEW k \in evicting' \ contended', Found(k)', map'[k] \notin stray' PROVE Doomed(k)'
    <3>1. k \in Keys /\ k \in evicting /\ k \notin contended
      BY <2>1, <2>3 DEF TypeOK
    <3>2. Found(k)
      <4>1. CASE ~Found(k)
        <5>1. fresh[t][k] # NoBlock /\ fresh[t][k] \notin stray
          BY <2>1, <2>2, <2>3, <3>1, <4>1 DEF Found
        <5>. QED BY <3>1, <5>1, FreshBlock DEF Gone
      <4>. QED BY <4>1
    <3>3. Doomed(k) /\ fresh[t][k] = NoBlock
      BY <2>1, <2>2, <2>3, <3>1, <3>2 DEF AllDoomed, Found, AllFresh, FreshKept
    <3>4. \A u \in Setters : u # t => (Copied(u, k)' <=> Copied(u, k))
      BY <2>1 DEF Copied
    <3>5. ~Copied(t, k)'
      BY <2>1 DEF Copied
    <3>6. CASE k \in op[t].keys
      <4>1. \A u \in Setters : k \in op[u].keys => u = t
        BY <3>1, <3>6 DEF Overlaps
      <4>2. \A u \in Setters : Copied(u, k) => u = t
        BY <4>1 DEF Copied
      <4>3. Copied(t, k) <=> op[t].timed
        BY <3>3, <3>6 DEF Copied, Doomed
      <4>4. last'[k].stamp < threshold
        BY <2>2, <3>1, <3>3, <3>6, <4>2, <4>3 DEF Doomed
      <4>. QED BY <2>1, <3>3, <3>4, <3>5, <4>2, <4>4 DEF Doomed
    <3>7. CASE k \notin op[t].keys
      <4>1. ~Copied(t, k) /\ last'[k] = last[k]
        BY <2>2, <3>1, <3>7 DEF Copied
      <4>. QED BY <2>1, <3>3, <3>4, <3>5, <4>1 DEF Doomed
    <3>. QED BY <3>6, <3>7
  <2>. QED BY <2>3 DEF AllDoomed
<1>7. ASSUME NEW t \in Setters, NEW k \in Keys, WriteHit(t, k) PROVE AllDoomed'
  <2>1. evicting' = {}
    BY <1>7, TrainingMap DEF WriteHit, Control, Modes
  <2>. QED BY <2>1 DEF AllDoomed
<1>8. ASSUME NEW t \in Setters, NEW k \in Keys, WriteMiss(t, k) PROVE AllDoomed'
  <2>1. evicting' = {}
    BY <1>8, TrainingMap DEF WriteMiss, Control, Modes
  <2>. QED BY <2>1 DEF AllDoomed
<1>9. ASSUME NEW t \in Setters, NEW k \in Keys, CopyBegin(t, k) PROVE AllDoomed'
  <2>1. UNCHANGED <<map, last, op, hits, threshold, evicting, contended, stray>>
    BY <1>9 DEF CopyBegin, setters, round, races
  <2>. QED BY <2>1 DEF AllDoomed, Doomed, Copied, Found
<1>10. ASSUME NEW t \in Setters, NEW k \in Keys, CopyEnd(t, k) PROVE AllDoomed'
  <2>1. UNCHANGED <<map, last, op, threshold, evicting, contended, stray>> /\ k \in hits[t]
    BY <1>10 DEF CopyEnd, round, races, CallsKnow, CallKnows
  <2>2. hits'[t] = hits[t] \ {k} /\ \A u \in Setters : u # t => hits'[u] = hits[u]
    BY <1>10 DEF CopyEnd, TypeOK
  <2>. QED BY <2>1, <2>2 DEF AllDoomed, Doomed, Copied, Found
<1>11. ASSUME NEW t \in Setters, NEW k \in Keys, Fill(t, k) PROVE AllDoomed'
  <2>1. UNCHANGED <<map, last, op, hits, threshold, evicting, contended, stray>>
    BY <1>11 DEF Fill, setters, round, races
  <2>. QED BY <2>1 DEF AllDoomed, Doomed, Copied, Found
<1>12. ASSUME Trigger PROVE AllDoomed'
  <2>1. UNCHANGED <<map, last, op, hits, evicting, contended, stray>>
    BY <1>12 DEF Trigger, setters, races
  <2>2. threshold \in Int /\ threshold' \in Int /\ threshold <= threshold'
    BY <1>12, DramConstants DEF Trigger, TypeOK, Stamps
  <2>3. /\ \A k \in Keys : last[k].stamp \in Int
        /\ \A u \in Setters : op[u].stamp \in Int
    BY DEF TypeOK, Calls, Stamps
  <2>4. evicting \subseteq Keys
    BY DEF TypeOK
  <2>5. ASSUME NEW k \in Keys, Doomed(k) PROVE Doomed(k)'
    <3>1. ASSUME NEW i \in Int, i < threshold PROVE i < threshold'
      BY <2>2, <3>1
    <3>2. \A u \in Setters : Copied(u, k)' <=> Copied(u, k)
      BY <2>1 DEF Copied
    <3>. QED BY <2>1, <2>3, <2>5, <3>1, <3>2 DEF Doomed
  <2>. QED BY <2>1, <2>4, <2>5 DEF AllDoomed, Found
<1>13. ASSUME ScanBegin PROVE AllDoomed'
  <2>1. UNCHANGED <<map, last, op, hits, threshold, evicting, contended, stray>>
    BY <1>13 DEF ScanBegin, setters, round, races
  <2>. QED BY <2>1 DEF AllDoomed, Doomed, Copied, Found
<1>14. ASSUME ScanBlock PROVE AllDoomed'
  <2> DEFINE b == cursor + 1
  <2>1. CASE b \in used /\ training /\ IsMapped(b) /\ EvictFromMap(b)
    <3>1. evicting' = {}
      BY <2>1, TrainingMap DEF EvictFromMap
    <3>. QED BY <3>1 DEF AllDoomed
  <2>2. CASE b \in used /\ ~training /\ Stale(b) /\ EvictLater(b)
    <3>1. /\ b \in Blocks /\ used' = used \ {b} /\ keyOf'[b] = NoKey
          /\ \A c \in Blocks : c # b => keyOf'[c] = keyOf[c]
          /\ evicting' = evicting \cup ({keyOf[b]} \cap Keys)
          /\ stray \subseteq stray' /\ stray' \subseteq stray \cup {b}
          /\ (Awaited(b) => b \in stray')
      BY <2>2, BlocksOfMap DEF EvictLater, Deallocate, FreedStray, TypeOK
    <3>2. UNCHANGED <<map, stamp, row, fresh, hits, op, last, threshold, contended>>
      BY <1>14, <2>2 DEF ScanBlock, EvictLater, setters

    <3>3. ASSUME NEW k \in evicting' \ contended, Found(k), map[k] \notin stray' PROVE Doomed(k)
      <4>1. CASE k \in evicting
        BY <3>1, <3>3, <4>1 DEF AllDoomed
      <4>2. CASE k \notin evicting
        <5>1. k = keyOf[b] /\ k \in Keys
          BY <3>1, <3>3, <4>2
        <5>2. \A u \in Setters : fresh[u][k] = NoBlock
          BY <3>3, <5>1 DEF AllFresh, FreshKept, Found
        <5>3. map[k] = b
          BY <3>1, <3>3, <5>1, <5>2, BlocksOfMap DEF Led
        <5>4. Plain(k) /\ StampOf(k)
          BY <3>1, <3>3, <4>2, <5>1 DEF Plain, StampsOf
        <5>5. \A u \in Setters : k \notin hits[u]
          BY <3>1, <3>3, <5>1, <5>3 DEF Awaited
        <5>6. stamp[map[k]] < threshold
          BY <2>2, <5>3 DEF Stale
        <5>. QED BY <5>4, <5>5, <5>6 DEF StampOf, Doomed
      <4>. QED BY <4>1, <4>2
    <3>. QED BY <3>2, <3>3 DEF AllDoomed, Doomed, Copied, Found
  <2>3. CASE UNCHANGED <<map, used, keyOf, evicting, stray>>
    BY <1>14, <2>3 DEF ScanBlock, AllDoomed, Doomed, Copied, Found, setters
  <2>. QED BY <1>14, <2>1, <2>2, <2>3 DEF ScanBlock, Evict
<1>15. ASSUME ScanEnd PROVE AllDoomed'
  <2>1. UNCHANGED <<map, last, op, hits, threshold, evicting, contended, stray>>
    BY <1>15 DEF ScanEnd, setters, round, races
  <2>. QED BY <2>1 DEF AllDoomed, Doomed, Copied, Found
<1>16. ASSUME Erase PROVE AllDoomed'
  <2>1. evicting' = {}
    BY <1>16 DEF Erase
  <2>. QED BY <2>1 DEF AllDoomed
<1> QED BY <1>1, <1>2, <1>3, <1>4, <1>5, <1>6, <1>7, <1>8, <1>9, <1>10, <1>11, <1>12, <1>13, <1>14, <1>15, <1>16 DEF Next, EvictStep, SetStep


LEMMA StepTimes == IInv /\ RowsInv /\ TimesInv /\ [Next]_vars => TimesInv'
<1> SUFFICES ASSUME IInv, RowsInv, TimesInv, [Next]_vars PROVE TimesInv'
  OBVIOUS
<1>1. CASE Next
  BY <1>1, StepStampsOf, StepFreshStamps, StepDoomed DEF TimesInv
<1>2. CASE UNCHANGED vars
  BY <1>2 DEF vars, pool, setters, round, races, TimesInv, StampsOf, StampOf, FreshStamps, AllDoomed,
     Doomed, Copied, Plain, Found
<1>. QED BY <1>1, <1>2

(* trigger_evict(ts) of inference drops no row whose timestamp is ts or     *)
(* younger: neither the last that a set gave it nor that of a set in        *)
(* progress, unless sets of the key overlapped or the scan freed its block  *)
(* under one.                                                               *)
THEOREM FreshRowsAreKept == Spec => FreshRowsSurvive
<1>1. Init => TimesInv
  BY DEF Init, TimesInv, StampsOf, FreshStamps, AllDoomed, Plain, Found
<1>2. IInv /\ TimesInv /\ [Next]_vars =>
        [\A k \in Keys : ~training /\ Found(k) /\ ~Found(k)'
            => \/ last[k].stamp < threshold
               \/ \E t \in Setters : k \in op[t].keys /\ op[t].stamp < threshold
               \/ Contended(k) \/ Stray(map[k])]_vars
  <2> SUFFICES ASSUME IInv, TimesInv, Next, NEW k \in Keys, ~training, Found(k), ~Found(k)',
                      k \notin contended, map[k] \notin stray
               PROVE  \/ last[k].stamp < threshold
                      \/ \E t \in Setters : k \in op[t].keys /\ op[t].stamp < threshold
    BY DEF vars, Contended, Stray
  <2>1. ASSUME NEW t \in Setters, SetStep(t) PROVE FALSE
    <3>1. ASSUME NEW l \in Keys, WriteMiss(t, l) PROVE FALSE
      BY <3>1 DEF WriteMiss, IInv, Control, Modes
    <3>. QED BY <2>1, <3>1 DEF SetStep, SetBegin, WriteEnd, CopyDone, TakePool, GivePool, Insert, Inserted,
         WriteHit, CopyBegin, CopyEnd, Fill, Found
  <2>2. Erase
    BY <2>1 DEF Next, EvictStep, Trigger, ScanBegin, ScanBlock, ScanEnd, Evict, EvictFromMap, EvictLater, Found
  <2>3. k \in evicting
    BY <2>2 DEF Erase, Found
  <2>. QED BY <2>3 DEF TimesInv, AllDoomed, Doomed, Copied
<1>3. Spec => [](IInv /\ TimesInv)
  BY <1>1, RowsHold, StepTimes, PTL DEF Spec
<1>. QED BY <1>2, <1>3, PTL DEF Spec, FreshRowsSurvive

=============================================================================
